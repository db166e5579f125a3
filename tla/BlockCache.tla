------------------------------ MODULE BlockCache -----------------------------
(***************************************************************************)
(* The block cache of kern_ext2.c under ext2_read_block, ext2_read_blocks  *)
(* and ext2_write_block of an IDE drive: a hash table with linear probing, *)
(* least-recently-used eviction and write-through.  Nothing in it is       *)
(* locked: a task can be switched away from between the disk transfer and  *)
(* the update of the cache.  Each helper bc_* is one step, and so is each  *)
(* transfer.  The key of an entry stands for the pair (drive, block).      *)
(***************************************************************************)
EXTENDS Integers, Sequences, SequencesExt, FiniteSets, FiniteSetsExt

CONSTANTS
  User,      \* tasks using the file system
  BlockNo,   \* consecutive block numbers
  Content,   \* contents of a block
  Caps,      \* table capacities that can be configured
  OOM        \* TRUE if kmalloc may fail

ASSUME CacheAssumption ==
  /\ BlockNo \subseteq Nat /\ Caps \subseteq Nat \ {0} /\ OOM \in BOOLEAN

VARIABLES
  disk,      \* the blocks on the disk
  hash,      \* XXH64 of a key
  bc,        \* the table g_bc: slots, g_bc_used, and the valid slots from the
             \* least to the most recently used (last_access)
  g_bc_target,
  pc, buf    \* where a task is, and the run of blocks in its buffer

cacheVars == <<disk, hash, bc, g_bc_target, pc, buf>>

NoEntry == [id |-> -1, data |-> 0]
NoTable == [slot |-> << >>, used |-> 0, lru |-> << >>]
NewTable(cap) == [slot |-> [i \in 1 .. cap |-> NoEntry], used |-> 0, lru |-> << >>]

Cap(c) == Len(c.slot)
Valid(c, s) == c.slot[s] # NoEntry

\* Slot s becomes the most recently used.
Touch(c, s) == [c EXCEPT !.lru = Append(RemoveFirst(@, s), s)]

\* bc_slot, and the i-th slot of the probe sequence from there.
Probe(c, b, i) == 1 + ((hash[b] + i) % Cap(c))
Probes(c) == 0 .. Cap(c) - 1

CacheInit ==
  /\ disk \in [BlockNo -> Content]
  /\ hash \in [BlockNo -> 0 .. Max(Caps) - 1]
  /\ bc = NoTable /\ g_bc_target \in Caps
  /\ pc = [t \in User |-> "idle"] /\ buf = [t \in User |-> << >>]

------------------------------------------------------------------------------
\* bc_lookup passes over empty slots: the slot of the first entry for b, 0 if
\* there is none.
Lookup(c, b) ==
  LET hits == {i \in Probes(c) : c.slot[Probe(c, b, i)].id = b}
  IN IF hits = {} THEN 0 ELSE Probe(c, b, Min(hits))

Put(c, s, b, v) == Touch([c EXCEPT !.slot[s] = [id |-> b, data |-> v]], s)

\* The probes at which bc_insert stops: an empty slot, or the entry for b.
Stops(c, b) ==
  {i \in Probes(c) : ~Valid(c, Probe(c, b, i)) \/ c.slot[Probe(c, b, i)].id = b}

\* The least recently used entry leaves.
Evict(c) == [c EXCEPT !.slot[Head(c.lru)] = NoEntry, !.used = @ - 1, !.lru = Tail(@)]

\* bc_insert takes the first place it stops at.  Without one an entry is evicted,
\* before the buffer for the new one is allocated.
Insert(c, b, v, nomem) ==
  LET stops == Stops(c, b)
      s     == IF stops = {} THEN Head(c.lru) ELSE Probe(c, b, Min(stops))
      e     == IF stops = {} THEN Evict(c) ELSE c
  IN IF Cap(c) = 0 THEN c
     ELSE IF Valid(e, s) THEN Put(e, s, b, v)
     ELSE IF nomem THEN e
     ELSE [Put(e, s, b, v) EXCEPT !.used = @ + 1]

\* bc_update
Update(c, b, v, nomem) ==
  LET s == Lookup(c, b)
  IN IF s # 0 THEN Put(c, s, b, v) ELSE Insert(c, b, v, nomem)

NoMem == IF OOM THEN BOOLEAN ELSE {FALSE}

\* bc_init before the first read.
Ready(nomem) == IF bc = NoTable /\ ~nomem THEN NewTable(g_bc_target) ELSE bc

\* The table after each of the lookups of a run.
Used(c, b) == LET s == Lookup(c, b) IN IF s = 0 THEN c ELSE Touch(c, s)
LookedUp(c, run) ==
  LET seen[i \in 0 .. Len(run)] == IF i = 0 THEN c ELSE Used(seen[i - 1], run[i])
  IN seen

\* ext2_read_block, and ext2_read_blocks for a run of several: with all blocks
\* cached nothing is read from the disk; the lookups up to the first miss count
\* as accesses.  Otherwise the whole run is read.
Read(t, run, nomem) ==
  LET seen == LookedUp(Ready(nomem), run)
      missing == {i \in DOMAIN run : Lookup(Ready(nomem), run[i]) = 0}
  IN /\ pc[t] = "idle"
     /\ \/ /\ missing = {}
           /\ bc' = seen[Len(run)]
           /\ UNCHANGED <<pc, buf>>
        \/ /\ missing # {}
           /\ bc' = seen[Min(missing) - 1]
           /\ pc' = [pc EXCEPT ![t] = "fill"]
           /\ buf' = [buf EXCEPT ![t] = [i \in DOMAIN run |-> [id |-> run[i], data |-> disk[run[i]]]]]
     /\ UNCHANGED <<disk, hash, g_bc_target>>

\* The table after each block of a run was put into it.
AllPut(c, run, nomem) ==
  LET put[i \in 0 .. Len(run)] ==
        IF i = 0 THEN c ELSE Insert(put[i - 1], run[i].id, run[i].data, nomem[i])
  IN put

\* The blocks read are put into the cache, if the run fits.
Fill(t) ==
  /\ pc[t] = "fill"
  /\ \E nomem \in [DOMAIN buf[t] -> NoMem] :
       bc' = IF Len(buf[t]) = 1 \/ Len(buf[t]) <= Cap(bc) THEN AllPut(bc, buf[t], nomem)[Len(buf[t])] ELSE bc
  /\ pc' = [pc EXCEPT ![t] = "idle"] /\ buf' = [buf EXCEPT ![t] = << >>]
  /\ UNCHANGED <<disk, hash, g_bc_target>>

\* ext2_write_block: the disk first, then the cache.
WriteDisk(t, b, v) ==
  /\ pc[t] = "idle"
  /\ disk' = [disk EXCEPT ![b] = v]
  /\ pc' = [pc EXCEPT ![t] = "update"]
  /\ buf' = [buf EXCEPT ![t] = <<[id |-> b, data |-> v]>>]
  /\ UNCHANGED <<hash, bc, g_bc_target>>

\* A faulty variant that leaves the cache as it is.
WriteThroughOnly(t) ==
  /\ pc[t] = "update"
  /\ pc' = [pc EXCEPT ![t] = "idle"] /\ buf' = [buf EXCEPT ![t] = << >>]
  /\ UNCHANGED <<disk, hash, bc, g_bc_target>>

WriteUpdate(t) ==
  /\ pc[t] = "update"
  /\ \E nomem \in NoMem :
       bc' = IF bc = NoTable THEN bc ELSE Update(bc, buf[t][1].id, buf[t][1].data, nomem)
  /\ pc' = [pc EXCEPT ![t] = "idle"] /\ buf' = [buf EXCEPT ![t] = << >>]
  /\ UNCHANGED <<disk, hash, g_bc_target>>

\* block_cache_set_capacity: every entry is dropped; without memory for the
\* table there is no cache until the next read.
SetCapacity(t, cap) ==
  /\ pc[t] = "idle"
  /\ cap # g_bc_target \/ bc = NoTable
  /\ g_bc_target' = cap
  /\ \E nomem \in NoMem : bc' = IF nomem THEN NoTable ELSE NewTable(cap)
  /\ UNCHANGED <<disk, hash, pc, buf>>

Runs == {<<b>> : b \in BlockNo} \cup {<<b, b + 1>> : b \in {b \in BlockNo : b + 1 \in BlockNo}}

CacheNext ==
  \E t \in User :
    \/ \E run \in Runs, nomem \in NoMem : Read(t, run, nomem)
    \/ Fill(t)
    \/ \E b \in BlockNo, v \in Content : WriteDisk(t, b, v)
    \/ WriteUpdate(t)
    \/ \E cap \in Caps : SetCapacity(t, cap)

CacheSpec == CacheInit /\ [][CacheNext]_cacheVars

------------------------------------------------------------------------------
(* Properties *)

\* The cache agrees with the disk whenever no task is inside a read or write,
\* so a later read returns what was written last.
CacheCoherent ==
  (\A t \in User : pc[t] = "idle") =>
    \A s \in DOMAIN bc.slot : Valid(bc, s) => bc.slot[s].data = disk[bc.slot[s].id]
==============================================================================
