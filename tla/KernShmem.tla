------------------------------ MODULE KernShmem ------------------------------
(***************************************************************************)
(* Shared memory of kern_ipc.c: the global registry of reference-counted   *)
(* regions, the handle table each process grows, and the physical pages    *)
(* behind them (pmm_alloc_page and pmm_free of kern_vmm.c, used by the     *)
(* rest of the kernel at the same time).  Every function here runs with    *)
(* interrupts off, so each is one step; wasm_ipc_shm_create is two of      *)
(* them, between which other processes run and its own may be killed.      *)
(***************************************************************************)
EXTENDS Integers, Sequences, FiniteSets, FiniteSetsExt

CONSTANTS
  Proc,        \* the processes
  Page,        \* the physical pages, consecutive numbers
  PageCounts,  \* the page counts regions are created with
  MaxRegion,   \* bound on the region structures ever allocated
  IdSpace,     \* the number of shm ids before g_next_shm_id wraps
  InitCap,     \* capacity of the first handle table
  MaxCap       \* bound on the capacity: a larger table finds no memory

ASSUME ShmemAssumption ==
  /\ Page \subseteq Nat \ {0} /\ PageCounts \subseteq Nat \ {0}
  /\ MaxRegion \in Nat /\ IdSpace \in Nat \ {0}
  /\ InitCap \in Nat \ {0} /\ MaxCap \in Nat

VARIABLES
  free,        \* the pages on the free list
  other,       \* the pages other parts of the kernel own
  region,      \* the region structures in the registry, newest first
  region_c,    \* region structures allocated so far
  g_next_shm_id,
  alive,       \* the processes that exist
  table,       \* kern_process_t.shmem_table
  creating     \* the id wasm_ipc_shm_create got and has not yet attached

shmVars == <<free, other, region, region_c, g_next_shm_id, alive, table, creating>>

Ids == 1 .. IdSpace
None == [id |-> 0, base |-> 0, count |-> 0]   \* an inactive slot

PagesOf(e) == e.base .. e.base + e.count - 1
Active(p) == {h \in DOMAIN table[p] : table[p][h] # None}

ShmInit ==
  /\ free = Page /\ other = {}
  /\ region = << >> /\ region_c = 0 /\ g_next_shm_id = 1
  /\ alive = Proc
  /\ table = [p \in Proc |-> << >>]
  /\ creating = [p \in Proc |-> 0]

------------------------------------------------------------------------------
(* pmm_alloc_page and pmm_free by page tables, heaps and stacks *)

OtherAlloc ==
  /\ \E g \in free : free' = free \ {g} /\ other' = other \cup {g}
  /\ UNCHANGED <<region, region_c, g_next_shm_id, alive, table, creating>>

OtherFree ==
  /\ \E g \in other : free' = free \cup {g} /\ other' = other \ {g}
  /\ UNCHANGED <<region, region_c, g_next_shm_id, alive, table, creating>>

------------------------------------------------------------------------------
(* Regions *)

\* The id counter skips 0 when it wraps.
NextId(i) == IF i = IdSpace THEN 1 ELSE i + 1

\* shmem_create_region: one page is taken from the free list, whatever the page
\* count.  Without a page or a structure nothing changes.
Create(n) ==
  /\ region_c < MaxRegion
  /\ \E g \in free :
       /\ free' = free \ {g}
       /\ region' = <<[id |-> g_next_shm_id, base |-> g, count |-> n, ref |-> 0]>> \o region
  /\ region_c' = region_c + 1
  /\ g_next_shm_id' = NextId(g_next_shm_id)
  /\ UNCHANGED <<other, alive, table>>

\* The shell's `ipc' leaves the new region to the processes it spawns.
ShellCreate(n) == Create(n) /\ UNCHANGED creating

\* wasm_ipc_shm_create goes on to attach it.
ShmCreate(p, n) ==
  /\ p \in alive /\ creating[p] = 0
  /\ Create(n)
  /\ creating' = [creating EXCEPT ![p] = g_next_shm_id]

\* shmem_find_global: the newest region with this id, 0 if there is none.
Find(reg, id) ==
  LET hits == {i \in DOMAIN reg : reg[i].id = id}
  IN IF hits = {} THEN 0 ELSE Min(hits)

\* proc_alloc_shmem_slot: the first inactive slot of the table, which is
\* doubled (starting from InitCap) when all are active.
Grown(t) ==
  IF \E h \in DOMAIN t : t[h] = None THEN t
  ELSE t \o [i \in 1 .. (IF t = << >> THEN InitCap ELSE Len(t)) |-> None]

\* shmem_attach_proc: nothing happens without a region, or with a handle on it
\* already, or if the table cannot grow.
AttachProc(p, id) ==
  LET i    == Find(region, id)
      t    == Grown(table[p])
      slot == Min({h \in DOMAIN t : t[h] = None})
      held == \E h \in Active(p) : table[p][h].id = id
  IN IF i = 0 \/ held \/ Len(t) > MaxCap THEN UNCHANGED <<region, table>>
     ELSE /\ region' = [region EXCEPT ![i].ref = @ + 1]
          /\ table' = [table EXCEPT ![p] =
               [t EXCEPT ![slot] = [id |-> id, base |-> region[i].base, count |-> region[i].count]]]

\* The second half of wasm_ipc_shm_create.
ShmCreateAttach(p) ==
  /\ p \in alive /\ creating[p] # 0
  /\ AttachProc(p, creating[p])
  /\ creating' = [creating EXCEPT ![p] = 0]
  /\ UNCHANGED <<free, other, region_c, g_next_shm_id, alive>>

\* wasm_ipc_shm_attach with an id learned from anyone.
ShmAttach(p, id) ==
  /\ p \in alive /\ creating[p] = 0
  /\ AttachProc(p, id)
  /\ UNCHANGED <<free, other, region_c, g_next_shm_id, alive, creating>>

\* A faulty variant of Dropped that frees a region with one handle left on it.
DroppedEarly(reg, id) ==
  LET i == Find(reg, id)
  IN IF i = 0 THEN [reg |-> reg, pages |-> {}]
     ELSE IF reg[i].ref <= 2
     THEN [reg |-> SubSeq(reg, 1, i - 1) \o SubSeq(reg, i + 1, Len(reg)),
           pages |-> PagesOf(reg[i])]
     ELSE [reg |-> [reg EXCEPT ![i].ref = @ - 1], pages |-> {}]

\* The registry reg after shmem_detach_proc dropped a reference to id, and the
\* pages it frees with the last one.
Dropped(reg, id) ==
  LET i == Find(reg, id)
  IN IF i = 0 THEN [reg |-> reg, pages |-> {}]
     ELSE IF reg[i].ref <= 1
     THEN [reg |-> SubSeq(reg, 1, i - 1) \o SubSeq(reg, i + 1, Len(reg)),
           pages |-> PagesOf(reg[i])]
     ELSE [reg |-> [reg EXCEPT ![i].ref = @ - 1], pages |-> {}]

\* shmem_detach_proc: unmap, clear the slot, drop the reference.
ShmDetach(p, h) ==
  LET d == Dropped(region, table[p][h].id)
  IN /\ p \in alive /\ creating[p] = 0 /\ h \in Active(p)
     /\ table' = [table EXCEPT ![p][h] = None]
     /\ region' = d.reg
     /\ free' = free \cup (d.pages \cap Page)
     /\ UNCHANGED <<other, region_c, g_next_shm_id, alive, creating>>

\* ipc_process_cleanup, run by process_exit: every active handle is detached in
\* order and the table is freed.  The process may die at any point.
AlsoDropped(d, slot) ==
  IF slot = None THEN d
  ELSE LET e == Dropped(d.reg, slot.id)
       IN [reg |-> e.reg, pages |-> d.pages \cup e.pages]
AllDropped(t) ==
  LET after[h \in 0 .. Len(t)] ==
        IF h = 0 THEN [reg |-> region, pages |-> {}] ELSE AlsoDropped(after[h - 1], t[h])
  IN after[Len(t)]

ProcessCleanup(p) ==
  LET last == AllDropped(table[p])
  IN /\ p \in alive
     /\ region' = last.reg
     /\ free' = free \cup (last.pages \cap Page)
     /\ table' = [table EXCEPT ![p] = << >>]
     /\ creating' = [creating EXCEPT ![p] = 0]
     /\ alive' = alive \ {p}
     /\ UNCHANGED <<other, region_c, g_next_shm_id>>

\* A new process in a structure used before, with an empty table.
Respawn(p) ==
  /\ p \notin alive
  /\ alive' = alive \cup {p}
  /\ UNCHANGED <<free, other, region, region_c, g_next_shm_id, table, creating>>

ShmNext ==
  \/ OtherAlloc \/ OtherFree
  \/ \E n \in PageCounts : ShellCreate(n) \/ \E p \in Proc : ShmCreate(p, n)
  \/ \E p \in Proc :
       \/ ShmCreateAttach(p) \/ ProcessCleanup(p) \/ Respawn(p)
       \/ \E id \in Ids : ShmAttach(p, id)
       \/ \E h \in Active(p) : ShmDetach(p, h)

ShmSpec == ShmInit /\ [][ShmNext]_shmVars

------------------------------------------------------------------------------
(* Properties *)

\* A region counts exactly the handles on it, over attaches, repeated attaches,
\* table growth, detaches and deaths of its processes, so that the detach which
\* finds one reference left is the one of its last handle.
RefCountExact ==
  \A i \in DOMAIN region :
    region[i].ref = Cardinality({s \in Proc \X (1 .. MaxCap) :
                                   s[2] \in Active(s[1]) /\ table[s[1]][s[2]].id = region[i].id})

\* The handle of a live process leads to a registered region, and to the page
\* that is mapped behind it.
HandlesLive ==
  \A p \in Proc : \A h \in Active(p) :
    LET i == Find(region, table[p][h].id)
    IN i # 0 /\ region[i].base = table[p][h].base

\* No page that a process has mapped, or a region owns, is on the free list or
\* in use by another part of the kernel or by another region.
PagesExclusive ==
  /\ \A p \in Proc : \A h \in Active(p) :
       PagesOf(table[p][h]) \cap (free \cup other) = {}
  /\ \A i, j \in DOMAIN region :
       /\ region[i].base \notin free \cup other
       /\ region[i].base = region[j].base => i = j

\* Regions, handles and pages agree: a region goes exactly with its last handle,
\* and its page goes back to the free list exactly then.
RegionsCounted == RefCountExact /\ HandlesLive /\ PagesExclusive
==============================================================================
