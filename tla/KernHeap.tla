------------------------------ MODULE KernHeap -------------------------------
(***************************************************************************)
(* The kernel heap of kern_vmm.c: kmalloc (first fit, split, heap_expand), *)
(* kfree (free and coalesce) and kern_realloc.  Lengths are in units of 16 *)
(* bytes, to which align_size rounds.  kmalloc and kfree run with          *)
(* interrupts off; kern_realloc calls them with interrupts on in between.  *)
(***************************************************************************)
EXTENDS Integers, Sequences, SequencesExt, FiniteSets

CONSTANTS
  Hdr,       \* sizeof(heap_header_t)
  PageUnits, \* PAGE_SIZE
  InitPages, \* HEAP_MIN_SIZE in pages
  MaxPages,  \* bound on the physical pages
  Sizes      \* the sizes asked for

ASSUME HeapAssumption ==
  /\ Hdr \in Nat \ {0} /\ PageUnits \in Nat /\ PageUnits > Hdr
  /\ InitPages \in Nat \ {0} /\ MaxPages \in Nat /\ InitPages <= MaxPages
  /\ Sizes \subseteq Nat \ {0}

VARIABLES
  block,         \* the list from heap_ptr: address, size and is_free of each
  heap_end_addr,
  pages,         \* physical pages left in the free list
  owned,         \* the blocks clients hold: pairs of address and size asked for
  moving         \* kern_realloc calls between kmalloc and kfree: the two addresses

heapVars == <<block, heap_end_addr, pages, owned, moving>>

Blk(a, s, f) == [addr |-> a, size |-> s, is_free |-> f]
BlockAt(a) == CHOOSE b \in ToSet(block) : b.addr = a

\* kmalloc_init
HeapInit ==
  /\ block = <<Blk(0, InitPages * PageUnits - Hdr, TRUE)>>
  /\ heap_end_addr = InitPages * PageUnits
  /\ pages = MaxPages - InitPages
  /\ owned = {} /\ moving = {}

------------------------------------------------------------------------------
\* The first free block that is large enough, 0 if there is none.
FirstFit(bs, n) ==
  SelectInSeq(bs, LAMBDA b : b.is_free /\ b.size >= n)

\* A faulty variant of Take: the rest starts too early.
TakeOverlap(bs, i, n) ==
  LET b == bs[i]
  IN IF b.size >= n + Hdr + 1
     THEN SubSeq(bs, 1, i - 1)
            \o <<Blk(b.addr, n, FALSE), Blk(b.addr + n, b.size - n, TRUE)>>
            \o SubSeq(bs, i + 1, Len(bs))
     ELSE [bs EXCEPT ![i].is_free = FALSE]

\* The chosen block is split if a header and one unit fit behind it.
Take(bs, i, n) ==
  LET b == bs[i]
  IN IF b.size >= n + Hdr + 1
     THEN SubSeq(bs, 1, i - 1)
            \o <<Blk(b.addr, n, FALSE), Blk(b.addr + Hdr + n, b.size - n - Hdr, TRUE)>>
            \o SubSeq(bs, i + 1, Len(bs))
     ELSE [bs EXCEPT ![i].is_free = FALSE]

\* The pages heap_expand asks for, rounded up, and the ones it gets.
Wanted(n) == (n + Hdr + PageUnits - 1) \div PageUnits
Granted(n) == IF Wanted(n) <= pages THEN Wanted(n) ELSE pages

\* The list with the pages heap_expand got as one new block at its end.
Expanded(n) ==
  Append(block, Blk(heap_end_addr, Granted(n) * PageUnits - Hdr, TRUE))

\* kmalloc(n) out of the list it has.
KmallocFit(n) ==
  /\ FirstFit(block, n) # 0
  /\ block' = Take(block, FirstFit(block, n), n)
  /\ owned' = owned \cup {<<block[FirstFit(block, n)].addr, n>>}
  /\ UNCHANGED <<heap_end_addr, pages>>

\* kmalloc(n) with an expansion, after which its loop starts again.
KmallocExpand(n) ==
  /\ FirstFit(block, n) = 0 /\ pages >= Wanted(n)
  /\ LET bs == Expanded(n)
     IN /\ block' = Take(bs, FirstFit(bs, n), n)
        /\ owned' = owned \cup {<<bs[FirstFit(bs, n)].addr, n>>}
  /\ heap_end_addr' = heap_end_addr + Wanted(n) * PageUnits
  /\ pages' = pages - Wanted(n)

\* kmalloc(n) fails: the pages it got before the memory ran out stay as a free
\* block.
KmallocNull(n) ==
  /\ FirstFit(block, n) = 0 /\ pages < Wanted(n)
  /\ IF pages = 0 THEN UNCHANGED block ELSE block' = Expanded(n)
  /\ heap_end_addr' = heap_end_addr + pages * PageUnits
  /\ pages' = 0
  /\ UNCHANGED owned

Kmalloc(n) ==
  /\ KmallocFit(n) \/ KmallocExpand(n) \/ KmallocNull(n)
  /\ UNCHANGED moving

\* A faulty variant of Coalesced goes on to the next block after a join and
\* misses the third of three free neighbours.
CoalescedPairs(bs) ==
  LET join(done, b) ==
        IF /\ done # << >> /\ Last(done) \in ToSet(bs) /\ Last(done).is_free /\ b.is_free
           /\ Last(done).addr + Hdr + Last(done).size = b.addr
        THEN Append(Front(done), Blk(Last(done).addr, Last(done).size + Hdr + b.size, TRUE))
        ELSE Append(done, b)
  IN FoldLeft(join, << >>, bs)

\* The coalescing pass of kfree over the whole list: a free block is joined to
\* the one before it if that is free and ends where it starts.
Joined(done, b) ==
  IF /\ done # << >> /\ Last(done).is_free /\ b.is_free
     /\ Last(done).addr + Hdr + Last(done).size = b.addr
  THEN Append(Front(done), Blk(Last(done).addr, Last(done).size + Hdr + b.size, TRUE))
  ELSE Append(done, b)
Coalesced(bs) ==
  LET upto[k \in 0 .. Len(bs)] == IF k = 0 THEN << >> ELSE Joined(upto[k - 1], bs[k])
  IN upto[Len(bs)]

Freed(a) == [i \in DOMAIN block |->
               IF block[i].addr = a THEN [block[i] EXCEPT !.is_free = TRUE] ELSE block[i]]

KfreeBlock(o) ==
  /\ block' = Coalesced(Freed(o[1]))
  /\ owned' = owned \ {o}
  /\ UNCHANGED <<heap_end_addr, pages>>

\* kfree of a block its caller holds, not of one kern_realloc is copying.
Kfree(o) ==
  /\ o \in owned /\ \A m \in moving : o[1] \notin {m[1], m[2]}
  /\ KfreeBlock(o)
  /\ UNCHANGED moving

\* kern_realloc: a block that is large enough stays; otherwise a new one is
\* allocated, the contents are copied and the old one is freed.
ReallocInPlace(o, n) ==
  /\ o \in owned /\ \A m \in moving : o[1] \notin {m[1], m[2]}
  /\ BlockAt(o[1]).size >= n
  /\ owned' = (owned \ {o}) \cup {<<o[1], n>>}
  /\ UNCHANGED <<block, heap_end_addr, pages, moving>>

ReallocNew(o, n) ==
  /\ o \in owned /\ \A m \in moving : o[1] \notin {m[1], m[2]}
  /\ BlockAt(o[1]).size < n
  /\ \/ /\ KmallocFit(n) \/ KmallocExpand(n)
        /\ moving' = moving \cup {<<o[1], CHOOSE a \in {q[1] : q \in owned' \ owned} : TRUE>>}
     \/ KmallocNull(n) /\ UNCHANGED moving

ReallocFree(m) ==
  /\ m \in moving
  /\ moving' = moving \ {m}
  /\ \E o \in owned : o[1] = m[1] /\ KfreeBlock(o)

\* Pages the rest of the kernel returns to the free list or takes from it.
PoolChange ==
  /\ pages' \in 0 .. MaxPages - heap_end_addr \div PageUnits
  /\ UNCHANGED <<block, heap_end_addr, owned, moving>>

HeapNext ==
  \/ \E n \in Sizes : Kmalloc(n)
  \/ \E o \in owned : Kfree(o) \/ \E n \in Sizes : ReallocInPlace(o, n) \/ ReallocNew(o, n)
  \/ \E m \in moving : ReallocFree(m)
  \/ PoolChange

HeapSpec == HeapInit /\ [][HeapNext]_heapVars

------------------------------------------------------------------------------
(* Properties *)

\* The blocks lie end to end from the start of the heap to its end, over
\* splits, joins and expansions that ran out of memory half way: no two blocks
\* overlap, none is empty and no byte of the heap is lost.
HeapTiles ==
  \A i \in DOMAIN block :
    /\ block[i].size > 0
    /\ block[i].addr = (IF i = 1 THEN 0 ELSE block[i - 1].addr + Hdr + block[i - 1].size)
    /\ i = Len(block) => block[i].addr + Hdr + block[i].size = heap_end_addr

\* What a caller holds is a block of its own, in use and as large as it asked
\* for, whatever others allocate, free and join around it; and a block in use
\* has a holder.
OwnedIntact ==
  /\ \A o \in owned : \E b \in ToSet(block) :
       b.addr = o[1] /\ ~b.is_free /\ b.size >= o[2]
  /\ \A o, q \in owned : o[1] = q[1] => o = q
  /\ \A b \in ToSet(block) : ~b.is_free => \E o \in owned : o[1] = b.addr

\* The list and its holders agree on every byte of the heap.
HeapIntact == HeapTiles /\ OwnedIntact

\* After kfree no two free neighbours are left: the fragments that splits and
\* expansions made are joined by the next free.
KfreeCoalesces ==
  [][(owned \ owned' # {} /\ block' # block) =>
       \A i \in 1 .. Len(block') - 1 : ~(block'[i].is_free /\ block'[i + 1].is_free)]_heapVars
==============================================================================
