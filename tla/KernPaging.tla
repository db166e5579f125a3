----------------------------- MODULE KernPaging -----------------------------
(***************************************************************************)
(* Address spaces: the page tables of kern_vmm.c, and the functions of     *)
(* kern_sched.c, kern_ipc.c and kern_interrupts.c that build, share and    *)
(* free them.  A table is a frame with Width entries; four levels of them  *)
(* translate the number of a page.  The lower half of an address space is  *)
(* its process's own; the upper half is the kernel's and every process has *)
(* a copy of its top level: the kernel's image, its devices and its heap   *)
(* all hang from one top entry, the last.  Each function runs with         *)
(* interrupts off, so each is one step.  One processor: the TLB holds one  *)
(* translation or none, whichever the hardware kept.                       *)
(***************************************************************************)
EXTENDS Integers, Sequences, SequencesExt, FiniteSets, FiniteSetsExt

CONSTANTS
  Users,       \* the process structures, model values
  Kernel,      \* kernel_process
  Width,       \* entries of a table: 512 in the code, even
  Ram,         \* the frames of memory, numbers from 1; the first five are in use at boot
  Device,      \* a frame that is no memory: a device's registers
  Counts,      \* the page counts asked for
  Touched,     \* the pages that are used
  HeapVirt,    \* the page heap_vptr starts at
  MaxPid,      \* bound on process_id_c
  MaxPage,     \* bound on the pages a process's heap_vptr passes over
  MmioEnd,     \* bound on mmio_virt_next: the devices present ask for less
  HeapLast     \* bound on heap_end

ASSUME PagingAssumption ==
  /\ Kernel \notin Users
  /\ Width \in {n \in Nat : n > 0 /\ n % 2 = 0}
  /\ 1 .. 5 \subseteq Ram /\ Ram \subseteq Nat \ {0} /\ Device \in Nat \ (Ram \cup {0})
  /\ Counts \subseteq Nat \ {0}

VARIABLES
  free_list,       \* the list from free_list_head
  entry,           \* entry[t][i]: what entry i of the table in frame t maps, 0 when not present
  process_id_c,    \* the processes created so far
  live,            \* the processes that exist
  cr3,             \* kern_process_t.cr3
  heap_vptr,       \* kern_process_t.heap_vptr, a page number
  mem_regions,     \* kern_process_t.mem_regions: first page and page count, newest first
  attached,        \* the pages where a process has the shared region attached
  now,             \* whose cr3 the processor has loaded
  tlb,             \* a cached translation <<page, frame>>, or << >>
  mmio_virt_next,
  wc_virt_next,
  heap_end,
  exhausted,       \* a table or a page was mapped that pmm_alloc_page did not have
  space            \* history: what each process, and the kernel, was given

memVars == <<free_list, entry, exhausted>>
upperVars == <<mmio_virt_next, wc_virt_next, heap_end>>
procVars == <<process_id_c, live, cr3, heap_vptr, mem_regions, attached>>
pagingVars == <<memVars, upperVars, procVars, now, tlb, space>>

Half == Width ^ 4 \div 2
Lower == 0 .. Half - 1
Upper == Half .. 2 * Half - 1
MmioBase == Half
WcBase == Half + Half \div 4
ImagePage == Half + Half \div 2
KHeapStart == Half + 3 * (Half \div 4)
Slots == 0 .. Width - 1

\* The index of page v in the tables of a level, 4 being the top.
Index(v, level) == (v \div Width ^ (level - 1)) % Width

NoEntries == [i \in Slots |-> 0]
Nothing(pages) == [v \in pages |-> 0]

\* The boot loader's tables: the kernel's image, and what lies beside it, in the
\* upper half.  Frame 5 is the page of a shared region (KernShmem).
PagingInit ==
  /\ free_list = [n \in 1 .. Cardinality(Ram) - 5 |-> n + 5]
  /\ entry = [[t \in Ram |-> NoEntries] EXCEPT
               ![1] = [NoEntries EXCEPT ![Index(ImagePage, 4)] = 2],
               ![2] = [NoEntries EXCEPT ![Index(ImagePage, 3)] = 3],
               ![3] = [NoEntries EXCEPT ![Index(ImagePage, 2)] = 4],
               ![4] = [NoEntries EXCEPT ![Index(ImagePage, 1)] = Device]]
  /\ process_id_c = 0 /\ live = {} /\ cr3 = [p \in Users \cup {Kernel} |-> IF p = Kernel THEN 1 ELSE 0]
  /\ heap_vptr = [p \in Users |-> HeapVirt]
  /\ mem_regions = [p \in Users |-> << >>] /\ attached = [p \in Users |-> {}]
  /\ now = Kernel /\ tlb = << >>
  /\ mmio_virt_next = MmioBase /\ wc_virt_next = WcBase /\ heap_end = KHeapStart
  /\ exhausted = FALSE
  /\ space = [p \in Users |-> Nothing(Lower)]
              @@ Kernel :> [Nothing(Upper) EXCEPT ![ImagePage] = Device]

------------------------------------------------------------------------------
(* Frames and tables: m is the memory, a record of free_list, entry and exhausted *)

Mem == [free_list |-> free_list, entry |-> entry, exhausted |-> exhausted]
MemIs(m) == free_list' = m.free_list /\ entry' = m.entry /\ exhausted' = m.exhausted

\* pmm_alloc_page: the head of the list, cleared; frame 0 when there is none.
Head0(m) == IF m.free_list = << >> THEN 0 ELSE Head(m.free_list)
Taken(m) == IF m.free_list = << >> THEN m
            ELSE [m EXCEPT !.free_list = Tail(@), !.entry[Head(m.free_list)] = NoEntries]

\* pmm_free; frame 0 is ignored.  The code puts a frame first; here the list is
\* kept in the order of the numbers, for the frames are all alike.
Returned(m, f) ==
  IF f = 0 THEN m
  ELSE [m EXCEPT !.free_list = SelectSeq(@, LAMBDA g : g < f) \o <<f>> \o SelectSeq(@, LAMBDA g : g >= f)]
FreedAll(m, frames) == FoldLeft(Returned, m, frames)

\* The table entry i of table t leads to, built if it is not present.  Nothing
\* looks at what pmm_alloc_page returned.
Descend(m, t, i) ==
  IF m.entry[t][i] # 0 THEN m
  ELSE [Taken(m) EXCEPT !.entry[t][i] = Head0(m), !.exhausted = @ \/ m.free_list = << >>]

\* vmm_map_page_in_pml4.  Once a table is missing the memory is not followed further.
MapIn(m, top, frame, v) ==
  LET m3 == Descend(m, top, Index(v, 4))
      pdpt == m3.entry[top][Index(v, 4)]
      m2 == Descend(m3, pdpt, Index(v, 3))
      pd == m2.entry[pdpt][Index(v, 3)]
      m1 == Descend(m2, pd, Index(v, 2))
      pt == m1.entry[pd][Index(v, 2)]
  IN IF m3.exhausted THEN m3 ELSE IF m2.exhausted THEN m2 ELSE IF m1.exhausted THEN m1
     ELSE [m1 EXCEPT !.entry[pt][Index(v, 1)] = frame]

\* The entry of page v in the table of a level, 0 when a table above is not present.
EntryAt(m, top, v) ==
  LET at[level \in 1 .. 4] ==
        IF level = 4 THEN m.entry[top][Index(v, 4)]
        ELSE IF at[level + 1] = 0 THEN 0 ELSE m.entry[at[level + 1]][Index(v, level)]
  IN at

\* vmm_get_phys_in_pml4, and vmm_unmap_page_in_pml4, which keeps the tables.
PhysIn(m, top, v) == EntryAt(m, top, v)[1]
UnmapIn(m, top, v) ==
  LET pt == EntryAt(m, top, v)[2]
  IN IF pt = 0 THEN m ELSE [m EXCEPT !.entry[pt][Index(v, 1)] = 0]

\* vmm_free_pml4_user: the tables of the lower half, those below first.
Present(m, t, slots) == SelectSeq([n \in 1 .. Cardinality(slots) |-> m.entry[t][n - 1]],
                                  LAMBDA f : f # 0)
Tables(m, top, slots) ==
  FlattenSeq([x \in DOMAIN Present(m, top, slots) |->
    LET pdpt == Present(m, top, slots)[x]
    IN FlattenSeq([y \in DOMAIN Present(m, pdpt, Slots) |->
         Append(Present(m, Present(m, pdpt, Slots)[y], Slots), Present(m, pdpt, Slots)[y])])
       \o <<pdpt>>])
\* A faulty variant: the upper half is taken for the process's own as well.
TablesUnderAll(m, top) == Tables(m, top, Slots)
TablesUnder(m, top) == Tables(m, top, 0 .. Width \div 2 - 1)
FreeUser(m, top) == FreedAll(m, Append(TablesUnder(m, top), top))

\* The kernel's top entries copied over those of another address space.
CopyUpper(m, top) ==
  [m EXCEPT !.entry[top] = [i \in Slots |-> IF i < Width \div 2 THEN @[i] ELSE m.entry[cr3[Kernel]][i]]]
SyncSlot(m, top, i) == [m EXCEPT !.entry[top][i] = m.entry[cr3[Kernel]][i]]

\* invlpg, when the tables changed are the loaded ones, and reloading cr3.
Invlpg(p, pages) == IF p = now /\ tlb # << >> /\ tlb[1] \in pages THEN << >> ELSE tlb

------------------------------------------------------------------------------
(* Processes *)

\* process_create: nothing but a top level of its own.
ProcessCreate(p) ==
  /\ p \notin live /\ process_id_c < MaxPid
  /\ free_list # << >>
  /\ MemIs(CopyUpper(Taken(Mem), Head0(Mem)))
  /\ process_id_c' = process_id_c + 1
  /\ live' = live \cup {p} /\ cr3' = [cr3 EXCEPT ![p] = Head0(Mem)]
  /\ heap_vptr' = [heap_vptr EXCEPT ![p] = HeapVirt]
  /\ mem_regions' = [mem_regions EXCEPT ![p] = << >>] /\ attached' = [attached EXCEPT ![p] = {}]
  /\ space' = [space EXCEPT ![p] = Nothing(Lower)]
  /\ UNCHANGED <<upperVars, now, tlb>>

Pages(first, n) == first .. first + n - 1

\* pmalloc, by the process that runs.
Pmalloc(n) ==
  LET p == now
      v0 == heap_vptr[p]
      One(m, v) == IF m.exhausted THEN m
                   ELSE MapIn([Taken(m) EXCEPT !.exhausted = m.free_list = << >>], cr3[p], Head0(m), v)
      m1 == FoldLeft(One, Mem, [i \in 1 .. n |-> v0 + i - 1])
  IN /\ now # Kernel /\ v0 + n <= MaxPage
     /\ MemIs(m1)
     /\ heap_vptr' = [heap_vptr EXCEPT ![p] = @ + n]
     /\ mem_regions' = [mem_regions EXCEPT ![p] = <<[virt |-> v0, count |-> n]>> \o @]
     /\ tlb' = Invlpg(p, Pages(v0, n))
     /\ space' = IF exhausted' THEN space
                 ELSE [space EXCEPT ![p] = [v \in Lower |->
                         IF v \in Pages(v0, n) THEN PhysIn(m1, cr3[p], v) ELSE @[v]]]
     /\ UNCHANGED <<upperVars, process_id_c, live, cr3, attached, now>>

\* What pfree and process_exit do with the pages of a region.
RegionFreed(m, top, r) ==
  LET One(m1, v) == LET f == PhysIn(m1, top, v)
                    IN IF f = 0 THEN m1 ELSE UnmapIn(Returned(m1, f), top, v)
  IN FoldLeft(One, m, [i \in 1 .. r.count |-> r.virt + i - 1])

Pfree(k) ==
  LET p == now
      r == mem_regions[p][k]
  IN /\ now # Kernel /\ k \in DOMAIN mem_regions[p]
     /\ MemIs(RegionFreed(Mem, cr3[p], r))
     /\ mem_regions' = [mem_regions EXCEPT ![p] = RemoveAt(@, k)]
     /\ tlb' = Invlpg(p, Pages(r.virt, r.count))
     /\ space' = [space EXCEPT ![p] = [v \in Lower |-> IF v \in Pages(r.virt, r.count) THEN 0 ELSE @[v]]]
     /\ UNCHANGED <<upperVars, process_id_c, live, cr3, heap_vptr, attached, now>>

\* shmem_attach_proc and shmem_detach_proc: the page is mapped, never owned.
AttachPage(p) ==
  LET v == heap_vptr[p]
  IN /\ p = now /\ p # Kernel /\ attached[p] = {} /\ v < MaxPage
     /\ MemIs(MapIn(Mem, cr3[p], 5, v))
     /\ heap_vptr' = [heap_vptr EXCEPT ![p] = @ + 1]
     /\ attached' = [attached EXCEPT ![p] = {v}]
     /\ tlb' = Invlpg(p, {v})
     /\ space' = IF exhausted' THEN space ELSE [space EXCEPT ![p][v] = 5]
     /\ UNCHANGED <<upperVars, process_id_c, live, cr3, mem_regions, now>>

Detached(m, p) == FoldSet(LAMBDA v, m1 : UnmapIn(m1, cr3[p], v), m, attached[p])

DetachPage(p) ==
  /\ p = now /\ p # Kernel /\ attached[p] # {}
  /\ MemIs(Detached(Mem, p))
  /\ attached' = [attached EXCEPT ![p] = {}]
  /\ tlb' = Invlpg(p, attached[p])
  /\ space' = [space EXCEPT ![p] = [v \in Lower |-> IF v \in attached[p] THEN 0 ELSE @[v]]]
  /\ UNCHANGED <<upperVars, process_id_c, live, cr3, heap_vptr, mem_regions, now>>

\* process_exit, by the scheduler in another process: what was attached, the
\* regions, and then the tables.
ProcessExit(p) ==
  LET m1 == FoldLeft(LAMBDA m, r : RegionFreed(m, cr3[p], r), Detached(Mem, p), mem_regions[p])
  IN /\ p \in live /\ p # now
     /\ MemIs(FreeUser(m1, cr3[p]))
     /\ live' = live \ {p} /\ cr3' = [cr3 EXCEPT ![p] = 0]
     /\ heap_vptr' = [heap_vptr EXCEPT ![p] = HeapVirt]
     /\ mem_regions' = [mem_regions EXCEPT ![p] = << >>] /\ attached' = [attached EXCEPT ![p] = {}]
     /\ space' = [space EXCEPT ![p] = Nothing(Lower)]
     /\ UNCHANGED <<upperVars, process_id_c, now, tlb>>

\* task_switch_asm loads cr3, after sched_sync_kernel_pml4.
RunNext(p) ==
  /\ p \in live \cup {Kernel} /\ p # now
  /\ MemIs(IF p = Kernel THEN Mem ELSE CopyUpper(Mem, cr3[p]))
  /\ now' = p /\ tlb' = << >>
  /\ UNCHANGED <<upperVars, procVars, space>>

------------------------------------------------------------------------------
(* The kernel's half *)

\* vmm_map_page of an upper page: the kernel's tables, then the loaded ones.
MapUpper(m, frame, v) ==
  LET m1 == MapIn(m, cr3[Kernel], frame, v)
  IN IF now = Kernel \/ m1.exhausted THEN m1 ELSE SyncSlot(m1, cr3[now], Index(v, 4))

\* vmm_mmio_map_phys and vmm_wc_map_phys, at boot: from next on, unless they would
\* reach the heap.
MapPhys(next, n) ==
  LET m1 == FoldLeft(LAMBDA m, v : IF m.exhausted THEN m ELSE MapUpper(m, Device, v), Mem,
                     [i \in 1 .. n |-> next + i - 1])
  IN /\ live = {} /\ now = Kernel /\ next + n < KHeapStart
     /\ MemIs(m1)
     /\ tlb' = Invlpg(now, Pages(next, n))
     /\ space' = [space EXCEPT ![Kernel] =
                    [v \in Upper |-> IF v \in Pages(next, n) THEN Device ELSE @[v]]]

MmioMap(n) ==
  /\ mmio_virt_next + n <= MmioEnd
  /\ MapPhys(mmio_virt_next, n) /\ mmio_virt_next' = mmio_virt_next + n
  /\ UNCHANGED <<wc_virt_next, heap_end, procVars, now>>
WcMap(n) ==
  /\ MapPhys(wc_virt_next, n) /\ wc_virt_next' = wc_virt_next + n
  /\ UNCHANGED <<mmio_virt_next, heap_end, procVars, now>>

\* heap_expand: page by page until memory ends, which returns at once; else the
\* slot of the heap is copied into the loaded tables and they are reloaded.
HeapExpand(n) ==
  LET One(s, v) ==
        IF s.full \/ s.m.exhausted THEN s
        ELSE IF s.m.free_list = << >> THEN [s EXCEPT !.full = TRUE]
        ELSE [s EXCEPT !.m = MapIn(Taken(s.m), cr3[Kernel], Head0(s.m), v), !.end = v + 1]
      done == FoldLeft(One, [m |-> Mem, end |-> heap_end, full |-> FALSE],
                       [i \in 1 .. n |-> heap_end + i - 1])
      synced == IF done.full \/ done.m.exhausted \/ now = Kernel THEN done.m
                ELSE SyncSlot(done.m, cr3[now], Index(KHeapStart, 4))
  IN /\ heap_end + n <= HeapLast
     /\ MemIs(synced)
     /\ heap_end' = done.end
     /\ tlb' = IF done.full THEN tlb ELSE << >>
     /\ space' = IF done.m.exhausted THEN space
                 ELSE [space EXCEPT ![Kernel] = [v \in Upper |->
                         IF v \in heap_end .. done.end - 1 THEN PhysIn(done.m, cr3[Kernel], v) ELSE @[v]]]
     /\ UNCHANGED <<mmio_virt_next, wc_virt_next, procVars, now>>

\* The program or the kernel uses page v.  A page that is not present in the
\* loaded tables faults; kern_interrupt_handler copies the kernel's entry if its
\* own top level lacks it, and any other fault stops the machine.
Access(v) ==
  LET top == cr3[now]
      lazy == v \in Upper /\ now # Kernel /\ entry[top][Index(v, 4)] = 0
      m1 == IF lazy THEN SyncSlot(Mem, top, Index(v, 4)) ELSE Mem
  IN /\ space[IF v \in Upper THEN Kernel ELSE now][v] # 0
     /\ MemIs(m1)
     /\ tlb' = <<v, PhysIn(m1, top, v)>>
     /\ UNCHANGED <<upperVars, procVars, now, space>>

PagingNext ==
  /\ ~exhausted
  /\ \/ \E p \in Users : ProcessCreate(p) \/ AttachPage(p) \/ DetachPage(p) \/ ProcessExit(p)
     \/ \E p \in Users \cup {Kernel} : RunNext(p)
     \/ \E n \in Counts : Pmalloc(n) \/ MmioMap(n) \/ WcMap(n) \/ HeapExpand(n)
     \/ \E k \in 1 .. MaxPage : now # Kernel /\ Pfree(k)
     \/ \E v \in Touched : (v \in Lower => now # Kernel) /\ Access(v)

PagingSpec == PagingInit /\ [][PagingNext]_pagingVars

------------------------------------------------------------------------------
(* Properties, as long as memory lasts: the code maps frame 0 when it does  *)
(* not, and its tables are one for all.                                      *)

\* Every address space translates each page of its own to the frame it was given
\* and each page of the kernel to the kernel's, whatever was allocated, shared
\* or freed in others, and the TLB holds no translation that was withdrawn.
Translates ==
  /\ \A p \in live, v \in Lower : PhysIn(Mem, cr3[p], v) = space[p][v]
  /\ \A p \in live \cup {Kernel}, v \in Upper : PhysIn(Mem, cr3[p], v) = space[Kernel][v]
  /\ tlb # << >> => tlb[2] = space[IF tlb[1] \in Lower THEN now ELSE Kernel][tlb[1]]

TablesOf(p) == ToSet(TablesUnder(Mem, cr3[p])) \cup {cr3[p]}
FramesOf(p) == {space[p][v] : v \in Lower} \ {0, 5}
KernelTables == {1} \cup (UNION {{EntryAt(Mem, 1, v)[k] : k \in 2 .. 4} : v \in Upper} \ {0})
KernelFrames == {space[Kernel][v] : v \in Upper} \ {0, Device}

\* Every frame is on the free list once, or one table or page of one owner: no
\* two uses of a frame, and a process that is gone has left none behind.
FramesAccounted ==
  /\ IsInjective(free_list)
  /\ ToSet(free_list) \cup KernelTables \cup KernelFrames \cup {5}
       \cup UNION {TablesOf(p) \cup FramesOf(p) : p \in live} = Ram
  /\ Len(free_list) + Cardinality(KernelTables) + Cardinality(KernelFrames) + 1
       + MapThenSumSet(LAMBDA p : Cardinality(TablesOf(p)) + Cardinality(FramesOf(p)), live)
     = Cardinality(Ram)

SpacesKept == ~exhausted => Translates /\ FramesAccounted
=============================================================================
