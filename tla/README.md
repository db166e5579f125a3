# sandfleaOS: TLA+ specifications

sandfleaOS is a hobby kernel for x86-64 (Limine boot, one CPU, ring 0 only) that
runs WebAssembly programs on kernel threads. This directory holds TLA+ models of
its core, TLC configurations that check them on small instances, and TLAPS proofs
about the scheduler, the signals, the sessions, the keyboard, the objects of WASM
programs, the block cache and the window manager's screen. Paths below are relative to
`src/src/`. `PROJECT.json` maps every definition to the lines it models and lists the
hazards.

## 1. The system

| component | state | operations | hard about it |
|---|---|---|---|
| scheduler, processes (`kernel/kern_sched.c`, spawn in `kernel/wasm_spawn.c`, timer in `kernel/main.c`) | circular task list, head, current task, task states, process structures with pid and thread count, wakeup flag of the boot thread | `process_create`, `task_create`, `sched_thread_exit`, `sched_kill_process`, `sched_kill_children`, `sched_block_current`, `sched_unblock`, `sched_run_next` with its reaper, `process_exit` | preemption at every instruction outside `save_irq_and_disable`; raw pointers into a list that the reaper edits while it walks it; who frees a process; starvation of or by the boot thread |
| signals (`kernel/kern_ipc.c`) | pending mask per process, wait mask per task | send, wait, poll | check-then-block, wakeups |
| shared memory (`kernel/kern_ipc.c`) | registry of reference-counted regions, handle table per process | create, attach, detach, cleanup at process exit, byte and ring access | counts over death and table growth, page ownership |
| memory (`kernel/kern_vmm.c`) | free list of pages, page tables and the kernel half every process copies, heap block list | `pmm_alloc_page`, `pmm_free`, mapping and unmapping, `pmalloc`, `pfree`, `kmalloc`, `kfree`, `kern_realloc`, page faults | splits and joins, running out half way, frames used again as tables, stale translations |
| keyboard (`kernel/kern_keyboard.c`) | prefix flag, pressed flags, shift state, key ring, foreground queue | interrupt handler, `keyboard_eat_key`, flushes, edge flags | interrupt against consumer, shared scancodes, full ring, one foreground queue for all sessions |
| mouse (`kernel/kern_mouse.c`) | packet under way, button state, event ring | interrupt handler, `mouse_eat_event` | lost bytes, signs, full ring |
| USB (`kernel/xhci/`) | command, event and transfer rings, slots, phases of an enumeration, previous report | bring-up, enumeration, waits with timeouts, hotplug, report decoding | late answers, buffers used while the controller writes them |
| main loop (`kernel/main.c`) | wakeup flag, line editor, active session | clear flag, drain keys, route them, `hlt` | a key that arrives while the loop is about to halt; Ctrl+C against the reaper |
| block cache (`kernel/kern_ext2.c`) | hash table with LRU stamps | lookup, insert with eviction, update, resize | nothing is locked; probing with holes |
| ext2, file descriptors, paths (`kernel/kern_ext2.c`, `kernel/kern_fs.c`) | superblock, bitmaps, inodes, directory blocks, open-file table with inode copies, active drive, working directories | create, symlink, open, close, seek, read, write, `cd`, path walk, listings; nothing is ever unlinked, and no directory is made | updates of several blocks with no journal, unlocked bitmaps, stale inode copies, links that rebuild the path and switch the drive |
| terminal (`kernel/kern_terminal.c`) | sessions, active session, foreground process, framebuffer owner; cell grid, cursor, escape parser | switch, write, scroll, render, capture | a foreground pointer that outlives its process; a scroll that writes while it scrolls |
| compositor (`kernel/kern_compositor.c`) | window table, event ring, queue per window, spawn queue | claim, create, destroy, present, poll, route input, cleanup | two producers of one ring, presents against session switches |
| window manager, terminal programs (`wasm/wm/wm.c`, `wasm/term/term.c`) | window list, focus, key rings in shared pages, cursor under- and overlay | spawn, focus, close, tile, forward keys, composite | coalescing signals, spawns that fail half way |
| WASM runtime glue (`kernel/wasm_spawn.c`) | parse cache, spawn arguments, WASI descriptors, capture buffer | spawn, thread entry, WASI calls, cleanup hook | every step may fail; the thread may be killed between any two; cleanup from the reaper |
| WAT assembler (`kernel/wat2wasm_native.c`) | token position, indices, sections | one pass over a text | indices that shift with imports, parenthesised and plain forms |
| IDE, PCI, shell, Quake, screen, serial, profiling, string helpers | - | - | mostly data movement |

How they interact: interrupt handlers (timer, keyboard, mouse) run on top of the
current task. The timer calls `sched_run_next`; keyboard and mouse call
`sched_idle_wake`. `sched_run_next` calls `process_exit`, which runs the cleanup
of IPC, the compositor and the WASM runtime and clears foreground pointers.
`ipc_signal_send` calls `sched_unblock` and `ipc_signal_wait` calls
`sched_block_current`. The main loop, the wait loop of `wasm_spawn` and the
compositor thread take keys from one ring. A window manager starts terminals
through the kernel's spawn queue and sends them keys through a shared page and a
signal. Everything allocates with `kmalloc`.

What makes each part correct: the task list stays one closed ring and a process
lives as long as its threads; only runnable tasks run, each of them does, and the
boot thread does when input waits; a signal reaches its waiter; a region lives as
long as its handles and nobody else uses its pages; heap blocks never overlap and
stay with their owner; whatever fails or is killed while a program is loaded,
nothing is freed twice or used after; keys come out once, in order, and modifiers
do not stick; the pointer follows the mouse; a USB keyboard is used only after it
was really set up; a foreground pointer never dangles and a program in the
foreground gets its keys and nobody else's; the cursor stays in its grid and no
line is lost; a read returns what was typed and a captured command its own output;
the cache agrees with the disk; a block has one owner on the disk at every moment,
entries name inodes that were written, and what a returned write stored is there
after a crash; a walk ends where its path leads; the compositor knows the windows
there are, and a handle never leads to a window it was not given for; keys typed in
a window reach its terminal; the screen shows the last frame, and a terminal's canvas its text; an address
space translates its pages to the frames it was given, and each frame has one use.

## 2. Modules

| module | models | main abstraction |
|---|---|---|
| `SchedPolicy` | abstract: who may get the CPU | no list, only the set of runnable tasks |
| `KernSched` | `kern_sched.c`, the spawn path of `wasm_spawn.c`, the timer | structures are named by allocation order, so freed ones are never confused with new ones; stacks and registers are a label per task |
| `KernSchedProofs` | proofs about `KernSched` and that it implements `SchedPolicy` | |
| `KernSignals` | signals of `kern_ipc.c`, composed with `KernSched` | masks are sets |
| `KernInput` | key ring, main loop, compositor as second consumer, on top of `SchedPolicy` | the n-th key queued is n |
| `KernKeyboard` | scancode decoding | eight keys; the ring is a bounded sequence |
| `KernWakeupsProofs` | proofs about `KernSignals` and `KernInput` | |
| `KernDevicesProofs` | proofs about `KernKeyboard`, `KernXhci` and `KernMouse` | |
| `KernMouse` | packets, event ring and consumer of the mouse; a byte may be lost | a byte is its number and its bits |
| `KernXhci` | rings, enumeration, waits, report buffers per slot and report decoding of the USB driver, with the controller and the devices as external actions | a TRB is what it asks for; registers are left out; a report is the set of keys that are down |
| `KernShmem` | shared memory and page pool | ids wrap at `IdSpace` instead of 2^32 |
| `KernHeap` | kernel heap | lengths in units of 16 bytes |
| `KernPaging` | free list, page tables, address spaces, device mappings, page faults and the TLB | tables of `Width` entries; no permission bits; each step keeps what a process was given (`space`) beside the tables |
| `KernWasm` | `wasm_thread_entry`, the parse cache, cloning and the cleanup hook | an object is a kind and a spawn; a module's contents are its names |
| `KernMemoryProofs` | proofs about `KernWasm`, `KernHeap` and `KernShmem` | |
| `KernWasi` | console reads, captured shell commands, file descriptors of programs | a key is a character or one of three controls |
| `BlockCache` | block cache and block operations above it | any hash function; contents are model values |
| `KernStorageProofs` | proofs about `BlockCache` | |
| `KernFs` | `kern_fs.c` and the inodes, bitmaps, block maps and directory of `kern_ext2.c`, files and symbolic links | words instead of bytes, names as model values, room for `DirRoom` entries; the disk without the cache |
| `KernPaths` | working directories, `fs_resolve_path`, `ext2_find_path` over drives and links, where new files and links are put | a path is a drive, a flag and a sequence of segments; the trees do not change |
| `KernExplore` | `ext2_explorer_next`, `lsr`, `ls` | an entry is an inode number and a type; trees do not change |
| `KernSessions` | sessions, foreground pointers and queue, Ctrl+C, `screen_push_line` as a borrower of `active_session` | what the globals of a session hold is the session's name |
| `KernSessionsProofs` | proofs about `KernSessions` and `KernTerminal` | |
| `KernTerminal` | grid, cursor, escape sequences, scrolling, capture | a cell is who wrote it |
| `KernCompositor` | windows, handles, event ring and window queues of `kern_compositor.c` | an event is the window it tells of, or "other"; no pixels, titles or buffers |
| `KernWm` | `wm.c` and `term.c` with the spawn queue, shared rings and signals between them | a step ends at the next call others can see (`todo`) |
| `KernWmProofs` | proofs about `KernWm` | |
| `TermCanvas` | grid, marked rows and canvas of `term.c` | a cell is a character, inverted under the cursor; a key is one action |
| `WmScreen` | frame and cursor of `wm.c`, presents, session switches | a frame is even or odd; the cursor is a square |
| `WindowsProofs` | proofs about `KernCompositor` and `WmScreen` | |
| `WatAssembler` | `wat2wasm_native.c` | tokens in, instructions and indices out; a text carries its meaning |
| `MC...` | instances for TLC | |

Five MC modules (`MCWakeups`, `MCDevices`, `MCMemory`, `MCStorage`, `MCConsole`) and
`MCWindows` hold several specifications side by side: the variable `part` picks one
in the initial state, and a behaviour is one of that specification with the others
at rest. They are questions about one theme asked in one run and share no state;
where components really meet they are composed in one module (`KernSignals` with
`KernSched`, `KernInput` with `SchedPolicy`, `KernSessions` over spawning, keys and
output, `KernWm` over kernel, window manager and terminals).

**Atomicity.** A section between `save_irq_and_disable` and `restore_irq` is one
step; outside such sections a step ends wherever shared state is read or written
and the timer could intervene. So `++process_id_c` is two steps (`ProcessCreate`,
`ProcessInit`), `keyboard_eat_key` is two (`EatRead`, `EatStore`),
`ipc_signal_wait` is one per turn plus the block, `wasm_ipc_shm_create` two,
`kern_realloc` three, a block read or write two, an unmasked
`compositor_push_event` three with the check of its caller (`PushCheck`, `PushRead`,
`PushStore`), `wm.routeInput` two, Ctrl+C three (`CtrlCRead`, `CtrlCKill`,
`CtrlCClear`), `screen_push_line` two (`LineBegin`, `LineEnd`), a walk one step per
component, a captured command one per byte printed, a listing one
per turn of the explorer's loop, a present two (`PresentCheck`,
`PresentCopy`), a key forwarded to a terminal three calls (`KeyCalls`).
`sched_run_next` is one action per iteration of its loop; nothing else is enabled
meanwhile (`walking`), because interrupts are masked. In `BlockCache` each `bc_*`
helper is one step although they run unmasked: interference inside a helper is not
modelled. In `KernFs` a step ends with each write to the disk, since the machine
may stop there; the bitmap scan and the write of the bitmap are two steps.
`op[t].at` says where a process is (`iscan`, `imark`, ... in `fs_create`; `loop`,
`map`, `clear`, `back`, `data`, `winode` in `fs_write`), and `tabs` holds the tables
`ext2_set_bmap` has in its buffers. In `KernWasm` every allocation, release and
assignment that the cleanup hook can see is a step of its own: the thread can be
killed between any two. In `KernXhci` the decoder reads its buffer in three steps,
because the controller may write it meanwhile.

**Composition.** `KernSignals` replaces the free `BlockCurrent` and `Unblock` of
`KernSched` by their only real callers, and the run `wakeups` checks
`ImplementsSched`: every behaviour is one of `KernSched`, so what is proved there
holds with signals. `KernSched` implements `SchedPolicy` (`KeepsPolicy`), on which
`KernInput` builds.

Definitions introduced as "a faulty variant" are not part of any specification;
they are plausible mistakes in the definition that follows, kept to show that the
properties notice them.

## 3. Runs

| run | instance | what it shows |
|---|---|---|
| `sched` | boot thread, 2 tasks, 2 processes; 327k states | list and counts intact (`ListIntact`, `ThreadsCounted`), killed tasks stay dead, the policy is kept; under fairness no runnable thread starves, dead threads are reaped, the boot thread runs after a wakeup (`EveryoneServed`) |
| `wakeups` | boot thread, 2 tasks, 1 process, 1 signal; main loop and compositor over a ring of 3 with 4 keys; texts of up to seven fields and nested blocks; 126k states | every blocked task is wakeable, the scheduler with signals is still `KernSched`; with one consumer keys come out once and in order, and once only the boot thread is runnable the ring drains; plain texts compile into what they mean and every text without a stray `end` or `else` comes to an end |
| `devices` | 8 keys, room for 1 code; 2 buttons, 3 packets of the mouse whose bytes may be lost, ring of 4; 2 USB ports with a keyboard each, 3 slots, event ring of 18, 1 wait that times out; 2 drives with links, shell and one task; 2.3M states | no stuck modifier, no spurious Ctrl+C, pointer and buttons follow the mouse and its buttons do so again after lost bytes (`MouseRealigns`), the USB driver goes on only with a slot that is its own, and the keys it holds are those of the keyboard it decoded last; canonical paths and walks that end where the path leads, for what is found and for what is made (`PathsLead`) |
| `memory` | 4 pages of 6 units, sizes 1, 3, 8; 2 processes, 3 pages, 3 regions; 3 spawns of 2 files, 2 at a time, one fault; 2 address spaces over 14 frames, tables of 2; 1.1M states | tiling, ownership and coalescing of the heap; exact counts and handles of regions; every page translates to the frame its owner was given and no frame is lost or used twice; no double free, no use after free, no leak and one parse per file while programs are loaded |
| `storage` | 3 blocks in 2 or 3 places, all hash functions; 1 process, 2 names of which one may be a link, 2 inodes, 7 blocks of 2 words, one stop; 1.2M states | the cache agrees with the disk; one owner per block, valid entries, contents and links read back and durable |
| `console` | 2 sessions, 3 processes of which one is a compositor; a grid of 2 by 2; 3 programs, 3 keys, 3 characters of output, 2 descriptors; listings of 85 trees by 2 tasks, 3 frames deep; a canvas of 3 by 3 in two sizes; 1.6M states | sessions keep their foreground and keys, cursor and capture stay in their buffers, no line of the kernel is lost, reads and captures are their program's own; a listing shows each entry once, in preorder; the terminal's canvas shows its grid |
| `windows` | 2 processes and the boot thread, 2 slots, 3 windows, event ring and queues of 3; 2 terminals, rings of 3, 3 keys, 2 window managers; a screen of 4 by 2; 1.3M states | the compositor knows the windows unless an event was lost, old handles lead nowhere, routed events wait once and in order; keys arrive, focus and rings agree; the screen shows the last frame with one cursor |
| `sched_spawn_pid` | violation | `wasm_spawn` returns `proc->pid` from a structure that may be freed |
| `signals_lost` | violation | a signal between check and block leaves the waiter asleep for ever |
| `shmem_pages` | violation | a two-page region maps and frees a page it does not own |
| `terminal_grid` | violation | a scroll caused by a program's output writes the row that leaves below the last row of the cell buffer |
| `wm_dirty` | violation | what a terminal draws is not shown until something else asks for a frame |

**Bounds.** Three tasks are the least with which the reaper can remove a task
between two others and a task is inserted behind the head meanwhile; two
processes let one be created, killed or signalled by the other. The ring of 3
slots, which holds two keys, fills and wraps with 4 keys. Room for one queued code makes every key
meet a full and an empty ring. Movements of the mouse include one whose
bytes can be taken for the first of a packet, in which a movement did or did not
overflow, one whose bytes cannot, one that needs the ninth bit and one that does not
fit a packet. Eighteen event TRBs let two keyboards be enumerated before the driver
takes the last entry of the ring, which starts with the full bit, for an event; three slots are one more than the ports,
so an answer can name a slot that was given up. `FewReports` goes no further
than three transfers for the reports of one keyboard and four of both; after a wait that
timed out one of both, or two when the first slot went to no keyboard that is polled. Three regions over a table that
starts with one slot and doubles once exercise growth and refusal, and wrap the id
counter. The heap sizes are below, at and above what fits a page, so that splits at
the boundary, whole-block takes, expansions of one and of two pages and failed
expansions all occur. Three spawns are the least with which one can clone what the
first parsed while the cache has changed meanwhile; one fault (a failed allocation
or a kill) may fall on any step. Two slots for three blocks force collisions and
evictions, three let a run be read of which one block is cached; `hash` ranges over
all functions, so nothing depends on XXH64. With two words per block and one direct
pointer the fourth block of a file needs double indirect tables, and seven blocks
are what such a file takes, so that a second file or a leak by a stop makes every
allocation of the other fail somewhere; the triple indirect case runs through the
same actions. All blocks start with old contents that look like pointers. The two
drives have a directory, a link upwards, a link to itself, a link to the other
drive, and one inode number that means different things on each. Two sessions and a
program, its child and a compositor let every foreground pointer be taken over,
dropped and switched away. Tables of two entries
make every lower page of a process share its top table, and one top entry hold the
kernel's half, as in the code, where image, devices and heap lie under the last
entry; fourteen frames run out with two processes, so frames return as tables of the
other; `EachSpaceKept` says `SpacesKept` where it can change. Of the trees that are
listed, some have holes, removed and damaged entries, links back and more levels
than the explorer's stack has frames. A grid of 2 by 2 scrolls after three characters; 65535
is where parameters overflow.

`MaxTask`, `MaxProc`, `MaxKeys`, `MaxRegion`, `MaxCap`, `MaxPages`, `MaxFile`,
`MaxMade`, `MaxStops`, `MaxFaults`, `MaxOpen`, `MaxSaid`, `MaxTerms`, `MaxTyped`,
`WmLives`, `MaxLate`, `CmdRoom`, `XferRoom`, `MaxReports`, `MaxPid`, `MaxPage`, `MmioEnd`, `HeapLast` bound what a behaviour
allocates or does; for the invariants that are proved (section 4) the proofs remove
the bound. The
constraints `InOrder`, `SpacesInOrder` and `ListersInOrder` leave out behaviours that differ from others by
names only, and in `console` go on no further with a second process once a line was
crossed by a switch. `windows` stops where an event was lost (`NothingLost`),
alternates the data routed to one window and the keys typed for one ring
(`Alternating`), gives two terminals one key and one terminal three (`Small`), and
identifies states that differ only in entries of rings nobody reads again or in
where a queue begins (`View`). In `storage` the directory never fills, and the
direct-slot branch of an indirect write is reached only through `GetBmap`.

**Deadlock** is checked in `sched` and in the violation runs of the scheduler,
signals and shared memory. The other runs say `CHECK_DEADLOCK FALSE`: there all
processes may exit, the window manager may end for good, an assembler that is done
stops, and a mouse that has made its packets stops.

**Fairness.** `KernSched`: weak fairness of the timer and of the search loop; the
timer interrupt is periodic hardware and the loop runs with interrupts masked.
Nothing is assumed of what tasks do with the CPU. `wakeups`: the same, and per task
strong fairness of the steps inside `ipc_signal_wait`: a task that is scheduled
again and again executes instructions; for the key ring strong fairness of
switching (justified by `EveryoneServed` of `sched`) and of the boot thread's loop;
weak fairness of the assembler, a loop without waits. `FairWmSpec`: weak fairness of
the steps of the window manager and of each terminal, which are threads of the
scheduler.

**What is not claimed.** The files part of `storage` has one process: with two, both
can read a bitmap before either writes it and get the same inode or block.
`ContentsKept` excepts files that were open twice (each handle writes back its own
copy of the inode) and files whose write found no block for a table (`fs_write`
then goes on and the data is lost). A failed `fs_create` and a stop leave blocks
marked that nobody holds; nothing says they should not. `SpacesKept` ends
where memory does: `vmm_map_page_in_pml4` does not look at what `pmm_alloc_page`
returned and goes on in frame 0, and no comment promises better. `WalkFinds` and
`ListsAll` except walks and listings during which another task switched the drive, and links where the code does not do
what a link means (below). The cache part has one task and enough memory: with two,
a reader preempted between the disk read and the insert puts old contents over a
writer's; and an eviction whose allocation fails leaves a hole before a block, which is
then put in a second time, and only one of its entries is updated. `CacheCoherent` is
false then (with `OOM = TRUE` after reads of two blocks, a read of a run and a write). With two tasks inside `process_create`, `++process_id_c` can give one
pid to two live processes; `KernSched` contains this and all its properties hold in
spite of it. `wasm_quake_game` calls `process_exit` on its own process before its
thread is reaped; `KernSched` leaves that call out, and `ThreadsCounted` would be
false with it. A task that is marked DEAD while it runs and then blocks becomes
BLOCKED: `KilledStaysDead` therefore speaks of tasks killed by another one, and the
reaping in `EveryoneServed` ends with a change of state. With threads that compute,
keys may wait after `sched_idle_clear`: `DrainedWhenIdle` asks that the others come
to rest. In `windows` a push with interrupts enabled may be cut in two by another
push, which drops an event or replays old ones; `WindowsKnown` excepts what follows
(`lost`) and the windows that were there before the compositor came, of which it is
never told. `InputInOrder` is about what is stored in a queue: a compositor
preempted in `wm.routeInput` after the lookup stores the event of a destroyed window
into the queue of the window that took its slot, and the model does so too.
`KeysArrive` excepts rings that were filled to the last cell (`lapped`), and
`ScreenShowsFrame` what follows a dropped event. `SessionsKept` excepts for its
second and third part what follows when a switch or a kill falls inside
`screen_push_line` (`crossed`): `active_session` then stays with the wrong session.
`FreedOnce` excepts a kill between a release and the assignment that forgets it, and
the environment of a runtime that could not be made. `UsbKeysFollow` excepts a
key that changed in a report while it was decoded (`torn`), which may stay down or up
until it changes in another one, and says of two keyboards that the keys held are
those of the one decoded last: the reports of both are compared with one previous
report, so what the other holds down is released. `PointerFollows` ends with the
first lost byte, after which the place stays wrong for good. `MouseRealigns` asks for
nothing while the movements of every packet have bit 3, and the handler may then take
any number of packets apart in the wrong place. Of the descriptors of `KernWasi`
nothing is claimed: only their own process touches them.

**Where code, comments and expectation differ, beyond the violation runs.** Met while
modelling; the models do what the code does.

* `wasm_spawn.c`: when the runtime cannot be made, the environment is freed there
  and again at `Label_Done` through the local that still names it; a Ctrl+D does not
  end a WASI read as it ends an `env` read; descriptor 3 is reported as a
  directory although `fs_open` gives it to files; the wait loop forwards F-keys to
  the child.
* `kern_fs.c`: `fs_create` makes the file before it finds that the descriptor table
  is full. `path_open` (`wasm_spawn.c` 1218-1220) takes any failure of `fs_open` for a
  missing file, so with a full table and CREAT it makes a second entry of a name that
  exists, and fails; `path_filestat_get` then answers that the file does not exist.
* `kern_ext2.c`: a relative link below the top is resolved from a prefix that has
  lost the drive.
* `kern_keyboard.c`, `main.c`: releasing one of two held Ctrl keys clears the
  modifier (comment at 224); Escape pushes 0 to a program.
* `kern_mouse.c`: the ninth bit of a movement is not used; more than three buttons
  share bits with the signs.
* `xhci/`: the cycle state of the rings never toggles, so the command ring is full
  after 254 commands and a transfer ring after 31 TRBs; the last entry of the event
  ring is initialised as a link; one previous report serves all slots; answers to
  commands that timed out are taken by the next wait.
* `kern_compositor.h` 39-43 numbers key and mouse events differently from `wm.c`;
  windows of a terminal that died stay in the list of `wm.c`, and the rings of
  closed windows are never detached; a repaint event is dropped when the queue is
  full.
* `kern_terminal.c`: one escape parser serves all sessions, so a sequence begun in
  one may end in another.
* `wm.c` 226: a ring of 256 keys that fills up looks empty.
* `wat2wasm_native.c`: after a construct it does not know it takes the rest of the
  field, and at 928 whole fields, for nothing; the sample at line 7 does not
  compile; a stray `else` or `end` makes it loop.

## 4. Proofs

`KernSchedProofs` proves, for every `MaxTask` and `MaxProc` in `Nat` (the only
assumption, `BoundsAssumption`) and without fairness:

* `TypeCorrect`: `Spec => []TypeOK`
* `ListStaysIntact`: `Spec => []ListIntact` (the list is closed and is one ring)
* `ThreadsStayCounted`: `Spec => []ThreadsCounted` (a process outlives its threads
  and its count is exact)
* `SwitchesToRunnable`: `Spec => SwitchToRunnable`
* `KilledIsDead`: `Spec => KilledStaysDead`

All follow from one inductive invariant `IInv`. `ListClosed` and `OneRing` alone
are not inductive: when `WalkReap` unlinks `nxt`, a second task with the same
successor would be left pointing to freed memory, so `NextInjective` is added.
`OneRing` says that no proper part of the list is closed under `next`; from a
closed set after an insertion or removal a closed set before it is constructed
(`ListInsert`, `ListRemove`). `ThreadCountExact` and `ProcessOutlivesThreads` need
to know that a process between `process_create` and its first thread belongs to
exactly one task and has no thread (`HeldIsFresh`), that nothing above the
allocation counters is in use (`Unallocated`), and that tasks outside the spawn
path hold no process (`HoldsOnlySpawning`). The step lemmas take one action at a
time: `ProcCreate`, `ProcDrop`, `ProcThread`, `ProcReap`, and `ProcFrame` for the
actions that touch neither threads nor processes.

Its second part adds what a search of `sched_run_next` that finds nobody needs, for
the same constants (`PInv`):

* `ImplementsPolicy`: `Spec => KeepsPolicy`, the refinement of `SchedPolicy`
* `BlockedTasksYield`: `Spec => []BlockedYields`

What a search has met is a set of tasks closed under `next` up to `prev`, in which
nobody is runnable but the boot thread, which `idle_task` remembers (`Searched`). Back
at its start the set is closed, so it is the whole list by `OneRing` (`WholeRing`), and
the boot thread, which nobody can block or kill (`BootRuns`: it belongs to the kernel
process, whose pid 0 no caller names), is there to fall back to. So a blocked task
never goes on from a search, and the boot thread runs only when input waits or it is
alone.

`KernWakeupsProofs` proves for every `MaxTask`, `MaxProc` and `Signals`:

* `SignalsImplementSched`: `SigSpec => ImplementsSched`; with it the theorems above hold
  with the real callers of `sched_block_current` and `sched_unblock`. A send that wakes
  is one `Unblock` because a process other than the kernel has one thread (`OneThread`).
* `BlockedWakeable`: `SigSpec => []BlockedIsWakeable`, from `SigInv`, what
  `ipc_signal_wait` keeps of a task wherever it was preempted. That the task comes out
  of `sched_block_current` unblocked is `BlockedYields`.

and for every size of the keyboard's ring from 2 on and every `MaxKeys`
(`InputAssumption`):

* `KeysInOrder`: `InputSpec => []KeysOnceInOrder`. The invariant (`InputInv`) describes
  the ring: the keys between the read and the write pointer, modulo the size, are the
  last ones accepted, and those before them were taken out (`RingHolds`). Between the two
  steps of `keyboard_eat_key` the main loop has the first of them in hand, and an
  interrupt only adds keys behind it (`InHand`).
* `HaltedIsCalledBack`: `InputSpec => []NoKeyForgotten`, which no run checks: unless
  there is a second consumer, a main loop that halts while a key is in the ring has the
  wakeup flag set. The flag is cleared before the ring is looked at, never after.

`KernSessionsProofs` proves for every set of sessions and processes and every `Room`
(assumption: `None` is neither, and there is a session, `SessionAssumption`), and for
every size of grid and capture buffer, parameters and lines (`TermAssumption`):

* `SessionsStayKept`: `SessionSpec => []SessionsKept`
* `KeysForForeground`: `SessionSpec => KeysReachForeground`
* `WritesStayInBuffers`: `TermSpec => []WritesInBuffers`

`SessionsKept` is not inductive: `foreground_proc` and the pointer of the session shown
are written one after the other, and a switch between the two writes would save the
wrong one. `SpawnAlone` says that no other thread can switch then (the compositor is
not in the session shown) and that nobody else runs in its foreground; `PointersAgree`
says that the two pointers are equal or the second is cleared; `QueuesBelong`, that
the queue behind a pointer holds keys for that process only. `Shown` stays the session
that `OneLine` lets its only writer put back (`ShownStays`).

`TermInv` says that the terminal, both of its screens and both of its cursors are in the
grid. It holds also of the step in which program output scrolls, which `WritesInBuffers`
excepts: `spilled` reports what that step writes under the last row (run
`terminal_grid`), and the model stops there. `TermInv` is kept byte by byte
(`ByteInGrid`), in whatever state the parser is, and so over a line of any length
(`AfterCharsInGrid`, by the least prefix that would leave the grid).

`KernDevicesProofs` proves for every subset of the modelled keys and every `Room`
(`KeyboardAssumption`), for every number of ports, slots, time-outs and length of
the USB rings (`XhciAssumption`), and for every length of the mouse's ring and any
movements by integers (`MouseAssumption`):

* `ModifiersFollow`: `KbdSpec => []NoStuckModifier`
* `CtrlCMeansCtrlC`: `KbdSpec => InterruptIsCtrlC`
* `NoStrangerPolled`: `XhciSpec => []AnswersAreOwn`
* `UsbKeysFollowed`: `XhciSpec => []UsbKeysFollow`
* `PointerFollowed`: `MouseSpec => []PointerFollows`

`NoStuckModifier` speaks of an empty wire only; `KbdInv` adds what holds while the bytes
of one key are under way, also after the prefix alone (`Underway`), and that the flags
of a key that goes up may be set until its last byte. Nothing is said of `^C` beyond the
layout: two Ctrl keys share a code, and both are keys that mean Ctrl. A wait of the USB
driver takes any completion, so `AnswersAreOwn` rests on counting: of every slot at most
one good answer exists, as a command the controller may still carry out, in the event
ring, or taken from it (`OneAnswer` in `XhciInv`). The driver posts a command about a slot
only when it has taken that one, so the good answer it then gets is the one it waits
for (`DriverKnows`). The proof does not need the controller's care for unread events:
an entry written over is only an answer lost.

`UsbKeysFollow` does need that care. `CyclesInv` says where the unread entries of the event
ring are: the cycle bits tell them from the others, but for the last entry, which
`ring_init_full` makes with the bit of an event. A driver that has read all others takes
it for one and is then ahead of the controller for good (`Past`); until then no report is
written over (`EmitFollows`), and a driver that finds no event has read them all
(`NoneUnread`). `KbdsInv` says that only a slot known for a keyboard reports (`Stage`
says how far its enumeration is), and that such a slot is never given to another device,
again because its one good answer has been taken (`Silent`); so a report of it always
sets its `ready`. `DecodeInv` follows the three passes of `kbd_hid_process_report` over
the buffer of the slot: which keys the decoder holds after each, with those in `torn`
left open, since the next report may be stored there meanwhile. Between two reports the
buffer of the slot decoded last differs from the previous report only by `torn`, or it
is still to be decoded: ready, or its event waits in the ring (`Latest`, `Undecoded`).

`PointerFollows` speaks of an empty ring and no packet under way. `MouseInv` says at every
step, until a byte or an event is lost or a movement does not fit, that the events that wait take
the consumer one by one to the buttons and the place of the mouse before the packet under
way (`Leads`), and which bytes of that packet are read (`PacketInv`). A handled packet
adds to the end what takes it from there to where the mouse is now; a read event is
taken from the front. What holds after lost bytes, `MouseRealigns`, is only checked.

`KernMemoryProofs` proves for any set of spawns, with or without `serial`, and any
`MaxOpen` and `MaxFaults` (assumption: `Null` is neither a spawn nor a kind, `NullAssumption`):

* `WasmObjectsKept`: `WasmSpec => []ObjectsKept`
* `WasmParsedOnce`: `WasmSpec => []ParsedOnce`

`ObjectsKept` says of each object that it is freed once and not used after, and that
nothing stays behind; the invariant `WasmInv` says who owns it. Each field of `ra`, the
module a thread has made, its strings and the cache entry has one owner wherever the
thread can be killed (`Own`): `ra` as long as it names the object,
the locals in the two places where they still name what `ra` has given up, the runtime
after `m3_LoadModule`, the cache from the insertion on. The places where an object is
released and still named are those where a kill may free it again; there the thread is
in `cut`, which the property excepts. A cache entry that anybody has a pointer to is
whole (`Shared`): nothing ever leaves the cache. `WasmParsedOnce` needs that a thread
between its look at the cache and its insertion is alone (`InTurn`).

For every size of the header and of a page larger than it, any pool of pages and any
sizes asked for (`HeapAssumption`):

* `HeapKept`: `HeapSpec => []HeapIntact`
* `FreeNeighboursJoined`: `HeapSpec => KfreeCoalesces`

`HeapInv` says the same of the list as a value: the blocks tile the addresses up to
the end of the heap (`Tiling`), and the blocks in use are those somebody holds
(`Holds`). Blocks of a tiling come in the order of their addresses (`TilesRise`), so
`kfree` and `kern_realloc` find the one block of a holder by its address. A split, a
block behind the last one and a block given back keep the tiling (`TakeTiles`,
`TilesAppend`, `FreedTiles`); the pages `heap_expand` asks for, rounded up, hold the
block with its header (`WantedHolds`). What `kfree` has joined up to a block is a
recursive function: it exists (`CoalescedIs`), and every prefix is a tiling with no two
free neighbours (`CoalescedTiles`), both by the least block for which it would not be so.

For any finite set of processes, any handle tables and any number of pages
(`ShmemAssumption`), as long as no shm id is given twice (`MaxRegion <= IdSpace`):

* `CountsKept`: `ShmSpec => [](RefCountExact /\ HandlesLive)`
* `RegionsKept`: `ShmSpec => []RegionsCounted` if all regions have one page

The second hypothesis is where the run `shmem_pages` finds a violation: `shmem_create_region`
takes one page from the pool whatever the page count. The first is a bound on the
regions ever created, 2^32 - 1 in the code. Ids no larger than the regions made so far are
then unique (`ShmInv`), so a handle leads to the one region with its id, and the handles
on a region are a finite set whose size is its count (`RefInv`): an attach adds one
(`TableMore`), a detach takes one away (`TableLess`), and a region is removed when the
set is empty. `ipc_process_cleanup` is a detach after the other, over tables of which
the first entries are cleared (`Wiped`).

`KernStorageProofs` proves for every set of blocks, contents and capacities and every
hash function:

* `OneTaskCoherent`: with one task and `OOM = FALSE`, `CacheSpec => []CacheCoherent`

Both hypotheses are needed; see "What is not claimed". `CacheInv` is the disk, the
buffer of the task and a sound table: every entry is in the eviction queue (`Queued`),
no block has two (`Unique`), and no empty slot lies between the place where the probes
for a block begin and its entry (`Reached`), without which `bc_insert` would stop
short of it. The lemmas are about a single table: `(hash + i) mod capacity` comes to
every slot (`Probed`, `ProbePlaces`), so `bc_lookup` finds what is there
(`LookupFinds`); `bc_insert` and `bc_update` keep a table sound and set no block but
their own (`InsertKeeps`, `UpdateKeeps`). The functions over a run are unrolled: a run
in `Runs` has one or two blocks.

`WindowsProofs` proves for every size of screen and cursor, every `EventRoom` and any
movements by integers (`ScreenAssumption`), and for every number of windows,
processes and generations and every length of the queues (`CompAssumption`):

* `FrameOnScreen`: `ScreenSpec => []ScreenShowsFrame`
* `RoutedInOrder`: `CompSpec => []InputInOrder`
* `WindowsAreKnown`: `CompSpec => []WindowsKnown`, if `MaxMade + 1 < GenSpace`

`ScreenShowsFrame` speaks of a window manager at rest. `ShownInv` says at every step
which pixels a present has still to copy, and that whenever the screen may show
anything else an event is on its way that has all of it drawn again (`Stale`). That the
rectangle of a movement covers both places of the cursor, also when they are clipped at
an edge, is `AroundCovers`. `InputInOrder` speaks of the windows in use; its invariant
`QueueInv` speaks of every slot, and of the slot and event a preempted
`wm.routeInput` will store. Underneath it is arithmetic on the ring: what is stored
comes last (`StoredLast`), moving the read pointer on takes the front away
(`TakenFirst`), and a poll takes no more from a window than it holds (`TakesSome`). What
is left of the caller's buffer before each slot is a recursive function; that it exists
(`LeftBeforeIs`) follows from the least slot for which it would not.

The hypothesis of `WindowsAreKnown` says that the generations do not come round. They
are 16 bits and the first window gets 2, so it covers the first 65534 windows; after
them `NextGeneration` begins again at 1, and handles that were given out return.
`WindowInv` has three parts beside `QueueInv`. `HandleInv`: no handle has a later
generation than the last one given out, so a new one is not among those there are,
those gone and those the compositor was not told of. `PushInv`: a
process that is preempted inside `compositor_push_event` holds the write pointer as it
still is, unless another push has come in between, which is `lost`. `TellInv`: what the
compositor will know after the events that wait is what there is; and while there is no
compositor no window event waits, so that the next one begins with none. Underneath are
what a push adds to the events that wait (`PushedAfter`, `PushAllIs`), what a poll takes
(`PolledFirst`), and that seeing some events and then others is seeing all of them
(`SeenBoth`); the windows of a dead process are counted off one by one (`NthCounts`).

`KernWmProofs` proves for every number of terminals and windows, every size of the ring
of keys from 2 on, and any number of keys typed and of window managers one after the
other (`WmAssumption`):

* `DeskAgreed`: `WmSpec => []WindowsAgree`
* `KeysArrived`: `WmSpec => []KeysArrive`

`WindowsAgree` speaks of the windows there are; `DeskInv` also of what the next one is
made from. A ring reaches its window by way of `pending_shm` and its terminal by way of
the spawn queue, so the two agree only because at most one spawn is queued, none while
the window manager handles events, and because `pending_shm`, if it is set then, is what
is queued (`SpawnInv`). A spawn that fails leaves `pending_shm` behind, but empties the
queue, and the next request sets both; a window manager that ends leaves the queue to
the next one, whose first window then has no ring. The terminals keep the rings they
were started with (`RingsAgree`), and a ring that is queued is nobody's yet.

`KeysArrive` takes more (`KeysInv`). The window manager publishes in one ring at a time,
and it knows the end of every other one (`TodoInv`), so its next key is stored behind
the last one; the ring of a spawn under way is unused (`UnusedInv`). What is in a ring,
over both writes of a key and an end that the terminal has read before, is what was
typed less what was taken (`OrderInv`); a ring filled to the last cell
looks empty to the terminal, and from then on (`lapped`) nothing is claimed of it. And a
terminal to which no signal is on its way has read what there is to read, as far as it
has come in its round (`SeenInv`): every key and size is written before its signal, and
the terminal clears the signal before it reads. The calls of `tile_all` are a recursion
over the windows; that each is where it should be (`TilingIs`) follows from the least
place at which it would not be (`FlattenIs`).

Only model-checked: liveness (`EveryoneServed`, `DrainedWhenIdle`, `Finishes`), which
is out of the prover's reach; `WalkFinds` and `ListsAll`, whose modules have recursive
operators; everything in the modules without a theorem. What a recursive function
computes for inputs of any length is not proved either: the induction theorems of the
library take an operator as a parameter. Where only a least element is needed,
`SmallestOfNats` gets it from the well-foundedness of `<` over sets instead.

## 5. Not modelled

Boot and interrupt-table set-up, port I/O of IDE and PCI,
rendering, fonts, colours, serial output, profiling and string helpers: they move
data or talk to hardware, and no other component's state depends on the order they
do it in. wasm3, stb_sprintf, ssfn, limine and other vendored code. The Quake port
but for what a hazard says of it. The line editor of the main loop, several block groups, the ring write
helper of shared memory, edge flags of the keyboard. `KernSched` leaves out
register save and restore; the copying of top entries is in `KernPaging`.

## 6. Plan

1. Proofs: `SpacesKept`, whose tables share their upper halves; `DiskConsistent` over
   the map of a file's blocks.
2. `BlockCache` with interference inside the helpers, as a refinement of an abstract
   disk; several writers in `KernFs` once the code locks its bitmaps.
3. The line editor and its history; several directories in `KernFs`; buffers and
   surfaces of ordinary windows against freed runtimes.
