------------------------------ MODULE KernSched ------------------------------
(***************************************************************************)
(* The preemptive round-robin scheduler of kern_sched.c together with the  *)
(* life cycle of processes: process_create, wasm_spawn's hand-over of a    *)
(* new process to its first thread, sched_thread_exit, sched_kill_process, *)
(* and the reaper inside sched_run_next that calls process_exit.           *)
(*                                                                         *)
(* There is one CPU.  Code between save_irq_and_disable and restore_irq is *)
(* one step; between two such sections the timer interrupt may switch to   *)
(* another task.  sched_run_next runs with interrupts masked from start to *)
(* end, so while `walking` holds no other action is enabled; its loop over *)
(* the task list is one action per iteration.                              *)
(*                                                                         *)
(* Task and process structures are named by the order of their allocation, *)
(* so a structure that was freed is never confused with a later one.       *)
(***************************************************************************)
EXTENDS Integers, FiniteSets

CONSTANTS MaxTask, \* bound on the task structures ever allocated
          MaxProc  \* bound on the process structures ever allocated

ASSUME BoundsAssumption == MaxTask \in Nat /\ MaxProc \in Nat

VARIABLES
  linked,          \* tasks on the circular master list (allocated)
  next,            \* kern_task_t.next
  task_list_head,
  current_task,
  state,           \* kern_task_t.state
  process,         \* kern_task_t.process
  live,            \* process structures that are allocated
  pid,             \* kern_process_t.pid
  parent,          \* kern_process_t.stdout_parent_pid
  thread_count,    \* kern_process_t.thread_count
  process_id_c,    \* the pid counter
  task_c,          \* tasks allocated so far
  proc_c,          \* processes allocated so far
  sched_idle_needs_run,
  pc,              \* where each task is in the kernel code modelled here
  hold,            \* the kern_process_t pointer a spawning task holds
  tmp,             \* register copy of process_id_c inside process_create
  walking,         \* sched_run_next is executing, interrupts masked
  prev, nxt, idle_task \* locals of sched_run_next

taskVars == <<linked, next, task_list_head, state, process, task_c>>
procVars == <<live, pid, parent, thread_count, process_id_c, proc_c>>
walkVars == <<walking, prev, nxt, idle_task>>
ctlVars  == <<pc, hold, tmp>>
vars == <<taskVars, procVars, walkVars, ctlVars, current_task, sched_idle_needs_run>>

Root   == 0       \* the boot/shell thread, tid 0, never reaped
Kernel == 0       \* kernel_process
NoTask == -1
NoProc == -1

Tasks == 0 .. MaxTask
Procs == 0 .. MaxProc
States == {"READY", "RUNNING", "BLOCKED", "DEAD"}
Labels == {"run", "pid", "spawn", "do", "wait", "spawned", "exit", "block", "resume"}

\* The tests `state > 1` and `state == DEAD || state == BLOCKED`.
Runnable(t) == state[t] \in {"READY", "RUNNING"}

\* Task t executes with interrupts enabled.
Running(t) == ~walking /\ current_task = t

------------------------------------------------------------------------------
(* sched_init *)
Init ==
  /\ linked = {Root}
  /\ next = [t \in Tasks |-> IF t = Root THEN Root ELSE NoTask]
  /\ task_list_head = Root
  /\ current_task = Root
  /\ state = [t \in Tasks |-> IF t = Root THEN "RUNNING" ELSE "READY"]
  /\ process = [t \in Tasks |-> IF t = Root THEN Kernel ELSE NoProc]
  /\ live = {Kernel}
  /\ pid = [p \in Procs |-> IF p = Kernel THEN 0 ELSE -1]
  /\ parent = [p \in Procs |-> -1]
  /\ thread_count = [p \in Procs |-> IF p = Kernel THEN 1 ELSE 0]
  /\ process_id_c = 0
  /\ task_c = 0
  /\ proc_c = 0
  /\ sched_idle_needs_run = FALSE
  /\ pc = [t \in Tasks |-> "run"]
  /\ hold = [t \in Tasks |-> NoProc]
  /\ tmp = [t \in Tasks |-> 0]
  /\ walking = FALSE
  /\ prev = NoTask /\ nxt = NoTask /\ idle_task = NoTask

------------------------------------------------------------------------------
(* process_create.  The structure is allocated, then the pid counter is    *)
(* incremented with interrupts enabled: a load and a store that the timer  *)
(* can separate.                                                           *)

ProcessCreate(t) ==
  /\ Running(t) /\ pc[t] = "run"
  /\ proc_c < MaxProc
  /\ proc_c' = proc_c + 1
  /\ live' = live \cup {proc_c + 1}
  /\ hold' = [hold EXCEPT ![t] = proc_c + 1]
  /\ tmp' = [tmp EXCEPT ![t] = process_id_c]
  /\ pc' = [pc EXCEPT ![t] = "pid"]
  /\ UNCHANGED <<taskVars, walkVars, current_task, sched_idle_needs_run,
                 pid, parent, thread_count, process_id_c>>

\* The parent's pid, which wasm_spawn records and the shell's `do' does not.
StdoutParent(t, caller) == IF caller = "spawn" THEN pid[process[t]] ELSE -1

\* The rest of process_create, and what its caller does up to the new thread.
ProcessInit(t) ==
  /\ Running(t) /\ pc[t] = "pid"
  /\ process_id_c' = tmp[t] + 1
  /\ pid' = [pid EXCEPT ![hold[t]] = tmp[t] + 1]
  /\ thread_count' = [thread_count EXCEPT ![hold[t]] = 0]
  /\ \E l \in {"spawn", "do"} :
       /\ pc' = [pc EXCEPT ![t] = l]
       /\ parent' = [parent EXCEPT ![hold[t]] = StdoutParent(t, l)]
  /\ tmp' = [tmp EXCEPT ![t] = 0]
  /\ UNCHANGED <<taskVars, walkVars, current_task, sched_idle_needs_run,
                 live, proc_c, hold>>

\* process_create runs out of memory: a failed kmallocz leaves the pid counter
\* alone, a failed pmm_alloc_page has consumed a pid and frees the structure.
\* wasm_spawn gives up; `do' goes on with a NULL process.
ProcessCreateNoMem(t) ==
  /\ Running(t)
  /\ \/ /\ pc[t] = "run"
        /\ pc' = [pc EXCEPT ![t] = "do"]
        /\ UNCHANGED <<live, hold, process_id_c, tmp>>
     \/ /\ pc[t] = "pid"
        /\ live' = live \ {hold[t]}
        /\ hold' = [hold EXCEPT ![t] = NoProc]
        /\ process_id_c' = tmp[t] + 1
        /\ tmp' = [tmp EXCEPT ![t] = 0]
        /\ \E l \in {"run", "do"} : pc' = [pc EXCEPT ![t] = l]
  /\ UNCHANGED <<taskVars, walkVars, current_task, sched_idle_needs_run,
                 pid, parent, thread_count, proc_c>>

\* task_create_internal: a NULL process stands for the kernel process; the new
\* task is linked behind the head of the list.  wasm_spawn keeps the process
\* pointer, waiting for the child or not; `do' has no more use for it.
TaskCreate(t) ==
  LET new == task_c + 1
      p   == IF hold[t] = NoProc THEN Kernel ELSE hold[t]
  IN /\ Running(t) /\ pc[t] \in {"spawn", "do"}
     /\ task_c < MaxTask
     /\ task_c' = new
     /\ linked' = linked \cup {new}
     /\ state' = [state EXCEPT ![new] = "READY"]
     /\ process' = [process EXCEPT ![new] = p]
     /\ thread_count' = [thread_count EXCEPT ![p] = @ + 1]
     /\ next' = [next EXCEPT ![new] = next[task_list_head], ![task_list_head] = new]
     /\ \/ /\ pc[t] = "spawn"
           /\ \E l \in {"wait", "spawned"} : pc' = [pc EXCEPT ![t] = l]
           /\ UNCHANGED hold
        \/ /\ pc[t] = "do"
           /\ pc' = [pc EXCEPT ![t] = "run"]
           /\ hold' = [hold EXCEPT ![t] = NoProc]
     /\ UNCHANGED <<task_list_head, walkVars, current_task, sched_idle_needs_run,
                    live, pid, parent, process_id_c, proc_c, tmp>>

\* The processes left after process_exit(p).  It marks the structure (pid = -1)
\* only to free it, and everything the process owns, before it returns.
ProcessExit(p) == IF p = Kernel THEN live ELSE live \ {p}

\* task_create_internal finds no memory: wasm_spawn calls process_exit on the
\* process it holds, `do' just drops the pointer.
TaskCreateNoMem(t) ==
  /\ Running(t) /\ pc[t] \in {"spawn", "do"}
  /\ live' = IF pc[t] = "spawn" THEN ProcessExit(hold[t]) ELSE live
  /\ hold' = [hold EXCEPT ![t] = NoProc]
  /\ pc' = [pc EXCEPT ![t] = "run"]
  /\ UNCHANGED <<taskVars, walkVars, current_task, sched_idle_needs_run,
                 pid, parent, thread_count, process_id_c, proc_c, tmp>>

\* sched_get_by_pid(n) # null
FoundByPid(n) == \E t \in linked : pid[process[t]] = n

\* wasm_spawn with opts->wait: the loop around sched_get_by_pid ends.  The pid
\* is a local copy taken before the loop.
SpawnWaitDone(t) ==
  /\ Running(t) /\ pc[t] = "wait"
  /\ ~FoundByPid(pid[hold[t]])
  /\ pc' = [pc EXCEPT ![t] = "spawned"]
  /\ UNCHANGED <<taskVars, procVars, walkVars, current_task,
                 sched_idle_needs_run, hold, tmp>>

\* wasm_spawn's `return proc->pid', which dereferences the held pointer.
SpawnReturn(t) ==
  /\ Running(t) /\ pc[t] = "spawned"
  /\ pc' = [pc EXCEPT ![t] = "run"]
  /\ hold' = [hold EXCEPT ![t] = NoProc]
  /\ UNCHANGED <<taskVars, procVars, walkVars, current_task,
                 sched_idle_needs_run, tmp>>

------------------------------------------------------------------------------
(* Ending and blocking tasks *)

\* sched_thread_exit: the task marks itself DEAD and yields for ever.  The boot
\* thread never returns from the main loop.
ThreadExit(t) ==
  /\ Running(t) /\ t # Root /\ pc[t] = "run"
  /\ state' = [state EXCEPT ![t] = "DEAD"]
  /\ pc' = [pc EXCEPT ![t] = "exit"]
  /\ UNCHANGED <<linked, next, task_list_head, process, task_c, procVars,
                 walkVars, current_task, sched_idle_needs_run, hold, tmp>>

\* The tasks sched_kill_process(n) marks.
KillTargets(n) == {u \in linked : pid[process[u]] = n}

\* A faulty variant: the process is freed at once instead of by the reaper.
KillProcessFrees(t, n) ==
  /\ Running(t) /\ pc[t] \in {"run", "wait"}
  /\ n > 0
  /\ state' = [u \in Tasks |-> IF u \in KillTargets(n) THEN "DEAD" ELSE state[u]]
  /\ live' = live \ {process[u] : u \in KillTargets(n)}
  /\ UNCHANGED <<linked, next, task_list_head, process, task_c, pid, parent, thread_count,
                 process_id_c, proc_c, walkVars, ctlVars, current_task, sched_idle_needs_run>>

\* sched_kill_process(n), from the shell's `kill', from Ctrl+C in the main
\* loop or from the wait loop of wasm_spawn.  Every caller has n > 0.
KillProcess(t, n) ==
  /\ Running(t) /\ pc[t] \in {"run", "wait"}
  /\ n > 0
  /\ state' = [u \in Tasks |-> IF u \in KillTargets(n) THEN "DEAD" ELSE state[u]]
  /\ UNCHANGED <<linked, next, task_list_head, process, task_c, procVars,
                 walkVars, ctlVars, current_task, sched_idle_needs_run>>

\* sched_kill_children of the caller's own process.
KillChildren(t) ==
  LET n == pid[process[t]]
  IN /\ Running(t) /\ pc[t] = "run"
     /\ n > 0
     /\ state' = [u \in Tasks |->
                    IF /\ u \in linked
                       /\ parent[process[u]] = n
                       /\ pid[process[u]] # n
                    THEN "DEAD" ELSE state[u]]
     /\ UNCHANGED <<linked, next, task_list_head, process, task_c, procVars,
                    walkVars, ctlVars, current_task, sched_idle_needs_run>>

\* sched_block_current up to its call of sched_run_next.  Only processes call
\* it (through ipc_signal_wait); the boot thread never does.
BlockCurrent(t) ==
  /\ Running(t) /\ t # Root /\ pc[t] = "run"
  /\ state' = [state EXCEPT ![t] = "BLOCKED"]
  /\ pc' = [pc EXCEPT ![t] = "block"]
  /\ UNCHANGED <<linked, next, task_list_head, process, task_c, procVars,
                 walkVars, current_task, sched_idle_needs_run, hold, tmp>>

\* A faulty variant that makes any task READY.
UnblockAny(t, u) ==
  /\ Running(t) /\ pc[t] = "run"
  /\ u \in linked
  /\ state' = [state EXCEPT ![u] = "READY"]
  /\ UNCHANGED <<linked, next, task_list_head, process, task_c, procVars,
                 walkVars, ctlVars, current_task, sched_idle_needs_run>>

\* sched_unblock(u), called by the running task for a task on the list.
Unblock(t, u) ==
  /\ Running(t) /\ pc[t] = "run"
  /\ u \in linked /\ state[u] = "BLOCKED"
  /\ state' = [state EXCEPT ![u] = "READY"]
  /\ UNCHANGED <<linked, next, task_list_head, process, task_c, procVars,
                 walkVars, ctlVars, current_task, sched_idle_needs_run>>

\* sched_block_current returns once the task is scheduled again.
BlockReturn(t) ==
  /\ Running(t) /\ pc[t] = "resume"
  /\ pc' = [pc EXCEPT ![t] = "run"]
  /\ UNCHANGED <<taskVars, procVars, walkVars, current_task,
                 sched_idle_needs_run, hold, tmp>>

\* sched_idle_wake, from the keyboard and mouse interrupt handlers.
IdleWake ==
  /\ ~walking /\ sched_idle_needs_run' = TRUE
  /\ UNCHANGED <<taskVars, procVars, walkVars, ctlVars, current_task>>

\* sched_idle_clear, from the main loop of the boot thread.
IdleClear ==
  /\ Running(Root) /\ pc[Root] = "run"
  /\ sched_idle_needs_run' = FALSE
  /\ UNCHANGED <<taskVars, procVars, walkVars, ctlVars, current_task>>

------------------------------------------------------------------------------
(* sched_run_next *)

\* Entry: interrupts go off, the search starts behind the current task.
RunNextBegin ==
  /\ ~walking
  /\ walking' = TRUE
  /\ prev' = current_task
  /\ nxt' = next[current_task]
  /\ UNCHANGED <<taskVars, procVars, current_task, sched_idle_needs_run,
                 idle_task, hold, tmp>>

\* Called from the timer interrupt or by a task that yields.
Preempt == RunNextBegin /\ UNCHANGED pc

\* Called by sched_block_current.
BlockYield(t) ==
  /\ Running(t) /\ pc[t] = "block"
  /\ RunNextBegin
  /\ pc' = [pc EXCEPT ![t] = "resume"]

\* The loop condition `next != current_task'.
Searching == walking /\ nxt # current_task

Reapable == state[nxt] = "DEAD" /\ nxt # Root

\* Faulty variants of DeferIdle: any task is deferred, the wakeup flag is not
\* looked at, nothing is deferred.
DeferAny    == Runnable(nxt) /\ ~sched_idle_needs_run
DeferAlways == Runnable(nxt) /\ nxt = Root
DeferNever  == FALSE

DeferIdle == Runnable(nxt) /\ nxt = Root /\ ~sched_idle_needs_run

\* A faulty variant: the dead task is freed and its predecessor still points to it.
WalkReapLinked ==
  LET p == process[nxt]
  IN /\ Searching /\ Reapable
     /\ linked' = linked \ {nxt}
     /\ thread_count' = [thread_count EXCEPT ![p] = @ - 1]
     /\ live' = IF thread_count'[p] = 0 /\ p # Kernel THEN live \ {p} ELSE live
     /\ prev' = nxt /\ nxt' = next[nxt]
     /\ UNCHANGED <<next, task_list_head, state, process, task_c, pid, parent, process_id_c,
                    proc_c, walking, idle_task, current_task, sched_idle_needs_run, ctlVars>>

\* A dead task is unlinked, the head is moved off it, its process loses a
\* thread and ends in process_exit with its last one; the task is freed.
WalkReap ==
  LET p == process[nxt]
  IN /\ Searching /\ Reapable
     /\ linked' = linked \ {nxt}
     /\ next' = [next EXCEPT ![prev] = next[nxt], ![nxt] = NoTask]
     /\ task_list_head' = IF nxt # task_list_head THEN task_list_head
                          ELSE IF state[prev] # "DEAD" THEN prev ELSE next[nxt]
     /\ thread_count' = [thread_count EXCEPT ![p] = @ - 1]
     /\ live' = IF thread_count'[p] = 0 THEN ProcessExit(p) ELSE live
     /\ nxt' = next[nxt]
     /\ pc' = [pc EXCEPT ![nxt] = "run"]     \* its stack is freed
     /\ hold' = [hold EXCEPT ![nxt] = NoProc]
     /\ tmp' = [tmp EXCEPT ![nxt] = 0]
     /\ UNCHANGED <<state, process, task_c, pid, parent, process_id_c, proc_c,
                    walking, prev, idle_task, current_task,
                    sched_idle_needs_run>>

\* Blocked tasks are passed over.
WalkSkip ==
  /\ Searching /\ ~Reapable /\ ~Runnable(nxt)
  /\ prev' = nxt
  /\ nxt' = next[nxt]
  /\ UNCHANGED <<taskVars, procVars, ctlVars, current_task,
                 sched_idle_needs_run, walking, idle_task>>

\* The boot thread without pending input is remembered and passed over.
WalkDefer ==
  /\ Searching /\ DeferIdle
  /\ idle_task' = nxt
  /\ prev' = nxt
  /\ nxt' = next[nxt]
  /\ UNCHANGED <<taskVars, procVars, ctlVars, current_task,
                 sched_idle_needs_run, walking>>

WalkEnd ==
  /\ walking' = FALSE
  /\ prev' = NoTask /\ nxt' = NoTask /\ idle_task' = NoTask
  /\ UNCHANGED <<taskVars, procVars, ctlVars, sched_idle_needs_run>>

\* The search stops at a runnable task: switch to it.
WalkDispatch ==
  /\ Searching /\ Runnable(nxt) /\ ~DeferIdle
  /\ current_task' = nxt
  /\ WalkEnd

\* f is the first runnable task after the current one in list order.
FirstRunnable(f) ==
  \E n \in 1 .. Cardinality(linked) : \E path \in [0 .. n -> linked] :
    /\ path[0] = current_task /\ path[n] = f
    /\ \A i \in 1 .. n : path[i] = next[path[i - 1]]
    /\ \A i \in 1 .. n - 1 : path[i] # current_task /\ ~Runnable(path[i])

\* Where a task that cannot go on falls back to: the boot thread passed over in
\* the search, or else the first runnable task on the list.
Fallback(f) ==
  /\ f \in linked /\ f # current_task /\ Runnable(f)
  /\ IF idle_task # NoTask THEN f = idle_task ELSE FirstRunnable(f)

\* The search came back to its start.  A dead or blocked task switches to the
\* fallback; otherwise, or with no fallback, the current task goes on.
WalkWrapSwitch ==
  /\ walking /\ nxt = current_task /\ ~Runnable(current_task)
  /\ \E f \in linked : Fallback(f) /\ current_task' = f
  /\ WalkEnd

WalkWrapStay ==
  /\ walking /\ nxt = current_task
  /\ Runnable(current_task) \/ ~\E f \in linked : Fallback(f)
  /\ UNCHANGED current_task
  /\ WalkEnd

Walk == WalkReap \/ WalkSkip \/ WalkDefer \/ WalkDispatch \/ WalkWrapSwitch \/ WalkWrapStay

------------------------------------------------------------------------------
TaskStep(t) ==
  \/ ProcessCreate(t) \/ ProcessInit(t) \/ ProcessCreateNoMem(t)
  \/ TaskCreate(t) \/ TaskCreateNoMem(t)
  \/ SpawnWaitDone(t) \/ SpawnReturn(t)
  \/ ThreadExit(t) \/ BlockCurrent(t) \/ BlockYield(t) \/ BlockReturn(t)
  \/ KillChildren(t)
  \/ \E n \in 1 .. MaxProc : KillProcess(t, n)
  \/ \E u \in linked : Unblock(t, u)

Next ==
  \/ \E t \in Tasks : TaskStep(t)
  \/ IdleWake \/ IdleClear
  \/ Preempt
  \/ Walk

\* The timer interrupt keeps coming and sched_run_next runs to its end.
Fairness == WF_vars(Preempt) /\ WF_vars(Walk)

Spec == Init /\ [][Next]_vars
FairSpec == Spec /\ Fairness

------------------------------------------------------------------------------
(* Properties *)

\* Every variable has its type.
TypeOK ==
  /\ linked \in SUBSET Tasks
  /\ next \in [Tasks -> Tasks \cup {NoTask}]
  /\ task_list_head \in Tasks
  /\ current_task \in Tasks
  /\ state \in [Tasks -> States]
  /\ process \in [Tasks -> Procs \cup {NoProc}]
  /\ live \in SUBSET Procs
  /\ pid \in [Procs -> Int]
  /\ parent \in [Procs -> Int]
  /\ thread_count \in [Procs -> Int]
  /\ process_id_c \in Nat
  /\ task_c \in Tasks
  /\ proc_c \in Procs
  /\ sched_idle_needs_run \in BOOLEAN
  /\ pc \in [Tasks -> Labels]
  /\ hold \in [Tasks -> Procs \cup {NoProc}]
  /\ tmp \in [Tasks -> Nat]
  /\ walking \in BOOLEAN
  /\ prev \in Tasks \cup {NoTask}
  /\ nxt \in Tasks \cup {NoTask}
  /\ idle_task \in {NoTask, Root}

\* The master list, on which sched_run_next, sched_get_by_pid and the kill
\* functions walk with raw pointers, never leads to freed memory: its head, the
\* current task, the boot thread and every successor are allocated tasks, and
\* the two cursors of a search stay adjacent on it.
ListClosed ==
  /\ {Root, task_list_head, current_task} \subseteq linked
  /\ \A t \in linked : next[t] \in linked
  /\ walking => prev \in linked /\ next[prev] = nxt

\* The list is one ring, whatever was inserted behind the head or reaped
\* meanwhile: no part of it is closed, so every walk that goes on until it is
\* back where it started meets every task.
OneRing ==
  \A S \in SUBSET linked : S # {} /\ (\A t \in S : next[t] \in S) => S = linked

\* The two together: the list that sched_run_next walks with raw pointers stays
\* whole under insertion behind the head and reaping in the middle of a search.
ListIntact == ListClosed /\ OneRing

\* No task runs, is reaped or is looked up with a freed kern_process_t, since
\* process_exit frees it only with the last thread.
ProcessOutlivesThreads == \A t \in linked : process[t] \in live

\* thread_count is the number of the process's threads on the list, so the
\* reaper meets zero exactly at the last one.
ThreadCountExact ==
  \A p \in live : thread_count[p] = Cardinality({t \in linked : process[t] = p})

\* process_exit runs exactly with the last thread: before it the count is that
\* of the threads, and afterwards no thread is left that uses the process.
ThreadsCounted == ProcessOutlivesThreads /\ ThreadCountExact

\* A task that another task killed stays dead and never gets the CPU again.
KilledStaysDead ==
  [][\A t \in linked : state[t] = "DEAD" /\ t # current_task
       => state'[t] = "DEAD" /\ current_task' # t]_vars

\* The CPU is never given to a blocked or dead task, on whichever of the three
\* ways out of sched_run_next.
SwitchToRunnable ==
  [][current_task' # current_task => Runnable(current_task')]_vars

\* Every thread but the boot thread gets the CPU while it stays runnable.
NoStarvation ==
  \A t \in Tasks \ {Root} :
    (t \in linked /\ Runnable(t)) ~> (current_task = t \/ ~Runnable(t))

\* Every dead thread is reaped in the end, the one that killed itself included.
DeadReaped ==
  \A t \in Tasks \ {Root} :
    (t \in linked /\ state[t] = "DEAD") ~> (t \notin linked \/ state[t] # "DEAD")

\* The boot thread gets the CPU after input set its wakeup flag.
IdleWakeServed == sched_idle_needs_run ~> (current_task = Root)

\* Whoever waits for the scheduler is served: a runnable thread, the boot
\* thread with input, and a dead thread that waits to be reaped.
EveryoneServed == NoStarvation /\ IdleWakeServed /\ DeadReaped

\* sched_run_next keeps its policy: it switches to runnable tasks only, and to
\* the boot thread only for pending input or when nothing else can run, so that
\* compute threads keep the full CPU.
Policy == INSTANCE SchedPolicy WITH
  Task <- Tasks, Boot <- Root, cpu <- current_task, needs_run <- sched_idle_needs_run,
  ready <- {t \in linked : Runnable(t)}
KeepsPolicy == Policy!PolicySpec

\* wasm_spawn returns the pid of the process it created: the structure it reads
\* the pid from is still allocated.
SpawnReturnsPid ==
  \A t \in Tasks : Running(t) /\ pc[t] = "spawned" => hold[t] \in live
==============================================================================
