--------------------------- MODULE KernSchedProofs ---------------------------
(***************************************************************************)
(* Proofs about KernSched, for every number of tasks and processes.        *)
(*                                                                         *)
(* None of the properties is inductive alone.  That the list stays one     *)
(* ring when a task is unlinked needs that no two tasks have the same      *)
(* successor (otherwise taking one out could leave another pointing to     *)
(* it); that the counters and the addresses agree needs that structures    *)
(* not yet allocated are untouched; and that the reaper frees a process    *)
(* only with its last thread needs that a process which has no thread yet  *)
(* is held by exactly one task, the one that is spawning it.  IInv is the  *)
(* conjunction; Invariance shows Spec => []IInv, and the theorems after it *)
(* read the properties off it.                                             *)
(*                                                                         *)
(* The second part shows that the scheduler implements SchedPolicy and     *)
(* that a blocked task does not go on.  Both are about the end of a search *)
(* that found nobody: the task list is one ring, so a search that is back  *)
(* where it started has met every task, and none of them was runnable but  *)
(* the boot thread, which is always runnable and which the search has      *)
(* remembered.  What a search has met so far is the set V of Searched.     *)
(***************************************************************************)
EXTENDS KernSched, FiniteSetTheorems, TLAPS

\* The labels at which a spawning task holds a process without threads.
Fresh(t) == pc[t] \in {"pid", "spawn", "do"} /\ hold[t] # NoProc

\* No two tasks on the list have the same successor.
NextInjective == \A t, u \in linked : next[t] = next[u] => t = u

\* Structures are allocated in order: nothing above the counters is in use.
Unallocated ==
  /\ linked \subseteq 0 .. task_c
  /\ live \subseteq 0 .. proc_c
  /\ \A p \in Procs : p > proc_c => thread_count[p] = 0

\* The threads of process p that are on the list.
ThreadsOf(p) == {t \in linked : process[t] = p}

\* A process without threads in the hands of a spawning task is allocated, is
\* not the kernel process, has no thread, and is held by that task alone.
HeldIsFresh ==
  /\ Kernel \in live
  /\ \A t \in Tasks : pc[t] \in {"pid", "spawn"} => hold[t] # NoProc
  /\ \A t \in Tasks : Fresh(t) =>
       hold[t] \in live \ {Kernel} /\ \A u \in linked : process[u] # hold[t]
  /\ \A t, u \in Tasks : Fresh(t) /\ Fresh(u) /\ hold[t] = hold[u] => t = u

\* Outside process_create and wasm_spawn a task holds no process.
HoldsOnlySpawning ==
  \A t \in Tasks : pc[t] \in {"run", "block", "resume"} => hold[t] = NoProc

\* The inductive invariant.
IInv ==
  /\ TypeOK /\ ListClosed /\ NextInjective /\ OneRing
  /\ Unallocated /\ HeldIsFresh /\ ProcessOutlivesThreads /\ ThreadCountExact
  /\ HoldsOnlySpawning
------------------------------------------------------------------------------
\* There are finitely many task structures.
LEMMA TasksFinite == IsFiniteSet(Tasks)
  BY FS_Interval, BoundsAssumption DEF BoundsAssumption, Tasks

\* sched_init establishes the invariant.
LEMMA InitInv == Init => IInv
<1> SUFFICES ASSUME Init PROVE IInv
  OBVIOUS
<1> USE BoundsAssumption DEF BoundsAssumption, Init, Root, Kernel, NoTask, NoProc, Tasks, Procs
<1>1. TypeOK
  <2>1. sched_idle_needs_run \in BOOLEAN /\ walking \in BOOLEAN
    OBVIOUS
  <2>2. linked \in SUBSET Tasks /\ live \in SUBSET Procs
    OBVIOUS
  <2>3. /\ next \in [Tasks -> Tasks \cup {NoTask}]
        /\ process \in [Tasks -> Procs \cup {NoProc}]
    OBVIOUS
  <2>4. state \in [Tasks -> States] /\ pc \in [Tasks -> Labels]
    BY DEF States, Labels
  <2>5. /\ pid \in [Procs -> Int] /\ parent \in [Procs -> Int] /\ thread_count \in [Procs -> Int]
        /\ hold \in [Tasks -> Procs \cup {NoProc}] /\ tmp \in [Tasks -> Nat]
    OBVIOUS
  <2> QED
    BY <2>1, <2>2, <2>3, <2>4, <2>5 DEF TypeOK
<1>2. ListClosed /\ NextInjective /\ OneRing
  <2>1. ListClosed
    BY DEF ListClosed
  <2>2. NextInjective
    BY DEF NextInjective
  <2>3. ASSUME NEW S \in SUBSET linked, S # {} PROVE S = linked
    <3>1. linked = {Root}
      OBVIOUS
    <3> HIDE DEF Init
    <3> QED
      BY <2>3, <3>1
  <2> QED
    BY <2>1, <2>2, <2>3 DEF OneRing
<1>3. Unallocated /\ HeldIsFresh /\ ProcessOutlivesThreads /\ HoldsOnlySpawning
  BY DEF Unallocated, HeldIsFresh, Fresh, ProcessOutlivesThreads, HoldsOnlySpawning
<1>4. ThreadCountExact
  <2> SUFFICES ASSUME NEW p \in live
               PROVE  thread_count[p] = Cardinality({t \in linked : process[t] = p})
    BY DEF ThreadCountExact
  <2>1. {t \in linked : process[t] = p} = {Root} /\ thread_count[p] = 1
    OBVIOUS
  <2>2. Cardinality({Root}) = 1
    BY FS_Singleton
  <2> HIDE DEF Init
  <2> QED
    BY <2>1, <2>2
<1> QED
  BY <1>1, <1>2, <1>3, <1>4 DEF IInv

\* Every operation a task calls keeps the types.
LEMMA TaskStepType ==
  ASSUME IInv, NEW t \in Tasks, TaskStep(t)
  PROVE  TypeOK'
<1> USE DEF taskVars, procVars, walkVars, ctlVars, Running
<1>1. TypeOK /\ process[t] \in Procs /\ live \subseteq Procs
  <2>1. TypeOK /\ current_task \in linked /\ (\A u \in linked : process[u] \in live)
    BY DEF IInv, ListClosed, ProcessOutlivesThreads
  <2>2. t = current_task
    BY DEF TaskStep, ProcessCreate, ProcessInit, ProcessCreateNoMem, TaskCreate,
       TaskCreateNoMem, SpawnWaitDone, SpawnReturn, ThreadExit, BlockCurrent,
       BlockYield, BlockReturn, KillChildren, KillProcess, Unblock
  <2> QED
    BY <2>1, <2>2 DEF TypeOK
<1>2. CASE ProcessCreate(t)
  <2>1. proc_c + 1 \in Procs
    BY <1>1, <1>2, BoundsAssumption DEF BoundsAssumption, TypeOK, ProcessCreate, Procs
  <2> QED
    BY <1>1, <1>2, <2>1 DEF TypeOK, ProcessCreate, Labels
<1>3. CASE ProcessInit(t)
  <2>1. hold[t] \in Procs
    BY <1>1, <1>3 DEF IInv, HeldIsFresh, Fresh, ProcessInit
  <2> QED
    BY <1>1, <1>3, <2>1 DEF TypeOK, ProcessInit, StdoutParent, Labels
<1>4. CASE ProcessCreateNoMem(t)
  BY <1>1, <1>4 DEF TypeOK, ProcessCreateNoMem, Labels
<1>5. CASE TaskCreate(t)
  <2>1. task_c + 1 \in Tasks
    BY <1>1, <1>5, BoundsAssumption DEF BoundsAssumption, TypeOK, TaskCreate, Tasks
  <2>2. Kernel \in Procs /\ task_list_head \in Tasks /\ next[task_list_head] \in Tasks \cup {NoTask}
    BY <1>1, BoundsAssumption DEF BoundsAssumption, TypeOK, Kernel, Procs
  <2> QED
    BY <1>1, <1>5, <2>1, <2>2 DEF TypeOK, TaskCreate, Labels, States
<1>6. CASE TaskCreateNoMem(t)
  BY <1>1, <1>6 DEF TypeOK, TaskCreateNoMem, ProcessExit, Labels
<1>7. CASE SpawnWaitDone(t) \/ SpawnReturn(t) \/ BlockReturn(t)
  BY <1>1, <1>7 DEF TypeOK, SpawnWaitDone, SpawnReturn, BlockReturn, Labels
<1>8. CASE ThreadExit(t) \/ BlockCurrent(t)
  BY <1>1, <1>8 DEF TypeOK, ThreadExit, BlockCurrent, Labels, States
<1>9. CASE BlockYield(t)
  BY <1>1, <1>9 DEF TypeOK, BlockYield, RunNextBegin, Labels
<1>10. CASE KillChildren(t)
  BY <1>1, <1>10 DEF TypeOK, KillChildren, States
<1>11. CASE \E n \in 1 .. MaxProc : KillProcess(t, n)
  BY <1>1, <1>11 DEF TypeOK, KillProcess, States
<1>12. CASE \E u \in linked : Unblock(t, u)
  BY <1>1, <1>12 DEF TypeOK, Unblock, States
<1> QED
  BY <1>2, <1>3, <1>4, <1>5, <1>6, <1>7, <1>8, <1>9, <1>10, <1>11, <1>12 DEF TaskStep

\* Every iteration of the search of sched_run_next keeps the types.
LEMMA WalkType ==
  ASSUME IInv, Walk
  PROVE  TypeOK'
<1> USE DEF taskVars, procVars, walkVars, ctlVars, WalkEnd
<1>1. /\ TypeOK /\ walking /\ prev \in Tasks /\ nxt \in Tasks /\ next[nxt] \in Tasks
      /\ nxt \in linked /\ process[nxt] \in Procs
  <2>1. walking
    BY DEF Walk, WalkReap, WalkSkip, WalkDefer, WalkDispatch, WalkWrapSwitch, WalkWrapStay, Searching
  <2> QED
    BY <2>1 DEF IInv, TypeOK, ListClosed, ProcessOutlivesThreads
<1>2. CASE WalkReap
  <2>1. thread_count' \in [Procs -> Int]
    BY <1>1, <1>2 DEF WalkReap, TypeOK
  <2>2. live' \in SUBSET Procs /\ linked' \in SUBSET Tasks
    BY <1>1, <1>2 DEF WalkReap, ProcessExit, TypeOK
  <2>3. /\ next' \in [Tasks -> Tasks \cup {NoTask}] /\ task_list_head' \in Tasks
        /\ nxt' \in Tasks \cup {NoTask}
    BY <1>1, <1>2 DEF WalkReap, TypeOK
  <2>4. pc' \in [Tasks -> Labels] /\ hold' \in [Tasks -> Procs \cup {NoProc}] /\ tmp' \in [Tasks -> Nat]
    BY <1>1, <1>2 DEF WalkReap, TypeOK, Labels
  <2> QED
    BY <1>1, <1>2, <2>1, <2>2, <2>3, <2>4 DEF WalkReap, TypeOK
<1>3. CASE WalkSkip
  BY <1>1, <1>3 DEF WalkSkip, TypeOK
<1>4. CASE WalkDefer
  BY <1>1, <1>4 DEF WalkDefer, DeferIdle, TypeOK
<1>5. CASE WalkDispatch \/ WalkWrapSwitch \/ WalkWrapStay
  BY <1>1, <1>5 DEF WalkDispatch, WalkWrapSwitch, WalkWrapStay, TypeOK
<1> QED
  BY <1>2, <1>3, <1>4, <1>5 DEF Walk

\* Every step keeps the types.
LEMMA TypeStep == IInv /\ [Next]_vars => TypeOK'
<1> SUFFICES ASSUME IInv, [Next]_vars PROVE TypeOK'
  OBVIOUS
<1> USE DEF taskVars, procVars, walkVars, ctlVars
<1>1. CASE \E t \in Tasks : TaskStep(t)
  BY <1>1, TaskStepType
<1>2. CASE IdleWake \/ IdleClear
  BY <1>2 DEF IInv, TypeOK, IdleWake, IdleClear
<1>3. CASE Preempt
  BY <1>3 DEF IInv, TypeOK, Preempt, RunNextBegin
<1>4. CASE Walk
  BY <1>4, WalkType
<1>5. CASE UNCHANGED vars
  BY <1>5 DEF IInv, TypeOK, vars
<1> QED
  BY <1>1, <1>2, <1>3, <1>4, <1>5 DEF Next

------------------------------------------------------------------------------
(* The list *)

\* The variables the list part of the invariant speaks of.
listVars == <<linked, next, task_list_head, current_task, walking, prev, nxt, task_c>>

\* The part of the invariant that is about the task list.
ListInv == ListClosed /\ NextInjective /\ OneRing /\ linked \subseteq 0 .. task_c

\* task_create_internal links a new task behind the head: the ring stays whole.
LEMMA ListInsert ==
  ASSUME IInv, NEW t \in Tasks, TaskCreate(t)
  PROVE  ListInv'
<1> DEFINE new == task_c + 1
           h == task_list_head
<1>1. /\ h \in linked /\ h \in Tasks /\ current_task \in linked /\ Root \in linked
      /\ \A u \in linked : next[u] \in linked
      /\ linked \subseteq 0 .. task_c /\ task_c \in Nat /\ next \in [Tasks -> Tasks \cup {NoTask}]
      /\ NextInjective /\ OneRing
  BY BoundsAssumption DEF BoundsAssumption, IInv, TypeOK, ListClosed, Unallocated, Tasks
<1>2. new \notin linked /\ new \in Tasks /\ ~walking
  BY <1>1, BoundsAssumption DEF BoundsAssumption, TaskCreate, Tasks, Running
<1>3. /\ linked' = linked \cup {new} /\ task_c' = new
      /\ next' = [next EXCEPT ![new] = next[h], ![h] = new]
      /\ UNCHANGED <<task_list_head, current_task, walking>>
  BY DEF TaskCreate, walkVars
<1>4. /\ next'[new] = next[h] /\ next'[h] = new
      /\ \A u \in linked : u # h => next'[u] = next[u]
  BY <1>1, <1>2, <1>3 DEF IInv, TypeOK
<1>5. ListClosed'
  <2>1. {Root, task_list_head', current_task'} \subseteq linked'
    BY <1>1, <1>3
  <2>2. \A u \in linked' : next'[u] \in linked'
    <3> SUFFICES ASSUME NEW u \in linked' PROVE next'[u] \in linked'
      OBVIOUS
    <3> HIDE DEF new, h
    <3>1. CASE u = new \/ u = h
      BY <3>1, <1>1, <1>3, <1>4
    <3>2. CASE u \in linked /\ u # h
      <4>1. next'[u] = next[u]
        BY <3>2, <1>4
      <4>2. next[u] \in linked
        BY <3>2, <1>1
      <4> QED
        BY <4>1, <4>2, <1>3
    <3> QED
      BY <3>1, <3>2, <1>3
  <2> QED
    BY <2>1, <2>2, <1>2, <1>3 DEF ListClosed
<1> HIDE DEF new, h
<1>6. NextInjective'
  BY <1>1, <1>2, <1>3, <1>4 DEF NextInjective
<1>7. OneRing'
  <2> SUFFICES ASSUME NEW S \in SUBSET linked', S # {}, \A u \in S : next'[u] \in S
               PROVE  S = linked'
    BY DEF OneRing
  <2> DEFINE R == S \ {new}
  <2>1. R \in SUBSET linked
    BY <1>3
  <2>2. R # {}
    BY <1>1, <1>2, <1>4
  <2>3. \A u \in R : next[u] \in R
    <3> SUFFICES ASSUME NEW u \in R PROVE next[u] \in R
      OBVIOUS
    <3>1. CASE u = h
      BY <3>1, <1>1, <1>2, <1>4
    <3>2. CASE u # h
      BY <3>2, <2>1, <1>1, <1>2, <1>4
    <3> QED
      BY <3>1, <3>2
  <2>4. R = linked
    BY <2>1, <2>2, <2>3, <1>1 DEF OneRing
  <2>5. new \in S
    BY <2>4, <1>1, <1>4
  <2> QED
    BY <2>4, <2>5, <1>3
<1>8. linked' \subseteq 0 .. task_c'
  BY <1>1, <1>3 DEF new
<1> QED
  BY <1>5, <1>6, <1>7, <1>8 DEF ListInv

\* The reaper unlinks the task behind prev: the ring stays whole without it.
LEMMA ListRemove ==
  ASSUME IInv, WalkReap
  PROVE  ListInv'
<1>1. /\ walking /\ nxt # current_task /\ nxt # Root
      /\ linked' = linked \ {nxt}
      /\ next' = [next EXCEPT ![prev] = next[nxt], ![nxt] = NoTask]
      /\ task_list_head' = IF nxt # task_list_head THEN task_list_head
                           ELSE IF state[prev] # "DEAD" THEN prev ELSE next[nxt]
      /\ nxt' = next[nxt] /\ UNCHANGED <<prev, current_task, task_c, walking>>
  BY DEF WalkReap, Searching, Reapable
<1>2. /\ task_list_head \in linked /\ current_task \in linked /\ Root \in linked
      /\ prev \in linked /\ next[prev] = nxt
      /\ \A u \in linked : next[u] \in linked
      /\ linked \subseteq 0 .. task_c /\ linked \subseteq Tasks
      /\ next \in [Tasks -> Tasks \cup {NoTask}]
      /\ NextInjective /\ OneRing
  BY <1>1 DEF IInv, TypeOK, ListClosed, Unallocated
<1>3. prev # nxt
  <2> SUFFICES ASSUME prev = nxt PROVE FALSE
    OBVIOUS
  <2>1. {prev} \in SUBSET linked /\ {prev} # {} /\ \A u \in {prev} : next[u] \in {prev}
    BY <1>2
  <2>2. {prev} = linked
    BY <2>1, <1>2 DEF OneRing
  <2> QED
    BY <2>2, <1>1, <1>2
<1>4. nxt \in linked /\ next[nxt] \in linked /\ next[nxt] # nxt
  BY <1>2, <1>3 DEF NextInjective
<1>5. /\ next'[prev] = next[nxt]
      /\ \A u \in linked' : u # prev => next'[u] = next[u]
      /\ \A u \in linked : u # prev => next[u] # nxt
  BY <1>1, <1>2, <1>3, <1>4 DEF NextInjective
<1>6. ListClosed'
  BY <1>1, <1>2, <1>3, <1>4, <1>5 DEF ListClosed
<1>7. NextInjective'
  BY <1>1, <1>2, <1>3, <1>4, <1>5 DEF NextInjective
<1>8. OneRing'
  <2> SUFFICES ASSUME NEW S \in SUBSET linked', S # {}, \A u \in S : next'[u] \in S
               PROVE  S = linked'
    BY DEF OneRing
  <2>1. CASE prev \notin S
    <3>1. S \in SUBSET linked /\ \A u \in S : next[u] \in S
      BY <2>1, <1>1, <1>5
    <3>2. S = linked
      BY <3>1, <1>2 DEF OneRing
    <3> QED
      BY <3>2, <1>1, <1>4
  <2>2. CASE prev \in S
    <3> DEFINE R == S \cup {nxt}
    <3>1. R \in SUBSET linked /\ R # {}
      BY <1>1, <1>4
    <3>2. \A u \in R : next[u] \in R
      BY <2>2, <1>1, <1>2, <1>5
    <3>3. R = linked
      BY <3>1, <3>2, <1>2 DEF OneRing
    <3> QED
      BY <3>3, <1>1
  <2> QED
    BY <2>1, <2>2
<1>9. linked' \subseteq 0 .. task_c'
  BY <1>1, <1>2
<1> QED
  BY <1>6, <1>7, <1>8, <1>9 DEF ListInv

\* Every step keeps the list part of the invariant.
LEMMA ListStep == IInv /\ [Next]_vars => ListInv'
<1> SUFFICES ASSUME IInv, [Next]_vars PROVE ListInv'
  OBVIOUS
<1> USE DEF taskVars, procVars, walkVars, ctlVars
<1>0. ListInv /\ (walking => prev \in linked /\ nxt \in linked) /\ current_task \in linked
  BY DEF IInv, ListInv, Unallocated, ListClosed
<1>1. CASE UNCHANGED listVars
  BY <1>0, <1>1 DEF ListInv, ListClosed, NextInjective, OneRing, listVars
<1>2. ASSUME NEW t \in Tasks, TaskStep(t) PROVE ListInv'
  <2>1. CASE TaskCreate(t)
    BY <2>1, ListInsert
  <2>2. CASE BlockYield(t)
    BY <1>0, <2>2 DEF BlockYield, RunNextBegin, ListInv, ListClosed, NextInjective, OneRing
  <2>3. CASE ~TaskCreate(t) /\ ~BlockYield(t)
    <3>1. UNCHANGED listVars
      BY <1>2, <2>3 DEF TaskStep, listVars, ProcessCreate, ProcessInit, ProcessCreateNoMem,
         TaskCreateNoMem, SpawnWaitDone, SpawnReturn, ThreadExit, BlockCurrent,
         BlockReturn, KillChildren, KillProcess, Unblock
    <3> QED
      BY <3>1, <1>1
  <2> QED
    BY <2>1, <2>2, <2>3
<1>3. CASE IdleWake \/ IdleClear \/ UNCHANGED vars
  BY <1>1, <1>3 DEF IdleWake, IdleClear, vars, listVars
<1>4. CASE Preempt
  BY <1>0, <1>4 DEF Preempt, RunNextBegin, ListInv, ListClosed, NextInjective, OneRing
<1>5. CASE WalkReap
  BY <1>5, ListRemove
<1>6. CASE WalkSkip \/ WalkDefer
  BY <1>0, <1>6 DEF WalkSkip, WalkDefer, Searching, ListInv, ListClosed, NextInjective, OneRing
<1>7. CASE WalkDispatch \/ WalkWrapSwitch \/ WalkWrapStay
  <2>1. /\ UNCHANGED <<linked, next, task_list_head, task_c>> /\ ~walking'
        /\ current_task' \in linked
    BY <1>0, <1>7 DEF WalkDispatch, WalkWrapSwitch, WalkWrapStay, WalkEnd, Searching
  <2> QED
    BY <1>0, <2>1 DEF ListInv, ListClosed, NextInjective, OneRing
<1> QED
  BY <1>2, <1>3, <1>4, <1>5, <1>6, <1>7 DEF Next, Walk

------------------------------------------------------------------------------
(* Processes and their threads *)

\* The part of the invariant that is about processes and their threads.
ProcInv ==
  /\ live \subseteq 0 .. proc_c
  /\ \A p \in Procs : p > proc_c => thread_count[p] = 0
  /\ HeldIsFresh /\ ProcessOutlivesThreads /\ ThreadCountExact

\* A process's threads are a finite set, so counting them makes sense.
LEMMA ThreadsFinite == ASSUME TypeOK, NEW p PROVE IsFiniteSet(ThreadsOf(p))
  BY TasksFinite, FS_Subset DEF TypeOK, ThreadsOf

\* Steps that leave threads and processes alone, and after which no task
\* holds a fresh process that did not hold it before, keep ProcInv.
LEMMA ProcFrame ==
  ASSUME ProcInv, UNCHANGED <<linked, process, live, thread_count, proc_c>>,
         \A u \in Tasks : pc'[u] \in {"pid", "spawn", "do"} =>
           /\ hold'[u] = hold[u]
           /\ pc[u] \in {"pid", "spawn", "do"}
           /\ pc'[u] \in {"pid", "spawn"} => pc[u] \in {"pid", "spawn"}
  PROVE  ProcInv'
<1>1. ProcessOutlivesThreads' /\ ThreadCountExact'
  BY DEF ProcInv, ProcessOutlivesThreads, ThreadCountExact
<1>2. HeldIsFresh'
  BY DEF ProcInv, HeldIsFresh, Fresh
<1> QED
  BY <1>1, <1>2 DEF ProcInv

\* process_create up to the pid: the new structure is nobody else's.
LEMMA ProcCreate ==
  ASSUME IInv, ProcInv, NEW t \in Tasks, ProcessCreate(t)
  PROVE  ProcInv'
<1> DEFINE new == proc_c + 1
<1>1. /\ live \subseteq 0 .. proc_c /\ proc_c \in Nat /\ new \in Procs /\ new \notin live
      /\ thread_count[new] = 0 /\ new # Kernel /\ new # NoProc
      /\ TypeOK /\ HeldIsFresh /\ ProcessOutlivesThreads /\ ThreadCountExact
  <2>1. TypeOK /\ HeldIsFresh /\ ProcessOutlivesThreads /\ ThreadCountExact
    BY DEF IInv
  <2>2. live \subseteq 0 .. proc_c /\ \A p \in Procs : p > proc_c => thread_count[p] = 0
    BY DEF ProcInv
  <2>3. proc_c \in Nat /\ proc_c < MaxProc
    BY <2>1, BoundsAssumption DEF BoundsAssumption, TypeOK, ProcessCreate, Procs
  <2>4. new \in Procs /\ new # Kernel /\ new # NoProc
    BY <2>3, BoundsAssumption DEF BoundsAssumption, Procs, Kernel, NoProc
  <2>5. new \notin live /\ thread_count[new] = 0
    BY <2>2, <2>3, <2>4
  <2> QED
    BY <2>1, <2>2, <2>3, <2>4, <2>5
<1>2. /\ live' = live \cup {new} /\ proc_c' = new
      /\ hold' = [hold EXCEPT ![t] = new] /\ pc' = [pc EXCEPT ![t] = "pid"]
      /\ UNCHANGED <<linked, process, thread_count>>
  BY DEF ProcessCreate, taskVars
<1>3. /\ hold'[t] = new /\ pc'[t] = "pid"
      /\ \A u \in Tasks : u # t => hold'[u] = hold[u] /\ pc'[u] = pc[u]
  BY <1>1, <1>2 DEF TypeOK
<1>4. \A u \in linked : process[u] # new
  BY <1>1 DEF ProcessOutlivesThreads
<1>5. live' \subseteq 0 .. proc_c' /\ \A p \in Procs : p > proc_c' => thread_count'[p] = 0
  BY <1>1, <1>2 DEF ProcInv, Procs
<1>6. HeldIsFresh'
  <2> HIDE DEF new
  <2>1. \A u \in Tasks : u # t => (Fresh(u)' <=> Fresh(u))
    BY <1>3 DEF Fresh
  <2>2. \A u \in Tasks : u # t /\ Fresh(u) => hold[u] \in live \ {Kernel}
    BY <1>1 DEF HeldIsFresh
  <2>3. Kernel \in live' /\ \A u \in Tasks : pc'[u] \in {"pid", "spawn"} => hold'[u] # NoProc
    BY <1>1, <1>2, <1>3 DEF HeldIsFresh
  <2>4. ASSUME NEW u \in Tasks, Fresh(u)'
        PROVE  hold'[u] \in live' \ {Kernel} /\ \A v \in linked' : process'[v] # hold'[u]
    <3>1. CASE u = t
      BY <3>1, <1>1, <1>2, <1>3, <1>4
    <3>2. CASE u # t
      <4>1. hold'[u] = hold[u] /\ Fresh(u)
        BY <2>1, <2>4, <3>2, <1>3
      <4>2. hold[u] \in live \ {Kernel} /\ \A v \in linked : process[v] # hold[u]
        BY <4>1, <1>1 DEF HeldIsFresh
      <4> QED
        BY <4>1, <4>2, <1>2
    <3> QED
      BY <3>1, <3>2
  <2>5. ASSUME NEW u \in Tasks, NEW v \in Tasks, Fresh(u)', Fresh(v)', hold'[u] = hold'[v]
        PROVE  u = v
    <3>1. CASE u = t \/ v = t
      BY <3>1, <2>1, <2>2, <2>5, <1>1, <1>3
    <3>2. CASE u # t /\ v # t
      <4>1. Fresh(u) /\ Fresh(v) /\ hold[u] = hold[v]
        BY <3>2, <2>1, <2>5, <1>3
      <4> QED
        BY <4>1, <1>1 DEF HeldIsFresh
    <3> QED
      BY <3>1, <3>2
  <2> QED
    BY <2>3, <2>4, <2>5 DEF HeldIsFresh
<1>7. ProcessOutlivesThreads'
  BY <1>1, <1>2 DEF ProcessOutlivesThreads
<1>8. ThreadCountExact'
  <2> SUFFICES ASSUME NEW p \in live' PROVE thread_count[p] = Cardinality(ThreadsOf(p))
    BY <1>2 DEF ThreadCountExact, ThreadsOf
  <2>1. CASE p \in live
    BY <2>1, <1>1 DEF ThreadCountExact, ThreadsOf
  <2>2. CASE p = new
    <3>1. ThreadsOf(p) = {}
      BY <2>2, <1>4 DEF ThreadsOf
    <3> QED
      BY <3>1, <2>2, <1>1, FS_EmptySet
  <2> QED
    BY <2>1, <2>2, <1>2
<1> QED
  BY <1>5, <1>6, <1>7, <1>8 DEF ProcInv

\* Giving up a process that has no thread yet frees nothing that is in use.
LEMMA ProcDrop ==
  ASSUME TypeOK, ProcInv, NEW t \in Tasks, Fresh(t),
         live' = live \ {hold[t]}, hold' = [hold EXCEPT ![t] = NoProc],
         NEW l \in Labels \ {"pid", "spawn"}, pc' = [pc EXCEPT ![t] = l],
         UNCHANGED <<linked, process, thread_count, proc_c>>
  PROVE  ProcInv'
<1>1. /\ hold[t] \in live \ {Kernel} /\ \A u \in linked : process[u] # hold[t]
      /\ HeldIsFresh /\ ProcessOutlivesThreads /\ ThreadCountExact
  BY DEF ProcInv, HeldIsFresh
<1>2. /\ hold'[t] = NoProc /\ pc'[t] \notin {"pid", "spawn"}
      /\ \A u \in Tasks : u # t => hold'[u] = hold[u] /\ pc'[u] = pc[u]
  BY DEF TypeOK
<1>3. \A u \in Tasks : Fresh(u)' => Fresh(u) /\ u # t /\ hold'[u] = hold[u]
  BY <1>2 DEF Fresh
<1>4. HeldIsFresh'
  <2>1. Kernel \in live' /\ \A u \in Tasks : pc'[u] \in {"pid", "spawn"} => hold'[u] # NoProc
    BY <1>1, <1>2 DEF HeldIsFresh
  <2>2. ASSUME NEW u \in Tasks, Fresh(u)'
        PROVE  hold'[u] \in live' \ {Kernel} /\ \A v \in linked' : process'[v] # hold'[u]
    <3>1. Fresh(u) /\ u # t /\ hold'[u] = hold[u]
      BY <2>2, <1>3
    <3>2. hold[u] \in live \ {Kernel} /\ hold[u] # hold[t] /\ \A v \in linked : process[v] # hold[u]
      BY <3>1, <1>1 DEF HeldIsFresh
    <3> QED
      BY <3>1, <3>2
  <2>3. ASSUME NEW u \in Tasks, NEW v \in Tasks, Fresh(u)', Fresh(v)', hold'[u] = hold'[v]
        PROVE  u = v
    BY <2>3, <1>1, <1>3 DEF HeldIsFresh
  <2> QED
    BY <2>1, <2>2, <2>3 DEF HeldIsFresh
<1>5. ProcessOutlivesThreads' /\ ThreadCountExact'
  BY <1>1 DEF ProcessOutlivesThreads, ThreadCountExact
<1> QED
  BY <1>4, <1>5 DEF ProcInv

\* A new thread is counted for the process it gets, which nobody else holds.
LEMMA ProcThread ==
  ASSUME IInv, ProcInv, NEW t \in Tasks, TaskCreate(t)
  PROVE  ProcInv'
<1> DEFINE new == task_c + 1
           p   == IF hold[t] = NoProc THEN Kernel ELSE hold[t]
<1>1. /\ TypeOK /\ HeldIsFresh /\ ProcessOutlivesThreads /\ ThreadCountExact
      /\ linked \subseteq 0 .. task_c /\ live \subseteq Procs
  BY DEF IInv, Unallocated, TypeOK
<1>2. task_c \in Nat /\ new \in Tasks /\ new \notin linked
  BY <1>1, BoundsAssumption DEF BoundsAssumption, TypeOK, TaskCreate, Tasks
<1>3. /\ linked' = linked \cup {new} /\ process' = [process EXCEPT ![new] = p]
      /\ thread_count' = [thread_count EXCEPT ![p] = @ + 1]
      /\ UNCHANGED <<live, proc_c>> /\ pc[t] \in {"spawn", "do"}
  BY DEF TaskCreate
<1>4. /\ pc'[t] \notin {"pid", "spawn", "do"}
      /\ \A u \in Tasks : u # t => hold'[u] = hold[u] /\ pc'[u] = pc[u]
  BY <1>1 DEF TypeOK, TaskCreate
<1>5. p \in live /\ p \in Procs /\ \A u \in Tasks : Fresh(u) /\ u # t => hold[u] # p
  <2>1. CASE hold[t] = NoProc
    BY <2>1, <1>1 DEF HeldIsFresh
  <2>2. CASE hold[t] # NoProc
    <3>1. Fresh(t)
      BY <2>2, <1>3 DEF Fresh
    <3> QED
      BY <2>2, <3>1, <1>1 DEF HeldIsFresh
  <2> QED
    BY <2>1, <2>2
<1>6. /\ process'[new] = p /\ \A u \in linked : process'[u] = process[u]
      /\ thread_count'[p] = thread_count[p] + 1
      /\ \A q \in Procs : q # p => thread_count'[q] = thread_count[q]
  BY <1>1, <1>2, <1>3, <1>5 DEF TypeOK
<1> HIDE DEF new, p
<1>7. \A q \in Procs : q > proc_c => thread_count'[q] = 0
  <2>1. p \in 0 .. proc_c /\ proc_c \in Int /\ \A q \in Procs : q > proc_c => thread_count[q] = 0
    BY <1>1, <1>5 DEF ProcInv, TypeOK, Procs
  <2>2. ASSUME NEW q \in Procs, q > proc_c PROVE q # p
    BY <2>1, <2>2
  <2> QED
    BY <2>1, <2>2, <1>6
<1>8. HeldIsFresh'
  <2>1. \A u \in Tasks : Fresh(u)' => Fresh(u) /\ u # t /\ hold'[u] = hold[u]
    BY <1>4 DEF Fresh
  <2>2. Kernel \in live' /\ \A u \in Tasks : pc'[u] \in {"pid", "spawn"} => hold'[u] # NoProc
    BY <1>1, <1>3, <1>4 DEF HeldIsFresh
  <2>3. ASSUME NEW u \in Tasks, Fresh(u)'
        PROVE  hold'[u] \in live' \ {Kernel} /\ \A v \in linked' : process'[v] # hold'[u]
    <3>1. Fresh(u) /\ hold'[u] = hold[u] /\ hold[u] # p
      BY <2>1, <2>3, <1>5
    <3>2. hold[u] \in live \ {Kernel} /\ \A v \in linked : process[v] # hold[u]
      BY <3>1, <1>1 DEF HeldIsFresh
    <3>3. \A v \in linked' : process'[v] # hold[u]
      BY <3>1, <3>2, <1>3, <1>6
    <3> QED
      BY <3>1, <3>2, <3>3, <1>3
  <2>4. ASSUME NEW u \in Tasks, NEW v \in Tasks, Fresh(u)', Fresh(v)', hold'[u] = hold'[v]
        PROVE  u = v
    BY <2>4, <2>1, <1>1 DEF HeldIsFresh
  <2> QED
    BY <2>2, <2>3, <2>4 DEF HeldIsFresh
<1>9. ProcessOutlivesThreads'
  BY <1>1, <1>3, <1>5, <1>6 DEF ProcessOutlivesThreads
<1>10. ThreadCountExact'
  <2> SUFFICES ASSUME NEW q \in live
               PROVE  thread_count'[q] = Cardinality({u \in linked' : process'[u] = q})
    BY <1>3 DEF ThreadCountExact
  <2>1. thread_count[q] = Cardinality(ThreadsOf(q)) /\ q \in Procs
    BY <1>1 DEF ThreadCountExact, ThreadsOf
  <2>2. CASE q = p
    <3>1. {u \in linked' : process'[u] = q} = ThreadsOf(q) \cup {new}
      BY <2>2, <1>3, <1>6 DEF ThreadsOf
    <3>2. new \notin ThreadsOf(q)
      BY <1>2 DEF ThreadsOf, new
    <3>3. Cardinality(ThreadsOf(q) \cup {new}) = Cardinality(ThreadsOf(q)) + 1
      BY <3>2, <1>1, ThreadsFinite, FS_AddElement
    <3> QED
      BY <3>1, <3>3, <2>1, <2>2, <1>6
  <2>3. CASE q # p
    <3>1. {u \in linked' : process'[u] = q} = ThreadsOf(q)
      BY <2>3, <1>3, <1>6 DEF ThreadsOf
    <3> QED
      BY <3>1, <2>1, <2>3, <1>6
  <2> QED
    BY <2>2, <2>3
<1>11. live' \subseteq 0 .. proc_c'
  BY <1>3 DEF ProcInv
<1> QED
  BY <1>3, <1>7, <1>8, <1>9, <1>10, <1>11 DEF ProcInv

\* Reaping a thread uncounts it, and frees its process only with the last one.
LEMMA ProcReap ==
  ASSUME IInv, ProcInv, WalkReap
  PROVE  ProcInv'
<1> DEFINE p == process[nxt]
<1>1. /\ TypeOK /\ HeldIsFresh /\ ProcessOutlivesThreads /\ ThreadCountExact
      /\ nxt \in linked /\ nxt \in Tasks /\ p \in live /\ live \subseteq Procs
  BY DEF IInv, TypeOK, ListClosed, ProcessOutlivesThreads, WalkReap, Searching
<1>2. /\ linked' = linked \ {nxt} /\ UNCHANGED <<process, proc_c>>
      /\ thread_count' = [thread_count EXCEPT ![p] = @ - 1]
      /\ live' = IF thread_count'[p] = 0 /\ p # Kernel THEN live \ {p} ELSE live
      /\ pc' = [pc EXCEPT ![nxt] = "run"] /\ hold' = [hold EXCEPT ![nxt] = NoProc]
  BY DEF WalkReap, ProcessExit
<1>3. /\ thread_count'[p] = thread_count[p] - 1
      /\ \A q \in Procs : q # p => thread_count'[q] = thread_count[q]
      /\ pc'[nxt] = "run" /\ hold'[nxt] = NoProc
      /\ \A u \in Tasks : u # nxt => pc'[u] = pc[u] /\ hold'[u] = hold[u]
  BY <1>1, <1>2 DEF TypeOK
<1> HIDE DEF p
<1>4. \A q \in Procs : {u \in linked' : process'[u] = q} = IF q = p THEN ThreadsOf(q) \ {nxt} ELSE ThreadsOf(q)
  BY <1>1, <1>2 DEF ThreadsOf, p
<1>5. ASSUME NEW q \in live
      PROVE  /\ thread_count'[q] = Cardinality({u \in linked' : process'[u] = q})
             /\ IsFiniteSet({u \in linked' : process'[u] = q})
  <2>1. thread_count[q] = Cardinality(ThreadsOf(q)) /\ q \in Procs /\ IsFiniteSet(ThreadsOf(q))
    BY <1>1, ThreadsFinite DEF ThreadCountExact, ThreadsOf
  <2>2. CASE q = p
    <3>1. nxt \in ThreadsOf(q)
      BY <2>2, <1>1 DEF ThreadsOf, p
    <3>2. /\ Cardinality(ThreadsOf(q) \ {nxt}) = Cardinality(ThreadsOf(q)) - 1
          /\ IsFiniteSet(ThreadsOf(q) \ {nxt})
      BY <3>1, <2>1, FS_RemoveElement
    <3> QED
      BY <3>2, <2>1, <2>2, <1>3, <1>4
  <2>3. CASE q # p
    BY <2>1, <2>3, <1>3, <1>4
  <2> QED
    BY <2>2, <2>3
<1>6. \A q \in Procs : q > proc_c => thread_count'[q] = 0
  <2>1. p \in 0 .. proc_c /\ proc_c \in Int /\ \A q \in Procs : q > proc_c => thread_count[q] = 0
    BY <1>1 DEF ProcInv, TypeOK, Procs
  <2>2. ASSUME NEW q \in Procs, q > proc_c PROVE q # p
    BY <2>1, <2>2
  <2> QED
    BY <2>1, <2>2, <1>3
<1>7. live' \subseteq live /\ \A q \in live : q # p \/ q = Kernel => q \in live'
  BY <1>2
<1>8. HeldIsFresh'
  <2>1. \A u \in Tasks : Fresh(u)' => Fresh(u) /\ hold'[u] = hold[u]
    BY <1>3 DEF Fresh
  <2>2. Kernel \in live' /\ \A u \in Tasks : pc'[u] \in {"pid", "spawn"} => hold'[u] # NoProc
    BY <1>1, <1>3, <1>7 DEF HeldIsFresh
  <2>3. ASSUME NEW u \in Tasks, Fresh(u)'
        PROVE  hold'[u] \in live' \ {Kernel} /\ \A v \in linked' : process'[v] # hold'[u]
    <3>1. Fresh(u) /\ hold'[u] = hold[u]
      BY <2>1, <2>3
    <3>2. hold[u] \in live \ {Kernel} /\ \A v \in linked : process[v] # hold[u]
      BY <3>1, <1>1 DEF HeldIsFresh
    <3>3. hold[u] # p
      BY <3>2, <1>1 DEF p
    <3> QED
      BY <3>1, <3>2, <3>3, <1>2, <1>7
  <2>4. ASSUME NEW u \in Tasks, NEW v \in Tasks, Fresh(u)', Fresh(v)', hold'[u] = hold'[v]
        PROVE  u = v
    BY <2>4, <2>1, <1>1 DEF HeldIsFresh
  <2> QED
    BY <2>2, <2>3, <2>4 DEF HeldIsFresh
<1>9. ProcessOutlivesThreads'
  <2> SUFFICES ASSUME NEW u \in linked' PROVE process'[u] \in live'
    BY DEF ProcessOutlivesThreads
  <2>1. process'[u] \in live
    BY <1>1, <1>2 DEF ProcessOutlivesThreads
  <2>2. CASE process'[u] # p \/ p = Kernel
    BY <2>1, <2>2, <1>7
  <2>3. CASE process'[u] = p /\ p # Kernel
    <3>1. {v \in linked' : process'[v] = p} # {}
      BY <2>3
    <3>2. thread_count'[p] # 0
      BY <3>1, <1>1, <1>5, FS_EmptySet
    <3> QED
      BY <3>2, <2>1, <2>3, <1>2
  <2> QED
    BY <2>2, <2>3
<1>10. ThreadCountExact'
  BY <1>5, <1>7 DEF ThreadCountExact
<1> QED
  BY <1>2, <1>6, <1>7, <1>8, <1>9, <1>10 DEF ProcInv

\* The process part of the invariant is kept by every step.
LEMMA ProcStep == IInv /\ [Next]_vars => ProcInv'
<1> SUFFICES ASSUME IInv, [Next]_vars PROVE ProcInv'
  OBVIOUS
<1> USE DEF taskVars, procVars, walkVars, ctlVars
<1>0. TypeOK /\ ProcInv /\ HeldIsFresh /\ ThreadCountExact /\ ProcessOutlivesThreads
  BY DEF IInv, ProcInv, Unallocated
<1>1. ASSUME NEW t \in Tasks, TaskStep(t) PROVE ProcInv'
  <2>1. CASE ProcessCreate(t)
    BY <1>0, <2>1, ProcCreate
  <2>2. CASE ProcessInit(t)
    <3>1. Fresh(t) /\ hold[t] \in live
      BY <1>0, <2>2 DEF ProcessInit, HeldIsFresh, Fresh
    <3>2. ThreadsOf(hold[t]) = {}
      BY <3>1, <1>0 DEF HeldIsFresh, ThreadsOf
    <3>3. thread_count[hold[t]] = 0
      BY <3>1, <3>2, <1>0, FS_EmptySet DEF ThreadCountExact, ThreadsOf
    <3>4. UNCHANGED thread_count
      BY <3>1, <3>3, <1>0, <2>2 DEF ProcessInit, TypeOK
    <3>5. PICK l \in {"spawn", "do"} : pc' = [pc EXCEPT ![t] = l]
      BY <2>2 DEF ProcessInit
    <3>6. \A u \in Tasks : pc'[u] \in {"pid", "spawn", "do"} =>
            /\ hold'[u] = hold[u]
            /\ pc[u] \in {"pid", "spawn", "do"}
            /\ pc'[u] \in {"pid", "spawn"} => pc[u] \in {"pid", "spawn"}
      BY <3>5, <2>2, <1>0 DEF ProcessInit, TypeOK
    <3>7. UNCHANGED <<linked, process, live, proc_c>>
      BY <2>2 DEF ProcessInit
    <3> QED
      BY <3>4, <3>6, <3>7, <1>0, ProcFrame
  <2>3. CASE ProcessCreateNoMem(t)
    <3>1. CASE pc[t] = "run"
      <4>1. /\ UNCHANGED <<linked, process, live, thread_count, proc_c>>
            /\ UNCHANGED hold /\ pc' = [pc EXCEPT ![t] = "do"]
        BY <2>3, <3>1 DEF ProcessCreateNoMem
      <4>2. hold[t] = NoProc
        BY <3>1 DEF IInv, HoldsOnlySpawning
      <4>3. pc'[t] = "do" /\ \A u \in Tasks : u # t => pc'[u] = pc[u]
        BY <4>1, <1>0 DEF TypeOK
      <4>4. \A u \in Tasks : (Fresh(u)' <=> Fresh(u)) /\ (pc'[u] \in {"pid", "spawn"} => pc[u] \in {"pid", "spawn"})
        BY <4>1, <4>2, <4>3, <3>1 DEF Fresh
      <4> QED
        BY <4>1, <4>4, <1>0 DEF ProcInv, HeldIsFresh, ProcessOutlivesThreads, ThreadCountExact
    <3>2. CASE pc[t] = "pid"
      <4>1. PICK l \in {"run", "do"} : pc' = [pc EXCEPT ![t] = l]
        BY <2>3, <3>2 DEF ProcessCreateNoMem
      <4>2. /\ live' = live \ {hold[t]} /\ hold' = [hold EXCEPT ![t] = NoProc]
            /\ UNCHANGED <<linked, process, thread_count, proc_c>>
        BY <2>3, <3>2 DEF ProcessCreateNoMem
      <4>3. Fresh(t) /\ l \in Labels \ {"pid", "spawn"}
        BY <3>2, <1>0 DEF Fresh, HeldIsFresh, Labels
      <4> QED
        BY <4>1, <4>2, <4>3, <1>0, ProcDrop
    <3> QED
      BY <2>3, <3>1, <3>2 DEF ProcessCreateNoMem
  <2>4. CASE TaskCreate(t)
    BY <1>0, <2>4, ProcThread
  <2>5. CASE TaskCreateNoMem(t)
    <3>0. /\ hold' = [hold EXCEPT ![t] = NoProc] /\ pc' = [pc EXCEPT ![t] = "run"]
          /\ UNCHANGED <<linked, process, thread_count, proc_c>>
      BY <2>5 DEF TaskCreateNoMem
    <3>1. CASE pc[t] = "spawn"
      <4>0. hold[t] # Kernel
        BY <3>1, <1>0 DEF HeldIsFresh, Fresh
      <4>1. live' = live \ {hold[t]}
        BY <2>5, <3>1, <4>0 DEF TaskCreateNoMem, ProcessExit
      <4>2. Fresh(t) /\ "run" \in Labels \ {"pid", "spawn"}
        BY <3>1, <1>0 DEF Fresh, HeldIsFresh, Labels
      <4> QED
        BY <3>0, <4>1, <4>2, <1>0, ProcDrop
    <3>2. CASE pc[t] = "do"
      <4>1. UNCHANGED live
        BY <2>5, <3>2 DEF TaskCreateNoMem
      <4>2. \A u \in Tasks : pc'[u] \in {"pid", "spawn", "do"} => u # t /\ pc'[u] = pc[u] /\ hold'[u] = hold[u]
        BY <3>0, <1>0 DEF TypeOK
      <4> QED
        BY <3>0, <4>1, <4>2, <1>0, ProcFrame
    <3> QED
      BY <2>5, <3>1, <3>2 DEF TaskCreateNoMem
  <2>6. CASE SpawnWaitDone(t) \/ SpawnReturn(t) \/ ThreadExit(t) \/ BlockCurrent(t) \/ BlockYield(t) \/ BlockReturn(t)
    <3>1. UNCHANGED <<linked, process, live, thread_count, proc_c>>
      BY <2>6 DEF SpawnWaitDone, SpawnReturn, ThreadExit, BlockCurrent, BlockYield, BlockReturn, RunNextBegin
    <3>2. \A u \in Tasks : pc'[u] \in {"pid", "spawn", "do"} => u # t /\ pc'[u] = pc[u] /\ hold'[u] = hold[u]
      BY <2>6, <1>0 DEF TypeOK, SpawnWaitDone, SpawnReturn, ThreadExit, BlockCurrent, BlockYield, BlockReturn, RunNextBegin
    <3> QED
      BY <3>1, <3>2, <1>0, ProcFrame
  <2>7. CASE KillChildren(t) \/ (\E n \in 1 .. MaxProc : KillProcess(t, n)) \/ (\E u \in linked : Unblock(t, u))
    <3>1. UNCHANGED <<linked, process, live, thread_count, proc_c, pc, hold>>
      BY <2>7 DEF KillChildren, KillProcess, Unblock
    <3> QED
      BY <3>1, <1>0, ProcFrame
  <2> QED
    BY <1>1, <2>1, <2>2, <2>3, <2>4, <2>5, <2>6, <2>7 DEF TaskStep
<1>2. CASE WalkReap
  BY <1>0, <1>2, ProcReap
<1>3. CASE IdleWake \/ IdleClear \/ Preempt \/ (Walk /\ ~WalkReap) \/ UNCHANGED vars
  <2>1. UNCHANGED <<linked, process, live, thread_count, proc_c, pc, hold>>
    BY <1>3 DEF IdleWake, IdleClear, Preempt, RunNextBegin, Walk, WalkSkip, WalkDefer, WalkDispatch,
       WalkWrapSwitch, WalkWrapStay, WalkEnd, vars
  <2> QED
    BY <2>1, <1>0, ProcFrame
<1> QED
  BY <1>1, <1>2, <1>3 DEF Next, Walk

\* No step leaves a process in the hands of a task that is back in its own code.
LEMMA HoldStep == IInv /\ [Next]_vars => HoldsOnlySpawning'
<1> SUFFICES ASSUME IInv, [Next]_vars, NEW u \in Tasks, pc'[u] \in {"run", "block", "resume"}
             PROVE  hold'[u] = NoProc
  BY DEF HoldsOnlySpawning
<1> USE DEF taskVars, procVars, walkVars, ctlVars
<1>0. TypeOK /\ (pc[u] \in {"run", "block", "resume"} => hold[u] = NoProc)
  BY DEF IInv, HoldsOnlySpawning
<1>1. ASSUME NEW t \in Tasks, TaskStep(t) PROVE hold'[u] = NoProc
  <2>1. CASE ProcessCreate(t) \/ ProcessInit(t)
    BY <2>1, <1>0 DEF ProcessCreate, ProcessInit, TypeOK
  <2>2. CASE ProcessCreateNoMem(t)
    BY <2>2, <1>0 DEF ProcessCreateNoMem, TypeOK
  <2>3. CASE TaskCreate(t) \/ TaskCreateNoMem(t)
    BY <2>3, <1>0 DEF TaskCreate, TaskCreateNoMem, TypeOK
  <2>4. CASE SpawnWaitDone(t) \/ SpawnReturn(t)
    BY <2>4, <1>0 DEF SpawnWaitDone, SpawnReturn, TypeOK
  <2>5. CASE ThreadExit(t) \/ BlockCurrent(t) \/ BlockYield(t) \/ BlockReturn(t)
    BY <2>5, <1>0 DEF ThreadExit, BlockCurrent, BlockYield, BlockReturn, RunNextBegin, TypeOK
  <2>6. CASE KillChildren(t) \/ (\E n \in 1 .. MaxProc : KillProcess(t, n)) \/ (\E v \in linked : Unblock(t, v))
    BY <2>6, <1>0 DEF KillChildren, KillProcess, Unblock
  <2> QED
    BY <1>1, <2>1, <2>2, <2>3, <2>4, <2>5, <2>6 DEF TaskStep
<1>2. CASE WalkReap
  BY <1>2, <1>0 DEF WalkReap, TypeOK
<1>3. CASE IdleWake \/ IdleClear \/ Preempt \/ (Walk /\ ~WalkReap) \/ UNCHANGED vars
  BY <1>3, <1>0 DEF IdleWake, IdleClear, Preempt, RunNextBegin, Walk, WalkSkip, WalkDefer, WalkDispatch,
     WalkWrapSwitch, WalkWrapStay, WalkEnd, vars
<1> QED
  BY <1>1, <1>2, <1>3 DEF Next, Walk

------------------------------------------------------------------------------
(* The theorems *)

\* Every step keeps the invariant.
LEMMA InvStep == IInv /\ [Next]_vars => IInv'
  BY TypeStep, ListStep, ProcStep, HoldStep DEF IInv, ListInv, ProcInv, Unallocated

\* The invariant holds in every reachable state.
LEMMA Invariance == Spec => []IInv
  BY InitInv, InvStep, PTL DEF Spec

\* The scheduler's variables keep their types.
THEOREM TypeCorrect == Spec => []TypeOK
<1>1. IInv => TypeOK
  BY DEF IInv
<1> QED
  BY <1>1, Invariance, PTL

\* The task list never leads to freed memory and stays one ring, for any number
\* of tasks, whatever is inserted, killed and reaped and wherever the timer
\* interrupts, so a walk of sched_run_next meets every task.
THEOREM ListStaysIntact == Spec => []ListIntact
<1>1. IInv => ListIntact
  BY DEF IInv, ListIntact
<1> QED
  BY <1>1, Invariance, PTL

\* thread_count always counts the threads on the list, and process_exit never
\* frees a process that some thread on the list still uses.
THEOREM ThreadsStayCounted == Spec => []ThreadsCounted
<1>1. IInv => ThreadsCounted
  BY DEF IInv, ThreadsCounted
<1> QED
  BY <1>1, Invariance, PTL

\* sched_run_next never gives the CPU to a blocked or dead task.
THEOREM SwitchesToRunnable == Spec => SwitchToRunnable
<1>1. IInv /\ [Next]_vars => [current_task' # current_task => Runnable(current_task')]_vars
  <2> SUFFICES ASSUME IInv, Next, current_task' # current_task PROVE Runnable(current_task')
    BY DEF vars
  <2> USE DEF taskVars, procVars, walkVars, ctlVars
  <2>1. WalkDispatch \/ WalkWrapSwitch
    BY DEF Next, TaskStep, ProcessCreate, ProcessInit, ProcessCreateNoMem, TaskCreate,
       TaskCreateNoMem, SpawnWaitDone, SpawnReturn, ThreadExit, BlockCurrent, BlockYield,
       BlockReturn, KillChildren, KillProcess, Unblock, IdleWake, IdleClear, Preempt,
       RunNextBegin, Walk, WalkReap, WalkSkip, WalkDefer, WalkWrapStay
  <2> QED
    BY <2>1 DEF WalkDispatch, WalkWrapSwitch, Fallback
<1> QED
  BY <1>1, Invariance, PTL DEF Spec, SwitchToRunnable

\* A task that another task killed is never revived and never runs again.
THEOREM KilledIsDead == Spec => KilledStaysDead
<1> DEFINE Stays == \A t \in linked : state[t] = "DEAD" /\ t # current_task
                      => state'[t] = "DEAD" /\ current_task' # t
<1>1. IInv /\ [Next]_vars => [Stays]_vars
  <2> SUFFICES ASSUME IInv, Next, NEW t \in linked, state[t] = "DEAD", t # current_task
               PROVE  state'[t] = "DEAD" /\ current_task' # t
    OBVIOUS
  <2> USE DEF taskVars, procVars, walkVars, ctlVars
  <2>1. TypeOK /\ linked \subseteq 0 .. task_c /\ t \in Tasks
    BY DEF IInv, Unallocated, TypeOK
  <2>2. state'[t] = "DEAD"
    <3>1. ASSUME NEW u \in Tasks, TaskStep(u) PROVE state'[t] = "DEAD"
      <4>1. CASE TaskCreate(u)
        <5>1. t # task_c + 1
          BY <2>1, BoundsAssumption DEF BoundsAssumption, TypeOK, Tasks
        <5> QED
          BY <5>1, <4>1, <2>1 DEF TaskCreate, TypeOK
      <4>2. CASE ThreadExit(u) \/ BlockCurrent(u)
        BY <4>2, <2>1 DEF ThreadExit, BlockCurrent, Running, TypeOK
      <4>3. CASE KillChildren(u) \/ (\E n \in 1 .. MaxProc : KillProcess(u, n))
        BY <4>3, <2>1 DEF KillChildren, KillProcess, TypeOK
      <4>4. CASE \E v \in linked : Unblock(u, v)
        BY <4>4, <2>1 DEF Unblock, TypeOK
      <4> QED
        BY <3>1, <4>1, <4>2, <4>3, <4>4 DEF TaskStep, ProcessCreate, ProcessInit, ProcessCreateNoMem,
           TaskCreateNoMem, SpawnWaitDone, SpawnReturn, BlockYield, BlockReturn, RunNextBegin
    <3> QED
      BY <3>1 DEF Next, IdleWake, IdleClear, Preempt, RunNextBegin, Walk, WalkReap, WalkSkip,
         WalkDefer, WalkDispatch, WalkWrapSwitch, WalkWrapStay, WalkEnd
  <2>3. current_task' # t
    <3>1. CASE WalkDispatch \/ WalkWrapSwitch
      BY <3>1 DEF WalkDispatch, WalkWrapSwitch, Fallback, Runnable
    <3> QED
      BY <3>1 DEF Next, TaskStep, ProcessCreate, ProcessInit, ProcessCreateNoMem, TaskCreate,
         TaskCreateNoMem, SpawnWaitDone, SpawnReturn, ThreadExit, BlockCurrent, BlockYield,
         BlockReturn, KillChildren, KillProcess, Unblock, IdleWake, IdleClear, Preempt,
         RunNextBegin, Walk, WalkReap, WalkSkip, WalkDefer, WalkWrapStay
  <2> QED
    BY <2>2, <2>3
<1> QED
  BY <1>1, Invariance, PTL DEF Spec, KilledStaysDead
------------------------------------------------------------------------------
(* What a search that finds nobody has met *)

\* The boot thread is never blocked nor killed: it belongs to the kernel
\* process, whose pid and parent nobody can name.
BootRuns ==
  /\ process[Root] = Kernel /\ pid[Kernel] = 0 /\ parent[Kernel] = -1
  /\ Runnable(Root)

\* What a search has met: the tasks from the current one to prev.
Met(V) ==
  /\ {current_task, prev} \subseteq V
  /\ \A t \in V \ {prev} : next[t] \in V
  /\ \A t \in V \ {current_task, Root} : ~Runnable(t)
  /\ Root \in V \ {current_task} => idle_task = Root

Searched == walking => \E V \in SUBSET linked : Met(V)

\* A task that is BLOCKED and has the CPU is on its way to sched_run_next.
BlockedYields ==
  ~walking /\ state[current_task] = "BLOCKED" => pc[current_task] = "block"

\* A process has one thread; only the kernel process may have more.
OneThread ==
  \A u, v \in linked : process[u] = process[v] /\ process[u] # Kernel => u = v

PInv == IInv /\ BootRuns /\ Searched /\ BlockedYields /\ OneThread
------------------------------------------------------------------------------
\* The process table at boot satisfies the invariant.
LEMMA PolicyInitInv == Init => PInv
<1> SUFFICES ASSUME Init PROVE PInv
  OBVIOUS
<1>1. IInv
  BY InitInv
<1>2. BootRuns /\ Searched /\ BlockedYields /\ OneThread
  BY BoundsAssumption DEF BoundsAssumption, Init, BootRuns, Searched, BlockedYields, OneThread, Runnable,
     Root, Kernel, NoProc, Tasks, Procs
<1> QED
  BY <1>1, <1>2 DEF PInv

\* Only a walk goes on while a search is under way, and only the timer or a
\* task that blocks begins one.
LEMMA WhileWalking ==
  ASSUME walking, Next
  PROVE  Walk
<1> QED
  BY DEF Next, TaskStep, Running, ProcessCreate, ProcessInit, ProcessCreateNoMem, TaskCreate,
     TaskCreateNoMem, SpawnWaitDone, SpawnReturn, ThreadExit, BlockCurrent, BlockYield,
     BlockReturn, KillChildren, KillProcess, Unblock, IdleWake, IdleClear, Preempt, RunNextBegin

\* A search that is back at its start has met every task, so a task that cannot
\* go on has somebody to fall back to: the boot thread.
LEMMA WholeRing ==
  ASSUME PInv, walking, nxt = current_task
  PROVE  /\ \A t \in linked \ {current_task, Root} : ~Runnable(t)
         /\ Runnable(current_task) \/ (Fallback(Root) /\ idle_task = Root)
<1>1. PICK V \in SUBSET linked : Met(V)
  BY DEF PInv, Searched
<1>2. \A t \in V : next[t] \in V
  BY <1>1 DEF Met, PInv, IInv, ListClosed
<1>3. V = linked
  BY <1>1, <1>2 DEF Met, PInv, IInv, OneRing
<1>4. Root \in linked /\ Runnable(Root)
  BY DEF PInv, BootRuns, IInv, ListClosed
<1>5. CASE current_task = Root
  BY <1>1, <1>3, <1>4, <1>5 DEF Met
<1>6. CASE current_task # Root
  <2>1. idle_task = Root
    BY <1>1, <1>3, <1>4, <1>6 DEF Met
  <2>2. Fallback(Root)
    BY <2>1, <1>4, <1>6 DEF Fallback, NoTask, Root
  <2> QED
    BY <2>1, <2>2, <1>1, <1>3 DEF Met
<1> QED
  BY <1>5, <1>6

\* However a search ends, the task that has the CPU then is runnable.
LEMMA EndsRunnable ==
  ASSUME PInv, Walk, ~walking'
  PROVE  Runnable(current_task)'
<1> USE DEF taskVars, procVars, walkVars, ctlVars
<1>1. walking /\ state' = state
  BY DEF Walk, WalkReap, WalkSkip, WalkDefer, WalkDispatch, WalkWrapSwitch, WalkWrapStay, WalkEnd, Searching
<1>2. CASE WalkDispatch
  BY <1>1, <1>2 DEF WalkDispatch, Runnable
<1>3. CASE WalkWrapSwitch
  BY <1>1, <1>3 DEF WalkWrapSwitch, Fallback, Runnable
<1>4. CASE WalkWrapStay
  <2>1. Runnable(current_task)
    BY <1>1, <1>4, WholeRing DEF WalkWrapStay, PInv, IInv, ListClosed
  <2> QED
    BY <2>1, <1>1, <1>4 DEF WalkWrapStay, Runnable
<1> QED
  BY <1>1, <1>2, <1>3, <1>4 DEF Walk, WalkReap, WalkSkip, WalkDefer, Searching

\* A task that runs is the current one, on the list, and no search is under way.
LEMMA TaskStepBy ==
  ASSUME PInv, NEW t \in Tasks, TaskStep(t)
  PROVE  t = current_task /\ t \in linked /\ ~walking
  BY DEF PInv, IInv, ListClosed, TaskStep, Running, ProcessCreate, ProcessInit, ProcessCreateNoMem,
     TaskCreate, TaskCreateNoMem, SpawnWaitDone, SpawnReturn, ThreadExit, BlockCurrent, BlockYield,
     BlockReturn, KillChildren, KillProcess, Unblock

\* The boot thread stays runnable.
LEMMA BootRunsStep == PInv /\ [Next]_vars => BootRuns'
<1> SUFFICES ASSUME PInv, [Next]_vars PROVE BootRuns'
  OBVIOUS
<1> USE DEF taskVars, procVars, walkVars, ctlVars
<1>0. /\ TypeOK /\ HeldIsFresh /\ Root \in linked /\ Root \in Tasks /\ Kernel \in Procs
      /\ process[Root] = Kernel /\ pid[Kernel] = 0 /\ parent[Kernel] = -1 /\ Runnable(Root)
  BY BoundsAssumption DEF BoundsAssumption, PInv, IInv, BootRuns, ListClosed, Root, Kernel, Tasks, Procs
<1>1. ASSUME NEW t \in Tasks, TaskStep(t) PROVE BootRuns'
  <2>1. CASE ProcessInit(t)
    <3>1. hold[t] # Kernel
      BY <2>1, <1>0, <1>1 DEF HeldIsFresh, Fresh, ProcessInit
    <3> QED
      BY <3>1, <2>1, <1>0 DEF TypeOK, ProcessInit, BootRuns, Runnable
  <2>2. CASE TaskCreate(t)
    <3>1. task_c + 1 # Root /\ task_c + 1 \in Nat
      BY <1>0, BoundsAssumption DEF BoundsAssumption, TypeOK, Tasks, Root
    <3> QED
      BY <3>1, <2>2, <1>0 DEF TypeOK, TaskCreate, BootRuns, Runnable
  <2>3. CASE ThreadExit(t) \/ BlockCurrent(t)
    BY <2>3, <1>0 DEF TypeOK, ThreadExit, BlockCurrent, BootRuns, Runnable
  <2>4. CASE KillChildren(t)
    <3>1. pid[process[t]] > 0 => parent[process[Root]] # pid[process[t]]
      BY <1>0
    <3> QED
      BY <3>1, <2>4, <1>0 DEF TypeOK, KillChildren, BootRuns, Runnable
  <2>5. CASE \E n \in 1 .. MaxProc : KillProcess(t, n)
    <3>1. PICK n \in 1 .. MaxProc : KillProcess(t, n)
      BY <2>5
    <3>2. Root \notin KillTargets(n)
      BY <3>1, <1>0, BoundsAssumption DEF BoundsAssumption, KillTargets
    <3> QED
      BY <3>1, <3>2, <1>0 DEF TypeOK, KillProcess, BootRuns, Runnable
  <2>6. CASE \E u \in linked : Unblock(t, u)
    BY <2>6, <1>0 DEF TypeOK, Unblock, BootRuns, Runnable
  <2>7. CASE ProcessCreate(t) \/ ProcessCreateNoMem(t) \/ TaskCreateNoMem(t) \/ SpawnWaitDone(t)
             \/ SpawnReturn(t) \/ BlockYield(t) \/ BlockReturn(t)
    BY <2>7, <1>0 DEF ProcessCreate, ProcessCreateNoMem, TaskCreateNoMem, SpawnWaitDone, SpawnReturn,
       BlockYield, BlockReturn, RunNextBegin, BootRuns, Runnable
  <2> QED
    BY <1>1, <2>1, <2>2, <2>3, <2>4, <2>5, <2>6, <2>7 DEF TaskStep
<1>2. CASE IdleWake \/ IdleClear \/ Preempt \/ Walk \/ UNCHANGED vars
  BY <1>2, <1>0 DEF IdleWake, IdleClear, Preempt, RunNextBegin, Walk, WalkReap, WalkSkip, WalkDefer,
     WalkDispatch, WalkWrapSwitch, WalkWrapStay, WalkEnd, vars, BootRuns, Runnable
<1> QED
  BY <1>1, <1>2 DEF Next

\* Every turn of the search adds the task it passes over, and takes out the one
\* it reaps.
LEMMA SearchStep == PInv /\ [Next]_vars => Searched'
<1> SUFFICES ASSUME PInv, [Next]_vars, walking' PROVE \E V \in SUBSET linked' : Met(V)'
  BY DEF Searched
<1> USE DEF taskVars, procVars, walkVars, ctlVars
<1>0. /\ TypeOK /\ ListClosed /\ NextInjective /\ OneRing /\ Runnable(Root)
  BY DEF PInv, IInv, BootRuns
<1>1. CASE ~walking
  <2>1. RunNextBegin
    BY <1>1, ZenonT(60) DEF Next, TaskStep, ProcessCreate, ProcessInit, ProcessCreateNoMem, TaskCreate,
       TaskCreateNoMem, SpawnWaitDone, SpawnReturn, ThreadExit, BlockCurrent, BlockYield, BlockReturn,
       KillChildren, KillProcess, Unblock, IdleWake, IdleClear, Preempt, Walk, WalkReap,
       WalkSkip, WalkDefer, WalkDispatch, WalkWrapSwitch, WalkWrapStay, WalkEnd, Searching, vars
  <2> DEFINE W == {current_task}
  <2>2. /\ W \in SUBSET linked' /\ {current_task', prev'} \subseteq W
        /\ W \ {prev'} = {} /\ W \ {current_task'} = {}
    BY <2>1, <1>0 DEF RunNextBegin, ListClosed
  <2> HIDE DEF W
  <2> QED
    BY <2>2 DEF Met
<1>2. CASE walking
  <2>1. PICK V \in SUBSET linked : Met(V)
    BY <1>2 DEF PInv, Searched
  <2>2. prev \in linked /\ next[prev] = nxt /\ nxt \in linked
    BY <1>0, <1>2 DEF ListClosed
  <2>3. CASE WalkReap
    <3>1. nxt # current_task /\ nxt # Root
      BY <2>3 DEF WalkReap, Searching, Reapable
    <3>2. nxt # prev
      <4> SUFFICES ASSUME nxt = prev PROVE FALSE
        OBVIOUS
      <4>2. {prev} \in SUBSET linked /\ {prev} # {} /\ \A t \in {prev} : next[t] \in {prev}
        BY <2>2
      <4>3. {prev} = linked
        BY <4>2, <1>0 DEF OneRing
      <4> QED
        BY <4>3, <3>1, <1>0 DEF ListClosed
    <3> DEFINE W == V \ {nxt}
    <3>3. W \in SUBSET linked' /\ {current_task, prev} \subseteq W
      BY <2>1, <2>3, <3>1, <3>2 DEF Met, WalkReap
    <3>4. ASSUME NEW t \in W \ {prev} PROVE next'[t] \in W
      <4>1. next[t] \in V /\ t \in linked /\ next[t] # nxt
        BY <2>1, <2>2, <1>0 DEF Met, NextInjective
      <4>2. next'[t] = next[t]
        BY <2>3, <1>0, <4>1 DEF WalkReap, TypeOK
      <4> QED
        BY <4>1, <4>2
    <3>5. UNCHANGED <<state, current_task, prev, idle_task>>
      BY <2>3 DEF WalkReap
    <3> HIDE DEF W
    <3>6. /\ \A t \in W \ {current_task', Root} : state'[t] \notin {"READY", "RUNNING"}
          /\ Root \in W \ {current_task'} => idle_task' = Root
      BY <2>1, <3>5 DEF Met, Runnable, W
    <3> QED
      BY <3>3, <3>4, <3>5, <3>6 DEF Met, Runnable
  <2>4. CASE WalkSkip \/ WalkDefer
    <3> DEFINE W == V \cup {nxt}
    <3>1. /\ UNCHANGED <<linked, next, state, current_task>> /\ prev' = nxt
          /\ nxt # current_task
      BY <2>4 DEF WalkSkip, WalkDefer, Searching
    <3>2. nxt # Root => ~Runnable(nxt)
      BY <2>4 DEF WalkSkip, WalkDefer, DeferIdle
    <3>3. /\ nxt = Root => idle_task' = Root
          /\ idle_task' = idle_task \/ idle_task' = Root
      BY <2>4, <1>0 DEF WalkSkip, WalkDefer, DeferIdle
    <3>4. /\ W \in SUBSET linked' /\ {current_task', prev'} \subseteq W
          /\ \A t \in W \ {prev'} : next'[t] \in W
      BY <2>1, <2>2, <3>1 DEF Met
    <3>5. /\ \A t \in W \ {current_task', Root} : state'[t] \notin {"READY", "RUNNING"}
          /\ Root \in W \ {current_task'} => idle_task' = Root
      BY <2>1, <3>1, <3>2, <3>3 DEF Met, Runnable
    <3> HIDE DEF W
    <3> QED
      BY <3>4, <3>5 DEF Met, Runnable
  <2>5. CASE UNCHANGED vars
    BY <2>1, <2>5 DEF Met, Runnable, vars
  <2> QED
    BY <1>2, <2>3, <2>4, <2>5, WhileWalking DEF Walk, WalkDispatch, WalkWrapSwitch, WalkWrapStay, WalkEnd
<1> QED
  BY <1>1, <1>2 DEF PInv, IInv, TypeOK

\* A task with the CPU that becomes BLOCKED goes to sched_run_next, and whoever
\* has the CPU after that is runnable.
LEMMA BlockStep == PInv /\ [Next]_vars => BlockedYields'
<1> SUFFICES ASSUME PInv, [Next]_vars, ~walking', (state[current_task] = "BLOCKED")'
             PROVE  (pc[current_task] = "block")'
  BY DEF BlockedYields
<1> USE DEF taskVars, procVars, walkVars, ctlVars
<1>0. /\ TypeOK /\ BlockedYields /\ current_task \in linked /\ linked \subseteq 0 .. task_c
  BY DEF PInv, IInv, ListClosed, Unallocated
<1>1. ASSUME NEW t \in Tasks, TaskStep(t) PROVE (pc[current_task] = "block")'
  <2>1. t = current_task /\ ~walking
    BY <1>1, TaskStepBy
  <2>2. CASE BlockCurrent(t)
    BY <2>1, <2>2, <1>0 DEF BlockCurrent, TypeOK
  <2>3. CASE TaskCreate(t)
    <3>1. t # task_c + 1
      BY <2>1, <1>0, BoundsAssumption DEF BoundsAssumption, TypeOK, Tasks
    <3> QED
      BY <2>1, <2>3, <3>1, <1>0 DEF TaskCreate, BlockedYields, TypeOK
  <2>4. CASE ThreadExit(t)
    BY <2>1, <2>4, <1>0 DEF ThreadExit, TypeOK
  <2>5. CASE KillChildren(t) \/ \E n \in 1 .. MaxProc : KillProcess(t, n)
    BY <2>1, <2>5, <1>0 DEF KillChildren, KillProcess, BlockedYields, TypeOK
  <2>6. CASE \E u \in linked : Unblock(t, u)
    BY <2>1, <2>6, <1>0 DEF Unblock, BlockedYields, TypeOK
  <2>7. CASE ProcessCreate(t) \/ ProcessInit(t) \/ ProcessCreateNoMem(t) \/ TaskCreateNoMem(t)
             \/ SpawnWaitDone(t) \/ SpawnReturn(t) \/ BlockYield(t) \/ BlockReturn(t)
    BY <2>1, <2>7, <1>0 DEF ProcessCreate, ProcessInit, ProcessCreateNoMem, TaskCreateNoMem,
       SpawnWaitDone, SpawnReturn, BlockYield, BlockReturn, RunNextBegin, BlockedYields, TypeOK
  <2> QED
    BY <1>1, <2>2, <2>3, <2>4, <2>5, <2>6, <2>7 DEF TaskStep
<1>2. CASE IdleWake \/ IdleClear \/ Preempt \/ UNCHANGED vars
  BY <1>2, <1>0 DEF IdleWake, IdleClear, Preempt, RunNextBegin, BlockedYields, vars
<1>3. CASE Walk
  BY <1>3, EndsRunnable DEF Runnable
<1> QED
  BY <1>1, <1>2, <1>3 DEF Next

\* Only a process without threads gets one, but for the kernel process.
LEMMA OneThreadStep == PInv /\ [Next]_vars => OneThread'
<1> SUFFICES ASSUME PInv, [Next]_vars PROVE OneThread'
  OBVIOUS
<1> USE DEF taskVars, procVars, walkVars, ctlVars
<1>0. TypeOK /\ HeldIsFresh /\ OneThread /\ linked \subseteq 0 .. task_c
  BY DEF PInv, IInv, Unallocated
<1>1. ASSUME NEW t \in Tasks, TaskCreate(t) PROVE OneThread'
  <2> DEFINE new == task_c + 1
             p == IF hold[t] = NoProc THEN Kernel ELSE hold[t]
  <2>1. new \in Tasks /\ new \notin linked
    BY <1>0, <1>1, BoundsAssumption DEF BoundsAssumption, TaskCreate, TypeOK, Tasks
  <2>2. process' = [process EXCEPT ![new] = p] /\ linked' = linked \cup {new}
    BY <1>1 DEF TaskCreate
  <2>3. p = Kernel \/ \A u \in linked : process[u] # p
    BY <1>0, <1>1 DEF TaskCreate, HeldIsFresh, Fresh
  <2>4. process'[new] = p /\ \A u \in linked : process'[u] = process[u]
    BY <1>0, <2>1, <2>2 DEF TypeOK
  <2> QED
    BY <2>2, <2>3, <2>4, <1>0 DEF OneThread
<1>2. CASE ~\E t \in Tasks : TaskCreate(t)
  <2>1. process' = process /\ linked' \subseteq linked
    BY <1>2 DEF Next, TaskStep, ProcessCreate, ProcessInit, ProcessCreateNoMem, TaskCreateNoMem,
       SpawnWaitDone, SpawnReturn, ThreadExit, BlockCurrent, BlockYield, BlockReturn, KillChildren,
       KillProcess, Unblock, IdleWake, IdleClear, Preempt, RunNextBegin, Walk, WalkReap, WalkSkip,
       WalkDefer, WalkDispatch, WalkWrapSwitch, WalkWrapStay, WalkEnd, vars
  <2> QED
    BY <2>1, <1>0 DEF OneThread
<1> QED
  BY <1>1, <1>2

\* Every step keeps the invariant of the process table.
LEMMA PolicyInvStep == PInv /\ [Next]_vars => PInv'
<1>1. PInv /\ [Next]_vars => IInv'
  BY InvStep DEF PInv
<1> QED
  BY <1>1, BootRunsStep, SearchStep, BlockStep, OneThreadStep DEF PInv

\* So the invariant of the process table always holds.
LEMMA PolicyInvariance == Spec => []PInv
  BY PolicyInitInv, PolicyInvStep, PTL DEF Spec

------------------------------------------------------------------------------
(* The theorems *)

\* The tasks SchedPolicy knows of.
ReadyTasks == {t \in linked : Runnable(t)}

\* Nothing but a switch gives the CPU to another task, and nothing but the
\* handlers and the main loop changes the wakeup flag.
LEMMA ReadyAlone ==
  ASSUME PInv, PInv', UNCHANGED <<current_task, sched_idle_needs_run>>
  PROVE  [Policy!PolicyNext]_(Policy!policyVars)
<1>1. Root \in ReadyTasks' /\ ReadyTasks' \subseteq Tasks
  BY DEF PInv, IInv, TypeOK, BootRuns, ListClosed, ReadyTasks, Runnable
<1> DEFINE R == ReadyTasks' \ {Root}
<1>2. R \in SUBSET (Tasks \ {Root}) /\ ReadyTasks' = R \cup {Root}
  BY <1>1
<1> HIDE DEF R
<1>3. Policy!SetReady
  BY <1>2 DEF Policy!SetReady, ReadyTasks
<1> QED
  BY <1>3 DEF Policy!PolicyNext

\* Every step of the scheduler is a step of the policy, or none.
LEMMA PolicyStep == PInv /\ PInv' /\ [Next]_vars => [Policy!PolicyNext]_(Policy!policyVars)
<1> SUFFICES ASSUME PInv, PInv', [Next]_vars PROVE [Policy!PolicyNext]_(Policy!policyVars)
  OBVIOUS
<1> USE DEF taskVars, procVars, walkVars, ctlVars
<1>1. ASSUME NEW t \in Tasks, TaskStep(t) PROVE UNCHANGED <<current_task, sched_idle_needs_run>>
  BY <1>1 DEF TaskStep, ProcessCreate, ProcessInit, ProcessCreateNoMem, TaskCreate, TaskCreateNoMem,
     SpawnWaitDone, SpawnReturn, ThreadExit, BlockCurrent, BlockYield, BlockReturn, RunNextBegin,
     KillChildren, KillProcess, Unblock
<1>2. CASE Preempt \/ WalkReap \/ WalkSkip \/ WalkDefer \/ WalkWrapStay \/ UNCHANGED vars
  <2>1. UNCHANGED <<current_task, sched_idle_needs_run>>
    BY <1>2 DEF Preempt, RunNextBegin, WalkReap, WalkSkip, WalkDefer, WalkWrapStay, WalkEnd, vars
  <2> QED
    BY <2>1, ReadyAlone
<1>3. CASE IdleWake
  BY <1>3 DEF IdleWake, Runnable, Policy!Wake, Policy!PolicyNext
<1>4. CASE IdleClear
  BY <1>4 DEF IdleClear, Running, Runnable, Policy!Clear, Policy!PolicyNext
<1>5. CASE WalkDispatch \/ WalkWrapSwitch
  <2>1. /\ UNCHANGED <<linked, state, sched_idle_needs_run>>
        /\ walking /\ current_task' # current_task
        /\ current_task' \in linked /\ Runnable(current_task')
    BY <1>5 DEF WalkDispatch, WalkWrapSwitch, WalkEnd, Searching, Fallback, PInv, IInv, ListClosed
  <2>2. current_task' = Root => sched_idle_needs_run \/ ReadyTasks = {Root}
    <3> SUFFICES ASSUME current_task' = Root PROVE sched_idle_needs_run \/ ReadyTasks = {Root}
      OBVIOUS
    <3>1. CASE WalkDispatch
      BY <3>1 DEF WalkDispatch, DeferIdle
    <3>2. CASE WalkWrapSwitch
      <4>1. ~Runnable(current_task) /\ \A t \in linked \ {current_task, Root} : ~Runnable(t)
        BY <3>2, WholeRing DEF WalkWrapSwitch
      <4>2. Root \in linked /\ Runnable(Root)
        BY DEF PInv, BootRuns, IInv, ListClosed
      <4> QED
        BY <4>1, <4>2 DEF ReadyTasks
    <3> QED
      BY <1>5, <3>1, <3>2
  <2>3. current_task' \in Tasks
    BY <2>1 DEF PInv, IInv, TypeOK
  <2>4. Policy!Switch(current_task')
    BY <2>1, <2>2 DEF Policy!Switch, ReadyTasks, Runnable
  <2> QED
    BY <2>3, <2>4 DEF Policy!PolicyNext
<1> QED
  BY <1>1, <1>2, <1>3, <1>4, <1>5, ReadyAlone DEF Next, Walk

\* sched_run_next implements its policy: it gives the CPU to runnable tasks only,
\* and to the boot thread only when input waits or nothing else can run.
THEOREM ImplementsPolicy == Spec => KeepsPolicy
<1>1. Init => Policy!PolicyInit
  <2> SUFFICES ASSUME Init PROVE Policy!PolicyInit
    OBVIOUS
  <2>1. {t \in linked : Runnable(t)} = {Root}
    BY BoundsAssumption DEF BoundsAssumption, Init, Runnable, Root, Tasks
  <2> QED
    BY <2>1 DEF Init, Policy!PolicyInit
<1> QED
  BY <1>1, PolicyStep, PolicyInvariance, PTL DEF Spec, KeepsPolicy, Policy!PolicySpec

\* Between two calls of sched_run_next no blocked task has the CPU, unless it is
\* in sched_block_current just before its call.
THEOREM BlockedTasksYield == Spec => []BlockedYields
<1>1. PInv => BlockedYields
  BY DEF PInv
<1> QED
  BY <1>1, PolicyInvariance, PTL
==============================================================================
