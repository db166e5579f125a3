-------------------------- MODULE KernWakeupsProofs --------------------------
(***************************************************************************)
(* Proofs about the two places where the kernel waits to be told.          *)
(*                                                                         *)
(* The signals of KernSignals, for every number of tasks and processes and *)
(* every set of signals: ipc_signal_send and ipc_signal_wait use the       *)
(* scheduler as KernSched lets its callers use it, and a task they block   *)
(* can be woken.                                                           *)
(*                                                                         *)
(* The keyboard's ring of KernInput, for every size of the ring and any    *)
(* number of keys: a key comes out once and in order while the main loop   *)
(* is the only consumer, and the main loop does not halt on a key without  *)
(* being called back.                                                      *)
(***************************************************************************)
EXTENDS KernSignals, KernInput, KernSchedProofs, SequenceTheorems

------------------------------------------------------------------------------
(* Signals *)

\* What ipc_signal_wait keeps of a task, wherever it was preempted.
WaitInv(t) ==
  /\ spc[t] # "out" => want[t] # {}
  /\ spc[t] \in {"armed", "asleep"} => signal_wait_mask[t] = want[t]
  /\ spc[t] # "asleep" => state[t] # "BLOCKED"

WaitTypes ==
  /\ signal_wait_mask \in [Tasks -> SUBSET Signals]
  /\ want \in [Tasks -> SUBSET Signals]
  /\ spc \in [Tasks -> {"out", "check", "armed", "asleep"}]

SigInv == WaitTypes /\ \A t \in Tasks : WaitInv(t)
------------------------------------------------------------------------------
(* The signals implement the scheduler *)

\* A send to a process wakes one task at most: the process has one thread, and
\* nobody sends to the kernel process, whose pid is 0.
LEMMA SendWakesOne ==
  ASSUME PInv, NEW t \in Tasks, NEW q \in Procs, NEW m \in Masks, SignalSend(t, q, m)
  PROVE  (\E u \in linked : Unblock(t, u)) \/ UNCHANGED vars
<1>1. q # Kernel
  BY DEF SignalSend, PInv, BootRuns
<1>2. \A u, v \in Wakes(q, m) : u = v
  BY <1>1 DEF Wakes, PInv, OneThread
<1>3. state \in [Tasks -> States] /\ linked \subseteq Tasks
  BY DEF PInv, IInv, TypeOK
<1>4. state' = [u \in Tasks |-> IF u \in Wakes(q, m) THEN "READY" ELSE state[u]]
  BY DEF SignalSend
<1>5. CASE Wakes(q, m) = {}
  <2>1. state' = state
    BY <1>3, <1>4, <1>5
  <2> QED
    BY <2>1 DEF SignalSend, vars, taskVars, procVars, walkVars, ctlVars
<1>6. ASSUME NEW u \in Wakes(q, m) PROVE Unblock(t, u) /\ u \in linked
  <2>1. u \in linked /\ state[u] = "BLOCKED" /\ Wakes(q, m) = {u}
    BY <1>2, <1>6 DEF Wakes
  <2>2. state' = [state EXCEPT ![u] = "READY"]
    BY <2>1, <1>3, <1>4
  <2> QED
    BY <2>1, <2>2 DEF SignalSend, Unblock
<1> QED
  BY <1>5, <1>6

\* Every step of the signals is a step of the scheduler, or none.
LEMMA SigStepIsStep == PInv /\ [SigNext]_allVars => [Next]_vars
<1> SUFFICES ASSUME PInv, [SigNext]_allVars PROVE [Next]_vars
  OBVIOUS
<1>1. ASSUME NEW t \in Tasks, NEW m \in Masks,
             \/ SignalWaitEnter(t, m) \/ SignalPoll(t, m)
             \/ \E q \in Procs : SignalSend(t, q, m)
      PROVE  [Next]_vars
  <2>1. CASE SignalWaitEnter(t, m) \/ SignalPoll(t, m)
    BY <2>1 DEF SignalWaitEnter, SignalPoll
  <2>2. ASSUME NEW q \in Procs, SignalSend(t, q, m) PROVE [Next]_vars
    BY <2>2, SendWakesOne DEF Next, TaskStep
  <2> QED
    BY <1>1, <2>1, <2>2
<1>2. ASSUME NEW t \in Tasks, SignalWaitCheck(t) PROVE [Next]_vars
  BY <1>2 DEF SignalWaitCheck
<1>3. ASSUME NEW t \in Tasks, SignalWaitBlock(t) \/ SignalWaitYield(t) \/ SignalWaitResume(t) \/ OtherStep(t)
      PROVE  [Next]_vars
  BY <1>3 DEF SignalWaitBlock, SignalWaitYield, SignalWaitResume, OtherStep, Next, TaskStep
<1>4. CASE (IdleWake \/ IdleClear \/ Preempt \/ Walk) /\ UNCHANGED sigVars
  BY <1>4 DEF Next
<1>5. CASE UNCHANGED allVars
  BY <1>5 DEF allVars
<1> QED
  BY <1>1, <1>2, <1>3, <1>4, <1>5 DEF SigNext

\* A signal step keeps the invariant of the scheduling policy.
LEMMA SigPolicyStep == PInv /\ [SigNext]_allVars => PInv'
  BY SigStepIsStep, PolicyInvStep

\* The initial states are those of the scheduler.
LEMMA SigInitInit == SigInit => Init
  BY DEF SigInit

\* The policy invariant holds with the signal steps added.
LEMMA SigPolicyInvariance == SigSpec => []PInv
  BY SigInitInit, PolicyInitInv, SigPolicyStep, PTL DEF SigSpec

\* The signals use sched_block_current and sched_unblock as the scheduler allows,
\* so what is proved of KernSched holds with its real callers.
THEOREM SignalsImplementSched == SigSpec => ImplementsSched
  BY SigInitInit, SigStepIsStep, SigPolicyInvariance, PTL DEF SigSpec, ImplementsSched, Spec

------------------------------------------------------------------------------
(* A blocked task can be woken *)

\* No task waits for a signal at first.
LEMMA SigInitInv == SigInit => SigInv
<1> SUFFICES ASSUME SigInit PROVE SigInv
  OBVIOUS
<1> QED
  BY DEF SigInit, Init, SigInv, WaitTypes, WaitInv

\* Outside ipc_signal_wait no step of the scheduler blocks a task.
LEMMA NobodyBlocks ==
  ASSUME PInv,
         \/ \E t \in Tasks : OtherStep(t) \/ BlockYield(t) \/ BlockReturn(t)
         \/ IdleWake \/ IdleClear \/ Preempt \/ Walk
  PROVE  \A u \in Tasks : state'[u] = "BLOCKED" => state[u] = "BLOCKED"
<1> USE DEF taskVars, procVars, walkVars, ctlVars
<1>0. state \in [Tasks -> States] /\ task_c \in Tasks
  BY DEF PInv, IInv, TypeOK
<1>1. ASSUME NEW t \in Tasks, OtherStep(t)
      PROVE  \A u \in Tasks : state'[u] = "BLOCKED" => state[u] = "BLOCKED"
  <2>1. CASE TaskCreate(t) \/ ThreadExit(t)
    BY <2>1, <1>0 DEF TaskCreate, ThreadExit
  <2>2. CASE KillChildren(t) \/ \E n \in 1 .. MaxProc : KillProcess(t, n)
    BY <2>2, <1>0 DEF KillChildren, KillProcess
  <2>3. CASE \/ ProcessCreate(t) \/ ProcessInit(t) \/ ProcessCreateNoMem(t)
             \/ TaskCreateNoMem(t) \/ SpawnWaitDone(t) \/ SpawnReturn(t)
    BY <2>3 DEF ProcessCreate, ProcessInit, ProcessCreateNoMem, TaskCreateNoMem, SpawnWaitDone, SpawnReturn
  <2> QED
    BY <1>1, <2>1, <2>2, <2>3 DEF OtherStep
<1>2. CASE \E t \in Tasks : BlockYield(t) \/ BlockReturn(t)
  BY <1>2 DEF BlockYield, BlockReturn, RunNextBegin
<1>3. CASE IdleWake \/ IdleClear \/ Preempt \/ Walk
  BY <1>3 DEF IdleWake, IdleClear, Preempt, RunNextBegin, Walk, WalkReap, WalkSkip, WalkDefer,
     WalkDispatch, WalkWrapSwitch, WalkWrapStay, WalkEnd
<1> QED
  BY <1>1, <1>2, <1>3

\* Every step keeps the signal invariant.
LEMMA SigInvStep == PInv /\ SigInv /\ [SigNext]_allVars => SigInv'
<1> SUFFICES ASSUME PInv, SigInv, [SigNext]_allVars PROVE SigInv'
  OBVIOUS
<1>0. /\ WaitTypes /\ state \in [Tasks -> States]
      /\ \A u \in Tasks : WaitInv(u)
  BY DEF SigInv, PInv, IInv, TypeOK
\* Steps that leave the signals alone.
<1>1. ASSUME UNCHANGED sigVars, \A u \in Tasks : state'[u] = "BLOCKED" => state[u] = "BLOCKED"
      PROVE  SigInv'
  BY <1>0, <1>1 DEF sigVars, SigInv, WaitTypes, WaitInv
<1>2. ASSUME NEW t \in Tasks, NEW m \in Masks, SignalWaitEnter(t, m) PROVE SigInv'
  <2>1. /\ state' = state /\ signal_wait_mask' = signal_wait_mask
        /\ want' = [want EXCEPT ![t] = m] /\ spc' = [spc EXCEPT ![t] = "check"]
    BY <1>2 DEF SignalWaitEnter, vars, taskVars
  <2>2. m \in SUBSET Signals /\ m # {} /\ spc[t] = "out" /\ state[t] # "BLOCKED"
    BY <1>0, <1>2 DEF SignalWaitEnter, Masks, WaitInv
  <2>3. WaitTypes'
    BY <1>0, <2>1, <2>2 DEF WaitTypes
  <2>4. \A u \in Tasks : WaitInv(u)'
    BY <1>0, <2>1, <2>2 DEF WaitTypes, WaitInv
  <2> QED
    BY <2>3, <2>4 DEF SigInv
<1>3. ASSUME NEW t \in Tasks, NEW m \in Masks,
             SignalPoll(t, m) \/ \E q \in Procs : SignalSend(t, q, m)
      PROVE  SigInv'
  BY <1>0, <1>3 DEF SignalPoll, SignalSend, SigInv, WaitTypes, WaitInv, vars, taskVars
<1>4. ASSUME NEW t \in Tasks, SignalWaitCheck(t) PROVE SigInv'
  BY <1>0, <1>4 DEF SignalWaitCheck, SigInv, WaitTypes, WaitInv, vars, taskVars
<1>5. ASSUME NEW t \in Tasks, SignalWaitBlock(t) PROVE SigInv'
  BY <1>0, <1>5 DEF SignalWaitBlock, BlockCurrent, SigInv, WaitTypes, WaitInv
<1>6. ASSUME NEW t \in Tasks, SignalWaitResume(t) PROVE SigInv'
  <2>1. state[t] # "BLOCKED" /\ state' = state
    BY <1>6 DEF SignalWaitResume, BlockReturn, Running, PInv, BlockedYields, taskVars
  <2> QED
    BY <1>0, <1>6, <2>1 DEF SignalWaitResume, SigInv, WaitTypes, WaitInv
<1>7. ASSUME NEW t \in Tasks, SignalWaitYield(t) \/ OtherStep(t) PROVE SigInv'
  <2>1. UNCHANGED sigVars
    BY <1>7 DEF SignalWaitYield, OtherStep
  <2> QED
    BY <1>1, <1>7, <2>1, NobodyBlocks DEF SignalWaitYield
<1>8. CASE (IdleWake \/ IdleClear \/ Preempt \/ Walk) /\ UNCHANGED sigVars
  BY <1>1, <1>8, NobodyBlocks
<1>9. CASE UNCHANGED allVars
  BY <1>1, <1>9 DEF allVars, vars, taskVars
<1> QED
  BY <1>2, <1>3, <1>4, <1>5, <1>6, <1>7, <1>8, <1>9 DEF SigNext

\* A task that ipc_signal_wait has blocked has stored the mask it waits for, and
\* it is not empty: the next ipc_signal_send of one of its signals wakes it.
THEOREM BlockedWakeable == SigSpec => []BlockedIsWakeable
<1>1. PInv /\ SigInv => BlockedIsWakeable
  <2> SUFFICES ASSUME PInv, SigInv, NEW t \in linked, state[t] = "BLOCKED"
               PROVE  spc[t] = "asleep" /\ want[t] # {} /\ signal_wait_mask[t] = want[t]
    BY DEF BlockedIsWakeable
  <2>1. t \in Tasks
    BY DEF PInv, IInv, TypeOK
  <2> QED
    BY <2>1 DEF SigInv, WaitInv
<1> QED
  BY <1>1, SigInitInv, SigInvStep, SigPolicyInvariance, PTL DEF SigSpec
------------------------------------------------------------------------------
(* The keyboard's ring                                                       *)
(*                                                                           *)
(* It holds exactly the keys that were accepted and not yet handled: the one *)
(* with number Len(eaten) + 1 + j is j slots after the read pointer, and the *)
(* write pointer is after the last of them (RingHolds).  A consumer between  *)
(* its read and its store of the pointer has the first of them, and an       *)
(* interrupt in between only adds keys behind it, because it never lets the  *)
(* write pointer reach the read pointer (InHand).                            *)

\* Where the values are; it holds with any number of consumers.
InputTypes ==
  /\ queue \in [Slots -> Nat]
  /\ queue_read_ptr \in Slots /\ queue_write_ptr \in Slots
  /\ at \in [Task -> {"run", "clear", "eat", "store", "hlt"}]
  /\ c \in [Task -> Nat] /\ r \in [Task -> Slots]
  /\ accepted \in Seq(Nat) /\ eaten \in Seq(Nat)
  /\ Len(accepted) <= MaxKeys
  /\ shared \in BOOLEAN /\ needs_run \in BOOLEAN

\* The slot j places after the read pointer, and how many keys wait.
SlotAt(j) == IF queue_read_ptr + j < QueueSize THEN queue_read_ptr + j
             ELSE queue_read_ptr + j - QueueSize
Waiting == Len(accepted) - Len(eaten)

RingHolds ==
  /\ Waiting \in 0 .. QueueSize - 1
  /\ queue_write_ptr = SlotAt(Waiting)
  /\ \A j \in 0 .. Waiting - 1 : queue[SlotAt(j)] = accepted[Len(eaten) + 1 + j]
  /\ \A i \in 1 .. Len(eaten) : eaten[i] = accepted[i]

\* The boot thread is the only consumer: the others are not in keyboard_eat_key.
Alone == at[Boot] # "run" /\ \A t \in Task \ {Boot} : at[t] = "run"

\* What keyboard_eat_key has read is what the read pointer still points at.
InHand ==
  at[Boot] = "store" =>
    /\ Waiting > 0
    /\ r[Boot] = queue_read_ptr
    /\ c[Boot] = accepted[Len(eaten) + 1]

\* The boot thread has halted, or is about to clear the flag before it looks.
BeforeClear == at[Boot] \in {"hlt", "clear"}
CalledBack == BeforeClear /\ ~Empty => needs_run

Sole == Alone /\ RingHolds /\ InHand /\ CalledBack
InputInv == InputTypes /\ (~shared => Sole)
------------------------------------------------------------------------------
\* How the pointers of the ring move on.
LEMMA NextSlot ==
  ASSUME NEW p \in Slots
  PROVE  /\ (p + 1) % QueueSize \in Slots
         /\ (p + 1) % QueueSize = IF p + 1 = QueueSize THEN 0 ELSE p + 1
<1>1. QueueSize \in Nat \ {0, 1}
  BY InputAssumption DEF InputAssumption
<1> QED
  BY <1>1 DEF Slots

\* The ring is empty at first and nobody halts.
LEMMA InputInitInv == InputInit => InputInv
<1> SUFFICES ASSUME InputInit PROVE InputInv
  OBVIOUS
<1> USE InputAssumption, BootAssumption DEF InputAssumption
<1>1. InputTypes
  <2>1. 0 \in Slots
    BY DEF Slots
  <2>2. << >> \in Seq(Nat) /\ Len(<< >>) = 0
    OBVIOUS
  <2> QED
    BY <2>1, <2>2 DEF InputInit, PolicyInit, InputTypes
<1>2. Alone /\ InHand /\ CalledBack
  BY DEF InputInit, Alone, InHand, CalledBack, Empty
<1>3. RingHolds
  BY DEF InputInit, RingHolds, Waiting, SlotAt
<1> QED
  BY <1>1, <1>2, <1>3 DEF InputInv, Sole

\* Every step keeps the types of the ring and of the tasks.
LEMMA InputTypesStep == InputTypes /\ [InputNext]_inputVars => InputTypes'
<1> SUFFICES ASSUME InputTypes, [InputNext]_inputVars PROVE InputTypes'
  OBVIOUS
<1> USE InputAssumption, BootAssumption DEF InputAssumption
<1>1. ASSUME NEW k \in Keys, KeyPress(k) PROVE InputTypes'
  <2>1. k \in Nat /\ Len(accepted) + 1 = k /\ k <= MaxKeys
    BY <1>1 DEF KeyPress, Keys
  <2>2. Append(accepted, k) \in Seq(Nat) /\ Len(Append(accepted, k)) <= MaxKeys
    BY <2>1 DEF InputTypes
  <2>3. (queue_write_ptr + 1) % QueueSize \in Slots
    BY NextSlot DEF InputTypes
  <2> QED
    BY <1>1, <2>1, <2>2, <2>3 DEF KeyPress, Wake, InputTypes
<1>2. CASE MainClear
  BY <1>2 DEF MainClear, Clear, InputTypes
<1>3. CASE MainResume
  BY <1>3 DEF MainResume, InputTypes, policyVars
<1>4. ASSUME NEW t \in Task, EatRead(t) PROVE InputTypes'
  BY <1>4 DEF EatRead, InputTypes, policyVars
<1>5. ASSUME NEW t \in Task, EatStore(t) PROVE InputTypes'
  <2>1. queue_read_ptr' \in Slots
    BY <1>5, NextSlot DEF EatStore, InputTypes
  <2>2. eaten' \in Seq(Nat)
    BY <1>5 DEF EatStore, InputTypes
  <2>3. 0 \in Slots
    BY DEF Slots
  <2> QED
    BY <1>5, <2>1, <2>2, <2>3 DEF EatStore, InputTypes, policyVars
<1>6. ASSUME NEW t \in Task, EatNone(t) \/ PollBegin(t) PROVE InputTypes'
  BY <1>6 DEF EatNone, PollBegin, InputTypes, policyVars
<1>7. ASSUME UNCHANGED keyVars, needs_run' \in BOOLEAN PROVE InputTypes'
  BY <1>7 DEF keyVars, InputTypes
<1>8. CASE UNCHANGED inputVars
  BY <1>7, <1>8 DEF inputVars, policyVars, InputTypes
<1>9. CASE (SetReady \/ \E t \in Task : Switch(t)) /\ UNCHANGED keyVars
  BY <1>7, <1>9 DEF SetReady, Switch, InputTypes
<1>10. ASSUME NEW t \in Task, PollIdle(t) PROVE InputTypes'
  BY <1>7, <1>10 DEF PollIdle, Wake
<1> QED
  BY <1>1, <1>2, <1>3, <1>4, <1>5, <1>6, <1>8, <1>9, <1>10 DEF InputNext, BootStep

\* The ring is empty when the pointers are equal, and has room for a key when
\* fewer than QueueSize - 1 wait.
LEMMA PointersTell ==
  ASSUME InputTypes, RingHolds
  PROVE  /\ Empty <=> Waiting = 0
         /\ (queue_write_ptr + 1) % QueueSize = queue_read_ptr <=> Waiting = QueueSize - 1
<1>1. QueueSize \in Nat \ {0, 1}
  BY InputAssumption DEF InputAssumption
<1>2. queue_write_ptr \in Slots /\ queue_read_ptr \in 0 .. QueueSize - 1 /\ Waiting \in 0 .. QueueSize - 1
  BY DEF InputTypes, RingHolds, Slots
<1>3. queue_write_ptr = SlotAt(Waiting)
  BY DEF RingHolds
<1>4. (queue_write_ptr + 1) % QueueSize = IF queue_write_ptr + 1 = QueueSize THEN 0 ELSE queue_write_ptr + 1
  BY <1>2, NextSlot
<1> HIDE DEF Waiting
<1> QED
  BY <1>1, <1>2, <1>3, <1>4 DEF SlotAt, Empty

\* The keyboard interrupt adds its key behind the ones that wait.
LEMMA KeyPressKeeps ==
  ASSUME InputTypes, Sole, NEW k \in Keys, KeyPress(k), ~shared
  PROVE  Sole'
<1>1. QueueSize \in Nat \ {0, 1} /\ k \in Nat
  BY InputAssumption DEF InputAssumption, Keys
<1>2. Alone' /\ CalledBack'
  BY DEF KeyPress, Wake, Sole, Alone, CalledBack
<1>3. queue_read_ptr' = queue_read_ptr /\ eaten' = eaten /\ UNCHANGED <<at, c, r>>
  BY DEF KeyPress
<1>4. CASE (queue_write_ptr + 1) % QueueSize = queue_read_ptr
  <2>1. UNCHANGED <<queue, queue_write_ptr, accepted>>
    BY <1>4 DEF KeyPress
  <2> QED
    BY <1>2, <1>3, <2>1 DEF Sole, RingHolds, InHand, Waiting, SlotAt
<1>5. CASE (queue_write_ptr + 1) % QueueSize # queue_read_ptr
  <2>1. /\ queue' = [queue EXCEPT ![queue_write_ptr] = k]
        /\ queue_write_ptr' = (queue_write_ptr + 1) % QueueSize
        /\ accepted' = Append(accepted, k)
    BY <1>5 DEF KeyPress
  <2>2. /\ Len(accepted) \in Nat /\ Len(eaten) \in Nat
        /\ Len(accepted') = Len(accepted) + 1
        /\ \A i \in 1 .. Len(accepted) : accepted'[i] = accepted[i]
        /\ accepted'[Len(accepted) + 1] = k
    BY <1>1, <2>1 DEF InputTypes
  <2>3. Waiting \in 0 .. QueueSize - 2 /\ Waiting' = Waiting + 1
    <3>1. RingHolds /\ Waiting # QueueSize - 1
      BY <1>5, PointersTell DEF Sole
    <3> QED
      BY <1>1, <1>3, <2>2, <3>1 DEF RingHolds, Waiting
  <2>4. queue_read_ptr \in 0 .. QueueSize - 1 /\ queue_write_ptr \in Slots
    BY DEF InputTypes, Slots
  <2>5. \A j \in Nat : SlotAt(j)' = SlotAt(j)
    BY <1>3 DEF SlotAt
  <2>6. \A j \in 0 .. Waiting - 1 : SlotAt(j) \in Slots /\ SlotAt(j) # queue_write_ptr
    BY <1>1, <2>3, <2>4 DEF Sole, RingHolds, SlotAt, Slots
  <2>7. queue_write_ptr' = SlotAt(Waiting + 1)
    BY <1>1, <2>1, <2>3, <2>4, NextSlot DEF Sole, RingHolds, SlotAt
  <2>8. \A j \in 0 .. Waiting : queue'[SlotAt(j)] = accepted'[Len(eaten) + 1 + j]
    <3> SUFFICES ASSUME NEW j \in 0 .. Waiting
                 PROVE  queue'[SlotAt(j)] = accepted'[Len(eaten) + 1 + j]
      OBVIOUS
    <3>1. CASE j = Waiting
      <4>1. queue'[queue_write_ptr] = k
        BY <2>1, <2>4 DEF InputTypes
      <4>2. Len(eaten) + 1 + j = Len(accepted) + 1
        BY <2>2, <3>1 DEF Waiting
      <4> QED
        BY <2>2, <3>1, <4>1, <4>2 DEF Sole, RingHolds
    <3>2. CASE j # Waiting
      <4>1. j \in 0 .. Waiting - 1 /\ Len(eaten) + 1 + j \in 1 .. Len(accepted)
        BY <2>2, <2>3, <3>2 DEF Waiting
      <4>2. queue'[SlotAt(j)] = queue[SlotAt(j)]
        BY <2>1, <2>6, <4>1 DEF InputTypes
      <4> QED
        BY <2>2, <4>1, <4>2 DEF Sole, RingHolds
    <3> QED
      BY <3>1, <3>2
  <2>9. \A i \in 1 .. Len(eaten) : eaten[i] = accepted'[i]
    BY <2>2, <2>3 DEF Sole, RingHolds, Waiting
  <2>10. RingHolds'
    <3>1. Waiting' \in 0 .. QueueSize - 1 /\ Waiting' - 1 = Waiting
      BY <1>1, <2>3
    <3> QED
      BY <1>3, <2>3, <2>5, <2>7, <2>8, <2>9, <3>1 DEF RingHolds
  <2>11. InHand'
    <3> SUFFICES ASSUME at[Boot] = "store"
                 PROVE  Waiting' > 0 /\ r[Boot] = queue_read_ptr /\ c[Boot] = accepted'[Len(eaten) + 1]
      BY <1>3 DEF InHand
    <3>1. Waiting > 0 /\ r[Boot] = queue_read_ptr /\ c[Boot] = accepted[Len(eaten) + 1]
      BY DEF Sole, InHand
    <3>2. Len(eaten) + 1 \in 1 .. Len(accepted)
      BY <2>2, <3>1 DEF Waiting
    <3> QED
      BY <2>2, <2>3, <3>1, <3>2
  <2> QED
    BY <1>2, <2>10, <2>11 DEF Sole
<1> QED
  BY <1>4, <1>5

\* The main loop takes the first of the keys that wait.
LEMMA EatStoreKeeps ==
  ASSUME InputTypes, Sole, EatStore(Boot), ~shared
  PROVE  Sole'
<1>1. QueueSize \in Nat \ {0, 1} /\ Boot \in Task /\ MaxKeys \in Nat
  BY InputAssumption, BootAssumption DEF InputAssumption
<1>2. Waiting > 0 /\ r[Boot] = queue_read_ptr /\ c[Boot] = accepted[Len(eaten) + 1]
  BY DEF EatStore, Sole, InHand
<1>3. Len(accepted) \in Nat /\ Len(eaten) \in Nat /\ Len(eaten) < Len(accepted) /\ Len(accepted) <= MaxKeys
  BY <1>2 DEF InputTypes, Waiting
<1>4. eaten' = Append(eaten, c[Boot])
  BY <1>1, <1>3 DEF EatStore
<1>5. /\ Len(eaten') = Len(eaten) + 1
      /\ \A i \in 1 .. Len(eaten) : eaten'[i] = eaten[i]
      /\ eaten'[Len(eaten) + 1] = c[Boot]
  BY <1>1, <1>4 DEF InputTypes
<1>6. /\ queue_read_ptr' = IF queue_read_ptr + 1 = QueueSize THEN 0 ELSE queue_read_ptr + 1
      /\ queue_read_ptr \in 0 .. QueueSize - 1
  BY <1>2, NextSlot DEF EatStore, InputTypes, Slots
<1>7. UNCHANGED <<queue, queue_write_ptr, accepted, needs_run>> /\ at' = [at EXCEPT ![Boot] = "eat"]
  BY DEF EatStore, policyVars
<1>8. Waiting \in 1 .. QueueSize - 1 /\ Waiting' = Waiting - 1
  BY <1>1, <1>2, <1>3, <1>5, <1>7 DEF Sole, RingHolds, Waiting
<1>9. \A j \in 0 .. QueueSize - 2 : SlotAt(j)' = SlotAt(j + 1)
  BY <1>1, <1>6 DEF SlotAt
<1>10. RingHolds'
  <2>1. queue_write_ptr' = SlotAt(Waiting)'
    <3>1. Waiting' \in 0 .. QueueSize - 2 /\ Waiting' + 1 = Waiting
      BY <1>1, <1>8
    <3> QED
      BY <1>7, <1>9, <3>1 DEF Sole, RingHolds
  <2>2. ASSUME NEW j \in 0 .. Waiting' - 1
        PROVE  queue'[SlotAt(j)'] = accepted'[Len(eaten') + 1 + j]
    <3>1. /\ j \in 0 .. QueueSize - 2 /\ j + 1 \in 0 .. Waiting - 1
          /\ Len(eaten') + 1 + j = Len(eaten) + 1 + (j + 1)
      BY <1>1, <1>3, <1>5, <1>8
    <3>2. queue[SlotAt(j + 1)] = accepted[Len(eaten) + 1 + (j + 1)]
      BY <3>1 DEF Sole, RingHolds
    <3> QED
      BY <1>7, <1>9, <3>1, <3>2
  <2>3. ASSUME NEW i \in 1 .. Len(eaten') PROVE eaten'[i] = accepted'[i]
    <3>1. i \in 1 .. Len(eaten) \/ i = Len(eaten) + 1
      BY <1>3, <1>5
    <3> QED
      BY <1>2, <1>5, <1>7, <3>1 DEF Sole, RingHolds
  <2>4. Waiting' \in 0 .. QueueSize - 1
    BY <1>1, <1>8
  <2> QED
    BY <2>1, <2>2, <2>3, <2>4 DEF RingHolds
<1>11. Alone' /\ InHand' /\ CalledBack'
  BY <1>1, <1>7 DEF InputTypes, Sole, Alone, InHand, CalledBack, BeforeClear
<1> QED
  BY <1>10, <1>11 DEF Sole

\* Every step keeps the order of the keys and the record of who halts.
LEMMA InputInvStep == InputInv /\ [InputNext]_inputVars => InputInv'
<1> SUFFICES ASSUME InputInv, [InputNext]_inputVars, ~shared' PROVE Sole'
  BY InputTypesStep DEF InputInv
<1>0. InputTypes /\ Boot \in Task /\ Pollers \subseteq Task \ {Boot}
  BY InputAssumption, BootAssumption DEF InputInv, InputAssumption
<1>1. ~shared /\ Sole
  BY DEF InputInv, InputTypes, InputNext, KeyPress, BootStep, MainClear, EatRead, EatStore, EatNone,
     MainResume, PollBegin, PollIdle, keyVars, inputVars
\* Steps that leave the ring alone.
<1>2. ASSUME UNCHANGED <<queue, queue_read_ptr, queue_write_ptr, accepted, eaten>>
      PROVE  RingHolds'
  BY <1>1, <1>2 DEF Sole, RingHolds, Waiting, SlotAt
<1>3. ASSUME UNCHANGED keyVars, needs_run => needs_run' PROVE Sole'
  BY <1>1, <1>2, <1>3 DEF keyVars, Sole, Alone, InHand, CalledBack, BeforeClear, Empty, Waiting
<1>4. ASSUME NEW k \in Keys, KeyPress(k) PROVE Sole'
  BY <1>0, <1>1, <1>4, KeyPressKeeps
<1>5. CASE MainClear
  BY <1>0, <1>1, <1>2, <1>5 DEF MainClear, InputTypes, Sole, Alone, InHand, CalledBack, BeforeClear
<1>6. CASE EatRead(Boot)
  <2>1. Waiting > 0
    BY <1>0, <1>1, <1>6, PointersTell DEF EatRead, Sole, RingHolds
  <2>2. queue[queue_read_ptr] = accepted[Len(eaten) + 1]
    <3>1. SlotAt(0) = queue_read_ptr
      BY <1>0, InputAssumption DEF SlotAt, InputTypes, Slots, InputAssumption
    <3>2. 0 \in 0 .. Waiting - 1 /\ Len(eaten) + 1 + 0 = Len(eaten) + 1
      BY <1>0, <1>1, <2>1 DEF InputTypes, Sole, RingHolds
    <3> QED
      BY <1>1, <3>1, <3>2 DEF Sole, RingHolds
  <2>3. RingHolds' /\ Waiting' = Waiting
    BY <1>2, <1>6 DEF EatRead, Waiting
  <2>4. Alone' /\ CalledBack'
    BY <1>0, <1>1, <1>6 DEF EatRead, InputTypes, Sole, Alone, CalledBack, BeforeClear
  <2>5. InHand'
    BY <1>0, <1>6, <2>1, <2>2, <2>3 DEF EatRead, InputTypes, InHand
  <2> QED
    BY <2>3, <2>4, <2>5 DEF Sole
<1>7. CASE EatStore(Boot)
  BY <1>0, <1>1, <1>7, EatStoreKeeps
<1>8. CASE EatNone(Boot) \/ MainResume
  <2>1. RingHolds'
    BY <1>2, <1>8 DEF EatNone, MainResume
  <2>2. Alone' /\ InHand'
    BY <1>0, <1>1, <1>8 DEF EatNone, MainResume, InputTypes, Sole, Alone, InHand
  <2>3. CalledBack'
    BY <1>0, <1>1, <1>8 DEF EatNone, MainResume, InputTypes, Sole, CalledBack, BeforeClear, Empty, policyVars
  <2> QED
    BY <2>1, <2>2, <2>3 DEF Sole
\* Another task would have to begin to poll, and then the ring is shared.
<1>9. ASSUME NEW t \in Pollers, PollBegin(t) \/ EatRead(t) \/ EatStore(t) \/ EatNone(t) PROVE FALSE
  BY <1>0, <1>1, <1>9 DEF PollBegin, EatRead, EatStore, EatNone, Sole, Alone
<1>10. CASE UNCHANGED inputVars
  BY <1>3, <1>10 DEF inputVars, policyVars
<1>11. CASE (SetReady \/ \E t \in Task : Switch(t)) /\ UNCHANGED keyVars
  BY <1>3, <1>11 DEF SetReady, Switch
<1>12. ASSUME NEW t \in Pollers, PollIdle(t) PROVE Sole'
  BY <1>3, <1>12 DEF PollIdle, Wake
<1> QED
  BY <1>4, <1>5, <1>6, <1>7, <1>8, <1>9, <1>10, <1>11, <1>12 DEF InputNext, BootStep

\* So the ring invariant always holds.
LEMMA InputInvariance == InputSpec => []InputInv
<1> QED
  BY InputInitInv, InputInvStep, PTL DEF InputSpec
------------------------------------------------------------------------------
\* A key that the keyboard interrupt put into the ring is returned once and in
\* the order of arrival by keyboard_eat_key, for every KEY_QUEUE_SIZE, wherever
\* the pointers wrap and wherever in keyboard_eat_key an interrupt comes, while
\* the main loop is the only one that drains the ring.
THEOREM KeysInOrder == InputSpec => []KeysOnceInOrder
<1>1. InputInv => KeysOnceInOrder
  <2> SUFFICES ASSUME InputInv, ~shared PROVE IsPrefix(eaten, accepted)
    BY DEF KeysOnceInOrder
  <2>1. /\ eaten \in Seq(Nat) /\ accepted \in Seq(Nat) /\ Len(eaten) <= Len(accepted)
        /\ \A i \in 1 .. Len(eaten) : eaten[i] = accepted[i]
    BY DEF InputInv, InputTypes, Sole, RingHolds, Waiting
  <2>2. SubSeq(eaten, 1, Len(eaten)) = SubSeq(accepted, 1, Len(eaten))
    BY <2>1
  <2> QED
    BY <2>1, <2>2 DEF IsPrefix
<1> QED
  BY <1>1, InputInvariance, PTL

NoKeyForgotten == ~shared /\ at[Boot] = "hlt" /\ ~Empty => needs_run

\* The main loop clears the wakeup flag before it looks at the ring: a key that
\* arrives after it has looked leaves the flag set, and the scheduler switches
\* back to the halted boot thread.  Nothing is asked of the timing.
THEOREM HaltedIsCalledBack == InputSpec => []NoKeyForgotten
<1>1. InputInv => NoKeyForgotten
  BY DEF InputInv, Sole, CalledBack, BeforeClear, NoKeyForgotten
<1> QED
  BY <1>1, InputInvariance, PTL
==============================================================================
