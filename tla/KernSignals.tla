----------------------------- MODULE KernSignals -----------------------------
(***************************************************************************)
(* The signals of kern_ipc.c on top of the scheduler: ipc_signal_send,     *)
(* ipc_signal_wait and ipc_signal_poll.  ipc_signal_wait is the only       *)
(* caller of sched_block_current and ipc_signal_send the only caller of    *)
(* sched_unblock, so this module replaces the free BlockCurrent and        *)
(* Unblock steps of KernSched by these three functions.                    *)
(***************************************************************************)
EXTENDS KernSched

CONSTANT Signals   \* the bits of a signal mask

VARIABLES
  pending,         \* kern_process_t.pending_signals
  signal_wait_mask,\* kern_task_t.signal_wait_mask
  want,            \* the mask argument of a task inside ipc_signal_wait
  spc              \* where a task is inside ipc_signal_wait

sigVars == <<pending, signal_wait_mask, want, spc>>
allVars == <<vars, sigVars>>

Masks == (SUBSET Signals) \ {{}}

\* The labels of spc.  "out": not in ipc_signal_wait.  "check": about to turn
\* the interrupts off for a turn of its loop.  "armed": the mask is stored,
\* interrupts are on again and sched_block_current is not yet called.
\* "asleep": in sched_block_current.

SigInit ==
  /\ Init
  /\ pending = [p \in Procs |-> {}]
  /\ signal_wait_mask = [t \in Tasks |-> {}]
  /\ want = [t \in Tasks |-> {}]
  /\ spc = [t \in Tasks |-> "out"]

\* ipc_signal_wait(m) is called; only wasm threads call it.
SignalWaitEnter(t, m) ==
  /\ Running(t) /\ t # Root /\ pc[t] = "run" /\ spc[t] = "out"
  /\ want' = [want EXCEPT ![t] = m]
  /\ spc' = [spc EXCEPT ![t] = "check"]
  /\ UNCHANGED <<vars, pending, signal_wait_mask>>

\* A faulty variant that does not tell the senders what it waits for.
SignalWaitNoMask(t) ==
  LET p   == process[t]
      got == pending[p] \cap want[t]
  IN /\ Running(t) /\ spc[t] = "check"
     /\ pending' = [pending EXCEPT ![p] = @ \ got]
     /\ want' = [want EXCEPT ![t] = IF got # {} THEN {} ELSE @]
     /\ spc' = [spc EXCEPT ![t] = IF got # {} THEN "out" ELSE "armed"]
     /\ UNCHANGED <<vars, signal_wait_mask>>

\* One turn of its loop with interrupts off: take the matching signals and
\* return, or store the mask and turn the interrupts on.
SignalWaitCheck(t) ==
  LET p   == process[t]
      got == pending[p] \cap want[t]
  IN /\ Running(t) /\ spc[t] = "check"
     /\ \/ /\ got # {}
           /\ pending' = [pending EXCEPT ![p] = @ \ got]
           /\ signal_wait_mask' = [signal_wait_mask EXCEPT ![t] = {}]
           /\ want' = [want EXCEPT ![t] = {}]
           /\ spc' = [spc EXCEPT ![t] = "out"]
        \/ /\ got = {}
           /\ signal_wait_mask' = [signal_wait_mask EXCEPT ![t] = want[t]]
           /\ spc' = [spc EXCEPT ![t] = "armed"]
           /\ UNCHANGED <<pending, want>>
     /\ UNCHANGED vars

\* sched_block_current sets BLOCKED whatever happened since the check.
SignalWaitBlock(t) ==
  /\ spc[t] = "armed"
  /\ BlockCurrent(t)
  /\ spc' = [spc EXCEPT ![t] = "asleep"]
  /\ UNCHANGED <<pending, signal_wait_mask, want>>

SignalWaitYield(t) == BlockYield(t) /\ UNCHANGED sigVars

\* Scheduled again, the task goes round the loop.
SignalWaitResume(t) ==
  /\ spc[t] = "asleep"
  /\ BlockReturn(t)
  /\ spc' = [spc EXCEPT ![t] = "check"]
  /\ UNCHANGED <<pending, signal_wait_mask, want>>

\* A faulty variant: dead tasks are woken too.
WakesDead(q, m) ==
  {u \in linked : process[u] = q /\ ~Runnable(u) /\ signal_wait_mask[u] \cap m # {}}

\* The tasks ipc_signal_send(process q, mask m) wakes through sched_unblock.
Wakes(q, m) ==
  {u \in linked : process[u] = q /\ state[u] = "BLOCKED" /\ signal_wait_mask[u] \cap m # {}}

\* ipc_signal_send to the process q that sched_get_by_pid found.
SignalSend(t, q, m) ==
  /\ Running(t) /\ pc[t] = "run" /\ spc[t] = "out"
  /\ \E u \in linked : process[u] = q /\ pid[q] > 0
  /\ pending' = [pending EXCEPT ![q] = @ \cup m]
  /\ state' = [u \in Tasks |-> IF u \in Wakes(q, m) THEN "READY" ELSE state[u]]
  /\ UNCHANGED <<linked, next, task_list_head, process, task_c, procVars, walkVars,
                 ctlVars, current_task, sched_idle_needs_run,
                 signal_wait_mask, want, spc>>

\* ipc_signal_poll(m) of the running task's own process.
SignalPoll(t, m) ==
  /\ Running(t) /\ pc[t] = "run" /\ spc[t] = "out"
  /\ pending' = [pending EXCEPT ![process[t]] = @ \ m]
  /\ UNCHANGED <<vars, signal_wait_mask, want, spc>>

\* Everything else a task does in the scheduler, outside ipc_signal_wait.
OtherStep(t) ==
  /\ spc[t] = "out"
  /\ \/ ProcessCreate(t) \/ ProcessInit(t) \/ ProcessCreateNoMem(t)
     \/ TaskCreate(t) \/ TaskCreateNoMem(t)
     \/ SpawnWaitDone(t) \/ SpawnReturn(t) \/ ThreadExit(t)
     \/ KillChildren(t) \/ \E n \in 1 .. MaxProc : KillProcess(t, n)
  /\ UNCHANGED sigVars

SigNext ==
  \/ \E t \in Tasks :
       \/ \E m \in Masks : \/ SignalWaitEnter(t, m) \/ SignalPoll(t, m)
                           \/ \E q \in Procs : SignalSend(t, q, m)
       \/ SignalWaitCheck(t) \/ SignalWaitBlock(t)
       \/ SignalWaitYield(t) \/ SignalWaitResume(t)
       \/ OtherStep(t)
  \/ (IdleWake \/ IdleClear) /\ UNCHANGED sigVars
  \/ Preempt /\ UNCHANGED sigVars
  \/ Walk /\ UNCHANGED sigVars

SigSpec == SigInit /\ [][SigNext]_allVars

\* The timer keeps coming, sched_run_next runs to its end, and a task inside
\* ipc_signal_wait that is given the CPU again and again gets on with it.
SigFairness ==
  /\ WF_allVars(Preempt /\ UNCHANGED sigVars)
  /\ WF_allVars(Walk /\ UNCHANGED sigVars)
  /\ \A t \in Tasks : SF_allVars(\/ SignalWaitCheck(t) \/ SignalWaitBlock(t)
                                \/ SignalWaitYield(t) \/ SignalWaitResume(t))

FairSigSpec == SigSpec /\ SigFairness

------------------------------------------------------------------------------
(* Properties *)

\* The scheduler as the signals use it is the scheduler of KernSched, so all
\* that holds there of lists, processes and switching holds with its real
\* callers of sched_block_current and sched_unblock.
ImplementsSched == Spec

\* A blocked task can always be woken: it sleeps in ipc_signal_wait, and the
\* mask the sender will test is the non-empty mask it waits for.
BlockedIsWakeable ==
  \A t \in linked : state[t] = "BLOCKED" =>
    spc[t] = "asleep" /\ want[t] # {} /\ signal_wait_mask[t] = want[t]

\* ipc_signal_wait blocks only until a matching signal arrives: with one pending
\* the task returns from it (or dies).
SignalDelivered ==
  \A t \in Tasks \ {Root} :
    (t \in linked /\ spc[t] # "out" /\ pending[process[t]] \cap want[t] # {})
      ~> (t \notin linked \/ state[t] = "DEAD" \/ pending[process[t]] \cap want[t] = {})
==============================================================================
