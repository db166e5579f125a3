------------------------------ MODULE KernInput ------------------------------
(***************************************************************************)
(* The way of a key from the keyboard interrupt to its consumer: the ring  *)
(* `queue' of kern_keyboard.c, the main loop of main.c that clears the     *)
(* wakeup flag, drains the ring and halts, and the compositor thread that  *)
(* drains the same ring in poll_events_internal.  Who runs is decided by   *)
(* SchedPolicy, which the scheduler implements.                            *)
(*                                                                         *)
(* keyboard_eat_key runs with interrupts enabled: it reads the key, and    *)
(* the timer or the keyboard can interrupt before it stores the pointer.   *)
(***************************************************************************)
EXTENDS Naturals, Sequences, SequencesExt, SchedPolicy

CONSTANTS Pollers,   \* tasks besides the boot thread that drain the ring
          QueueSize, \* KEY_QUEUE_SIZE
          MaxKeys    \* bound on the keys queued in a behaviour

ASSUME InputAssumption ==
  /\ Pollers \subseteq Task \ {Boot}
  /\ QueueSize \in Nat \ {0, 1} /\ MaxKeys \in Nat

VARIABLES
  queue, queue_read_ptr, queue_write_ptr,
  at,        \* where each task is
  c, r,      \* locals of keyboard_eat_key: the key and the pointer it read
  accepted,  \* history: the keys the interrupt handler queued
  eaten,     \* history: the first MaxKeys + 1 keys keyboard_eat_key returned
  shared     \* history: a second consumer has started to drain the ring

keyVars == <<queue, queue_read_ptr, queue_write_ptr, at, c, r, accepted, eaten, shared>>
inputVars == <<policyVars, keyVars>>

Slots == 0 .. QueueSize - 1
Keys == 1 .. MaxKeys      \* the n-th key queued is n; 0 is no key

Empty == queue_read_ptr = queue_write_ptr
Runs(t) == cpu = t /\ t \in ready

InputInit ==
  /\ PolicyInit
  /\ queue = [s \in Slots |-> 0] /\ queue_read_ptr = 0 /\ queue_write_ptr = 0
  /\ at = [t \in Task |-> IF t = Boot THEN "clear" ELSE "run"]
  /\ c = [t \in Task |-> 0] /\ r = [t \in Task |-> 0]
  /\ accepted = << >> /\ eaten = << >> /\ shared = FALSE

\* A faulty variant: a full ring is not noticed.
KeyPressUnchecked(k) ==
  /\ k = Len(accepted) + 1
  /\ Wake
  /\ queue' = [queue EXCEPT ![queue_write_ptr] = k]
  /\ queue_write_ptr' = (queue_write_ptr + 1) % QueueSize
  /\ accepted' = Append(accepted, k)
  /\ UNCHANGED <<queue_read_ptr, at, c, r, eaten, shared>>

\* kbd_inject_scancode_set1 for a key with a code: wake the boot thread, queue
\* the key unless the ring is full.
KeyPress(k) ==
  LET next_write == (queue_write_ptr + 1) % QueueSize
  IN /\ k = Len(accepted) + 1
     /\ Wake
     /\ IF next_write # queue_read_ptr
        THEN /\ queue' = [queue EXCEPT ![queue_write_ptr] = k]
             /\ queue_write_ptr' = next_write
             /\ accepted' = Append(accepted, k)
        ELSE UNCHANGED <<queue, queue_write_ptr, accepted>>
     /\ UNCHANGED <<queue_read_ptr, at, c, r, eaten, shared>>

\* The main loop calls sched_idle_clear before it looks at the ring.
MainClear ==
  /\ Runs(Boot) /\ at[Boot] = "clear"
  /\ Clear
  /\ at' = [at EXCEPT ![Boot] = "eat"]
  /\ UNCHANGED <<queue, queue_read_ptr, queue_write_ptr, c, r, accepted, eaten, shared>>

\* The compositor thread starts to poll its events.
PollBegin(t) ==
  /\ Runs(t) /\ t \in Pollers /\ at[t] = "run"
  /\ at' = [at EXCEPT ![t] = "eat"]
  /\ shared' = TRUE
  /\ UNCHANGED <<policyVars, queue, queue_read_ptr, queue_write_ptr, c, r, accepted, eaten>>

\* keyboard_eat_key up to the read of the key.
EatRead(t) ==
  /\ Runs(t) /\ at[t] = "eat" /\ ~Empty
  /\ c' = [c EXCEPT ![t] = queue[queue_read_ptr]]
  /\ r' = [r EXCEPT ![t] = queue_read_ptr]
  /\ at' = [at EXCEPT ![t] = "store"]
  /\ UNCHANGED <<policyVars, queue, queue_read_ptr, queue_write_ptr, accepted, eaten, shared>>

\* A faulty variant of EatStore: the pointer is not advanced.
EatStoreSame(t) ==
  /\ Runs(t) /\ at[t] = "store"
  /\ eaten' = IF Len(eaten) <= MaxKeys THEN Append(eaten, c[t]) ELSE eaten
  /\ at' = [at EXCEPT ![t] = "eat"]
  /\ c' = [c EXCEPT ![t] = 0] /\ r' = [r EXCEPT ![t] = 0]
  /\ UNCHANGED <<policyVars, queue, queue_read_ptr, queue_write_ptr, accepted, shared>>

\* The pointer is stored and the key handled.  The compiler may keep the
\* pointer in a register or read it again.
EatStore(t) ==
  /\ Runs(t) /\ at[t] = "store"
  /\ \E p \in {r[t], queue_read_ptr} : queue_read_ptr' = (p + 1) % QueueSize
  /\ eaten' = IF Len(eaten) <= MaxKeys THEN Append(eaten, c[t]) ELSE eaten
  /\ at' = [at EXCEPT ![t] = "eat"]
  /\ c' = [c EXCEPT ![t] = 0] /\ r' = [r EXCEPT ![t] = 0]
  /\ UNCHANGED <<policyVars, queue, queue_write_ptr, accepted, shared>>

\* keyboard_eat_key returns 0: the boot thread goes on to hlt, the compositor
\* returns to its program.
EatNone(t) ==
  /\ Runs(t) /\ at[t] = "eat" /\ Empty
  /\ at' = [at EXCEPT ![t] = IF t = Boot THEN "hlt" ELSE "run"]
  /\ UNCHANGED <<policyVars, queue, queue_read_ptr, queue_write_ptr, c, r, accepted, eaten, shared>>

\* An interrupt ends the hlt of the main loop.
MainResume ==
  /\ Runs(Boot) /\ at[Boot] = "hlt"
  /\ at' = [at EXCEPT ![Boot] = "clear"]
  /\ UNCHANGED <<policyVars, queue, queue_read_ptr, queue_write_ptr, c, r, accepted, eaten, shared>>

\* A compositor that finds no event wakes the boot thread and yields.
PollIdle(t) ==
  /\ Runs(t) /\ t \in Pollers /\ at[t] = "run"
  /\ Wake
  /\ UNCHANGED keyVars

BootStep == MainClear \/ EatRead(Boot) \/ EatStore(Boot) \/ EatNone(Boot) \/ MainResume

InputNext ==
  \/ \E k \in Keys : KeyPress(k)
  \/ BootStep
  \/ \E t \in Pollers : PollBegin(t) \/ EatRead(t) \/ EatStore(t) \/ EatNone(t) \/ PollIdle(t)
  \/ (SetReady \/ \E t \in Task : Switch(t)) /\ UNCHANGED keyVars

InputSpec == InputInit /\ [][InputNext]_inputVars

\* The timer keeps switching tasks, and the boot thread, when it has the CPU
\* again and again, gets on with its loop.
InputFairness ==
  /\ SF_inputVars((\E t \in Task : Switch(t)) /\ UNCHANGED keyVars)
  /\ SF_inputVars(BootStep)

FairInputSpec == InputSpec /\ InputFairness

------------------------------------------------------------------------------
(* Properties *)

\* Every key the interrupt handler queued comes out once and in order, at full
\* and at wrapped-around pointers and with keys arriving inside
\* keyboard_eat_key, as long as the main loop is the only consumer.
KeysOnceInOrder == ~shared => IsPrefix(eaten, accepted)

\* Once nothing but the boot thread wants the CPU, typed keys are handled.
DrainedWhenIdle ==
  <>[](ready = {Boot}) => (~Empty ~> Empty)
==============================================================================
