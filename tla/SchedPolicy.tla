----------------------------- MODULE SchedPolicy -----------------------------
(***************************************************************************)
(* What sched_run_next promises about who gets the CPU, without its list:  *)
(* only a runnable task is switched to, and the boot thread, which mostly  *)
(* halts, is switched to only when input asked for it or nothing else can  *)
(* run.  KernSched implements this specification, KernInput builds on it.  *)
(***************************************************************************)

CONSTANTS Task, Boot

ASSUME BootAssumption == Boot \in Task

VARIABLES cpu,       \* the current task
          ready,     \* the tasks that are READY or RUNNING
          needs_run  \* sched_idle_needs_run

policyVars == <<cpu, ready, needs_run>>

PolicyInit == cpu = Boot /\ ready = {Boot} /\ needs_run = FALSE

\* The tasks other than the boot thread come and go, block and wake.
SetReady ==
  /\ \E R \in SUBSET (Task \ {Boot}) : ready' = R \cup {Boot}
  /\ UNCHANGED <<cpu, needs_run>>

Switch(t) ==
  /\ t \in ready \ {cpu}
  /\ t = Boot => needs_run \/ ready = {Boot}
  /\ cpu' = t
  /\ UNCHANGED <<ready, needs_run>>

Wake  == needs_run' = TRUE /\ UNCHANGED <<cpu, ready>>

Clear == needs_run' = FALSE /\ cpu = Boot /\ UNCHANGED <<cpu, ready>>

PolicyNext == SetReady \/ (\E t \in Task : Switch(t)) \/ Wake \/ Clear

PolicySpec == PolicyInit /\ [][PolicyNext]_policyVars
==============================================================================
