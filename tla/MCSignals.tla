------------------------------ MODULE MCSignals ------------------------------
(* KernSignals on a small instance for TLC. *)
EXTENDS KernSignals
==============================================================================
