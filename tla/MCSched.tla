------------------------------- MODULE MCSched -------------------------------
(* KernSched on a small instance for TLC. *)
EXTENDS KernSched
==============================================================================
