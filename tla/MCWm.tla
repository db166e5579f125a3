-------------------------------- MODULE MCWm ---------------------------------
(* KernWm with one terminal, for what must happen in the end. *)
EXTENDS KernWm
==============================================================================
