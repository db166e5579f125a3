------------------------------- MODULE MCShmem -------------------------------
(* KernShmem with regions of more than one page. *)
EXTENDS KernShmem
==============================================================================
