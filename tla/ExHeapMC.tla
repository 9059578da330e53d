------------------------------ MODULE ExHeapMC ------------------------------
(* Model values for the external heap: see the cfg files. *)
EXTENDS ExHeap
=============================================================================
