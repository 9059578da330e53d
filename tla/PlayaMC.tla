------------------------------ MODULE PlayaMC ------------------------------
(* Module Playa, on the small instance its cfg gives. *)
EXTENDS Playa
=============================================================================
