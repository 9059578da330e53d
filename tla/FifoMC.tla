------------------------------- MODULE FifoMC -------------------------------
(* Fifo for TLC: the bounds are in the cfg files. *)
EXTENDS Fifo
=============================================================================
