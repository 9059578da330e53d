----------------------------- MODULE SndStreamMC -----------------------------
(* Module SndStream with a handful of rates and volumes. *)
EXTENDS SndStream

CONSTANTS r1, r2, v1
=============================================================================
