---------------------------- MODULE DriverListMC ----------------------------
(* Module DriverList with a driver that is loaded in two versions and another. *)
EXTENDS DriverList, TLC

CONSTANTS a1, a2, b, A, B

NameOf == (a1 :> A) @@ (a2 :> A) @@ (b :> B)
=============================================================================
