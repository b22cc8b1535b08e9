-------------------------- MODULE MCHeatingSystem --------------------------
(* One zone with one valve. *)
EXTENDS HeatingSystem, TLC

CONSTANT a

AllInZone1 == (a :> 1)
=============================================================================
