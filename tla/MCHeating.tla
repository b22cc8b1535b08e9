----------------------------- MODULE MCHeating -----------------------------
(* Two zones with one valve each, or one zone with a pressure group of two. *)
EXTENDS Heating, TLC

CONSTANTS a, b       \* the valves

TwoZones == (a :> 1) @@ (b :> 2)
OneZone  == (a :> 1) @@ (b :> 1)
Group    == {{a, b}}
=============================================================================
