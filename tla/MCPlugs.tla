------------------------------ MODULE MCPlugs ------------------------------
(* One plug; the rules differ in threshold and in holdoff. *)
EXTENDS Plugs

MCWatts == [r \in Rules |-> IF r = 1 THEN 1 ELSE 2]
MCReadings == {-2, 0, 1, 2}
MCHoldoff == [r \in Rules |-> IF r = 1 THEN 2 ELSE 1]
=============================================================================
