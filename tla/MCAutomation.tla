---------------------------- MODULE MCAutomation ----------------------------
(* A valve, a plug with a meter in one of the two deployments, a motion rule *)
(* with a row of an earlier release and a light group with motion sensors.   *)
EXTENDS Automation, MCConfiguration

Override(legal, sun, kill, scenes, at) ==
  [legal |-> legal, sun |-> sun, kill |-> kill, scenes |-> scenes, at |-> at]

MCKind == [k \in Keys |-> IF k = "hall" THEN "motion" ELSE IF k = "valve" THEN "boost"
                          ELSE IF k = "pump" THEN "plug" ELSE "rule"]

OldRow == Override(TRUE, FALSE, FALSE, {1}, <<>>)

MCOptions == [k \in Keys |->
  IF k = "hall" THEN FlagValues
  ELSE IF k = "valve" THEN [legal : {TRUE}, temp : Temps, ends : 0 .. MaxEpoch + 2]
  ELSE IF k = "pump" THEN {Override(TRUE, FALSE, TRUE, {}, <<0, 1>>)}
  ELSE {OldRow, Override(TRUE, TRUE, FALSE, {2}, <<>>)}]

MCDeployments ==
  {[known |-> Keys, metered |-> {"pump"}, scenes |-> [k \in Keys |-> {1, 2}], located |-> TRUE],
   [known |-> Keys \ {"hall"}, metered |-> {}, scenes |-> [k \in Keys |-> {1}], located |-> FALSE]}

MCLegacy == [k \in Keys |-> IF k = "stairs" THEN {OldRow} ELSE {}]

MCDeployed == [k \in Timed |-> 1]
=============================================================================
