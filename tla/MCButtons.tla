----------------------------- MODULE MCButtons -----------------------------
(* A hardware double-tap button and a soft one that switch the same room. *)
EXTENDS Buttons

MCMapped == [b \in ButtonIds |->
               IF b = "hw" THEN {"Press", "DoubleTap"} ELSE {"Press", "Hold"}]

MCBound == [b \in ButtonIds |-> [g \in Gestures |->
              IF g = "Press" THEN {<<"Toggle", "kitchen">>}
              ELSE IF g = "DoubleTap" /\ b = "hw" THEN {<<"Cycle", "kitchen">>}
              ELSE IF g = "SoftDoubleTap" /\ b = "soft" THEN {<<"TurnOff", "kitchen">>}
              ELSE {}]]
=============================================================================
