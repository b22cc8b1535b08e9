-------------------------------- MODULE Tass --------------------------------
(***************************************************************************)
(* Target/actual state separation (crates/mqtt-controller/src/tass.rs).    *)
(*                                                                         *)
(* Every controllable entity of the controller is a pair                   *)
(*    (target value, phase, owner, since)  +  (actual value, freshness,    *)
(*    since).                                                              *)
(* The code keeps the Instant `since` and only ever asks whether           *)
(* now - since has reached some threshold, or which of two `since` is the  *)
(* earlier one.  The model keeps the age  now - since  instead, saturated  *)
(* at MaxAge, a bound no smaller than any threshold an age is compared     *)
(* with: a threshold test gives the same answer on the saturated age, time *)
(* never runs into a horizon, and liveness can be checked.                 *)
(***************************************************************************)
EXTENDS Integers

CONSTANT MaxAge                   \* bound: ages saturate here

ASSUME MaxAgeAssumption == MaxAge \in Nat \ {0}

Ages == 0 .. MaxAge

\* The clock: one unit of time has passed for a reading `age` old.
Older(age) == IF age < MaxAge THEN age + 1 ELSE MaxAge

None == "None"                    \* Option::None

Owners == {"User", "Motion", "Schedule", "WebUI", "System", "Rule"}

TargetPhases == {"Unset", "Pending", "Commanded", "Stale", "Confirmed"}

Freshness == {"Unknown", "Fresh", "Stale"}

-----------------------------------------------------------------------------
(* TassTarget<T> *)

TassTarget(T) == [value : T \cup {None}, phase : TargetPhases,
                  owner : Owners \cup {None}, age : Ages]

\* TassTarget::new
UnsetTarget == [value |-> None, phase |-> "Unset", owner |-> None, age |-> 0]

\* set_and_command: the command is emitted by the same handler.
Commanded(v, who) ==
  [value |-> v, phase |-> "Commanded", owner |-> who, age |-> 0]

\* adopt: take over an already observed value; callers guard the phase.
Adopted(v, who) ==
  [value |-> v, phase |-> "Confirmed", owner |-> who, age |-> 0]

AdoptablePhases == {"Unset", "Stale", "Confirmed"}

\* reassign_owner: an in-flight command keeps its clock.
Reassigned(t, who) ==
  IF t.value = None THEN t
  ELSE [t EXCEPT !.owner = who,
                 !.age = IF t.phase \in {"Commanded", "Pending"} THEN @ ELSE 0]

\* confirm panics outside these phases.
ConfirmablePhases == {"Commanded", "Stale", "Confirmed"}

Confirmed(t) == [t EXCEPT !.phase = "Confirmed", !.age = 0]

\* mark_stale_if_old, on the target
TargetAged(t, threshold) ==
  IF t.phase = "Commanded" /\ t.age >= threshold
    THEN [t EXCEPT !.phase = "Stale"] ELSE t

\* is_actionable
IsActionable(t) == t.phase \in {"Commanded", "Pending"}

\* One unit of time passes; an Unset target has no `since`.
TargetOlder(t) ==
  IF t.phase = "Unset" THEN t ELSE [t EXCEPT !.age = Older(@)]

-----------------------------------------------------------------------------
(* TassActual<T>.  `none` is the value an Unknown reading carries. *)

TassActual(T) == [value : T, freshness : Freshness, age : Ages]

\* TassActual::new
UnknownActual(none) == [value |-> none, freshness |-> "Unknown", age |-> 0]

\* update
Observed(v) == [value |-> v, freshness |-> "Fresh", age |-> 0]

\* mark_stale_if_old, on the actual: the last value stays visible.
ActualAged(a, threshold) ==
  IF a.freshness = "Fresh" /\ a.age >= threshold
    THEN [a EXCEPT !.freshness = "Stale"] ELSE a

ActualOlder(a) ==
  IF a.freshness = "Unknown" THEN a ELSE [a EXCEPT !.age = Older(@)]
=============================================================================
