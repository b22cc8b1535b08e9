----------------------------- MODULE TassProofs -----------------------------
(***************************************************************************)
(* Lemmas about the target/actual operators of Tass, for every value type. *)
(* The component proofs cite them.                                         *)
(***************************************************************************)
EXTENDS Tass, TLAPS

\* An age stays within its bound and never decreases when time passes.
LEMMA OlderType == \A a \in Ages : Older(a) \in Ages /\ Older(a) >= a
  BY MaxAgeAssumption DEF Older, Ages

\* Time passing preserves the order of two ages.
LEMMA OlderMono == \A a, b \in Ages : a =< b => Older(a) =< Older(b)
  BY MaxAgeAssumption DEF Older, Ages

LEMMA AgeZero == 0 \in Ages
  BY MaxAgeAssumption DEF Ages

\* Every target operation yields a target of the same type
\* (set_and_command, adopt, reassign_owner, confirm, mark_stale_if_old).
LEMMA TargetOps ==
  ASSUME NEW T
  PROVE  /\ UnsetTarget \in TassTarget(T)
         /\ \A v \in T, w \in Owners : /\ Commanded(v, w) \in TassTarget(T)
                                       /\ Adopted(v, w) \in TassTarget(T)
         /\ \A t \in TassTarget(T) :
              /\ Confirmed(t) \in TassTarget(T)
              /\ TargetOlder(t) \in TassTarget(T)
              /\ \A w \in Owners : Reassigned(t, w) \in TassTarget(T)
              /\ \A n \in Nat : TargetAged(t, n) \in TassTarget(T)
<1>1. UnsetTarget \in TassTarget(T)
  BY AgeZero DEF UnsetTarget, TassTarget, TargetPhases
<1>2. \A v \in T, w \in Owners : /\ Commanded(v, w) \in TassTarget(T)
                                 /\ Adopted(v, w) \in TassTarget(T)
  BY AgeZero DEF Commanded, Adopted, TassTarget, TargetPhases
<1>3. ASSUME NEW t \in TassTarget(T)
      PROVE  /\ Confirmed(t) \in TassTarget(T)
             /\ TargetOlder(t) \in TassTarget(T)
             /\ \A w \in Owners : Reassigned(t, w) \in TassTarget(T)
             /\ \A n \in Nat : TargetAged(t, n) \in TassTarget(T)
  <2>1. /\ t.value \in T \cup {None} /\ t.phase \in TargetPhases
        /\ t.owner \in Owners \cup {None} /\ t.age \in Ages
        /\ t = [value |-> t.value, phase |-> t.phase, owner |-> t.owner,
                age |-> t.age]
    BY DEF TassTarget
  <2>2. Confirmed(t) \in TassTarget(T)
    BY AgeZero DEF Confirmed, TassTarget, TargetPhases
  <2>3. TargetOlder(t) \in TassTarget(T)
    BY <2>1, OlderType DEF TargetOlder, TassTarget
  <2>4. \A w \in Owners : Reassigned(t, w) \in TassTarget(T)
    BY <2>1, AgeZero DEF Reassigned, TassTarget
  <2>5. \A n \in Nat : TargetAged(t, n) \in TassTarget(T)
    BY <2>1 DEF TargetAged, TassTarget, TargetPhases
  <2> QED
    BY <2>2, <2>3, <2>4, <2>5
<1> QED
  BY <1>1, <1>2, <1>3

\* Every operation on a reading yields a reading of the same type.
LEMMA ActualOps ==
  ASSUME NEW T
  PROVE  /\ \A v \in T : UnknownActual(v) \in TassActual(T)
         /\ \A v \in T : Observed(v) \in TassActual(T)
         /\ \A a \in TassActual(T) :
              /\ ActualOlder(a) \in TassActual(T)
              /\ \A n \in Nat : ActualAged(a, n) \in TassActual(T)
  BY OlderType, AgeZero DEF TassActual, UnknownActual, Observed, ActualOlder,
     ActualAged, Freshness
=============================================================================
