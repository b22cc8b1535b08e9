---------------------------- MODULE PlugsProofs ----------------------------
(***************************************************************************)
(* Proofs about Plugs, for every set of rules, thresholds, holdoffs and    *)
(* readings.  The inductive invariant is TypeOK /\ RulesComplete /\        *)
(* IdleClockQuiet; the two action properties follow from it.               *)
(***************************************************************************)
EXTENDS Plugs, TassProofs

-----------------------------------------------------------------------------
(* Facts about the rule operators.  A rule map is a partial function from   *)
(* rules to rule states.                                                    *)

RuleMap(ks) == DOMAIN ks \subseteq Rules /\ ks \in [DOMAIN ks -> RuleStates]

LEMMA RuleStateType ==
  ASSUME NEW ks, RuleMap(ks), NEW r PROVE RuleState(ks, r) \in RuleStates
  BY AgeZero DEF RuleMap, RuleState, RuleStates, Inactive

LEMMA EffectiveType == \A o \in Overrides : RulesUnder(o) \subseteq Rules
  BY DEF RulesUnder, Rules

LEMMA ClearedType ==
  ASSUME NEW ks, RuleMap(ks)
  PROVE  RuleMap(Cleared(ks)) /\ DOMAIN Cleared(ks) = DOMAIN ks
  BY AgeZero DEF RuleMap, Cleared, RuleStates, Inactive

LEMMA AllSuppressedType ==
  ASSUME NEW ks, RuleMap(ks)
  PROVE  RuleMap(AllSuppressed(ks)) /\ DOMAIN AllSuppressed(ks) = DOMAIN ks
  BY AgeZero DEF RuleMap, AllSuppressed, RuleStates, Suppressed

LEMMA ArmRulesType ==
  ASSUME NEW ks, RuleMap(ks), NEW e \in SUBSET Rules, NEW s
  PROVE  /\ RuleMap(ArmRules(ks, e, s))
         /\ DOMAIN ArmRules(ks, e, s) = DOMAIN ks \cup e
<1>1. \A r \in DOMAIN ks \cup e : ArmRules(ks, e, s)[r] \in RuleStates
  BY RuleStateType, AgeZero DEF ArmRules, RuleStates, IdleNow, Armed
<1> QED
  BY <1>1 DEF RuleMap, ArmRules

\* Arming a map with none or all of the rules in force yields all of them.
LEMMA ArmRulesDomain ==
  ASSUME NEW ks, NEW e, NEW s, DOMAIN ks \in {{}, e}
  PROVE  DOMAIN ArmRules(ks, e, s) = e
<1>1. DOMAIN ArmRules(ks, e, s) = DOMAIN ks \cup e
  BY DEF ArmRules
<1> QED
  BY <1>1

LEMMA NoRulesType == RuleMap(NoRules) /\ DOMAIN NoRules = {}
  BY DEF RuleMap, NoRules

\* evaluate_kill_switch yields a rule map with an entry for every rule in
\* force, provided the map had none or all of them.
LEMMA EvaluatedType ==
  ASSUME NEW ks, RuleMap(ks), NEW w, override \in Overrides,
         DOMAIN ks \in {{}, EffectiveRules}
  PROVE  RuleMap(Evaluated(ks, w)) /\ DOMAIN Evaluated(ks, w) = EffectiveRules
<1> DEFINE fired == FiredBy(ks, w)
           seen  == {r \in EffectiveRules : \A q \in fired : r =< q}
           next  == [r \in DOMAIN ks \cup seen |->
                       IF r \in seen THEN RuleStep(RuleState(ks, r), r, w)
                                     ELSE ks[r]]
<1>1. EffectiveRules \subseteq Rules
  BY EffectiveType DEF EffectiveRules
<1>2. DOMAIN next = EffectiveRules
  <2>1. CASE fired = {}
    BY <2>1
  <2>2. CASE fired # {}
    <3>1. DOMAIN ks # {}
      BY <2>2 DEF FiredBy, RuleState, Inactive
    <3> QED
      BY <3>1
  <2> QED
    BY <2>1, <2>2
<1>3. RuleMap(next)
  <2>1. \A r \in DOMAIN next : next[r] \in RuleStates
    BY RuleStateType, AgeZero DEF RuleMap, RuleStep, RuleStates, Armed, IdleNow
  <2> QED
    BY <1>1, <1>2, <2>1 DEF RuleMap
<1>4. Evaluated(ks, w) = IF fired = {} THEN next ELSE AllSuppressed(next)
  BY DEF Evaluated
<1> HIDE DEF next, fired
<1> QED
  BY <1>2, <1>3, <1>4, AllSuppressedType
-----------------------------------------------------------------------------
(* Types, and completeness of the rule map *)

LEMMA TypeOKRules == TypeOK => RuleMap(rules)
  BY DEF TypeOK, RuleMap

LEMMA ReadingType == PowerReports \subseteq Nat \cup {NoReading}
  BY PlugsAssumption DEF PowerReports, Clamped

LEMMA MaybeConfirmType ==
  ASSUME NEW t \in TassTarget(Switch), NEW a
  PROVE  MaybeConfirm(t, a) \in TassTarget(Switch)
  BY TargetOps DEF MaybeConfirm

\* One step keeps the types and the completeness of the rule map.
LEMMA TypeStep ==
  ASSUME TypeOK, RulesComplete, [Next]_vars
  PROVE  TypeOK' /\ RulesComplete'
<1> USE DEF Switch
<1>a. RuleMap(rules)
  BY TypeOKRules
<1>b. /\ EffectiveRules \subseteq Rules
      /\ \A o \in Overrides : RulesUnder(o) \subseteq Rules
  BY EffectiveType DEF EffectiveRules, TypeOK
<1>c. /\ "User" \in Owners /\ "WebUI" \in Owners /\ "Rule" \in Owners
      /\ TargetStale \in Nat /\ PlugStale \in Nat
  BY PlugsAssumption, MaxAgeAssumption DEF Owners
<1>d. ASSUME RuleMap(rules'), DOMAIN rules' \in {{}, EffectiveRules}, override' = override
      PROVE  /\ DOMAIN rules' \subseteq Rules
             /\ rules' \in [DOMAIN rules' -> RuleStates]
             /\ RulesComplete'
  BY <1>d DEF RuleMap, RulesComplete, EffectiveRules
<1>1. ASSUME NEW on \in {"On", "Off"}, NEW watts \in PowerReports,
             SetPlugActual(on, watts)
      PROVE  TypeOK' /\ RulesComplete'
  <2>1. actual' \in TassActual(Switch \cup {None})
    BY <1>1, ActualOps DEF SetPlugActual
  <2>2. power' \in TassActual(Nat \cup {NoReading})
    BY <1>1, ActualOps, ReadingType DEF SetPlugActual, TypeOK
  <2> QED
    BY <1>1, <2>1, <2>2 DEF SetPlugActual, TypeOK, RulesComplete, EffectiveRules
<1>2. CASE EnterEventLoop
  <2>1. RuleMap(rules') /\ DOMAIN rules' \in {{}, EffectiveRules}
    BY <1>2, <1>a, <1>b, ArmRulesType DEF EnterEventLoop, RulesComplete
  <2> QED
    BY <1>2, <1>d, <2>1 DEF EnterEventLoop, TypeOK
<1>3. ASSUME NEW on \in {"On", "Off", None},
             NEW watts \in PowerReports, PlugState(on, watts)
      PROVE  TypeOK' /\ RulesComplete'
  <2>1. actual' \in TassActual(Switch \cup {None})
    BY <1>3, ActualOps DEF PlugState, TypeOK
  <2>2. power' \in TassActual(Nat \cup {NoReading})
    BY <1>3, ActualOps, ReadingType DEF PlugState, TypeOK
  <2>3. /\ target' \in TassTarget(Switch)
        /\ RuleMap(rules') /\ DOMAIN rules' \in {{}, EffectiveRules}
    <3>1. CASE on = "Off"
      BY <1>3, <1>a, <3>1, MaybeConfirmType, ClearedType
         DEF PlugState, PlugStateOff, TypeOK, RulesComplete
    <3>2. CASE on # "Off" /\ IsOn(target, actual')
      <4> DEFINE rose  == on = "On" /\ (~IsOn(target, actual)
                                         \/ actual.freshness = "Unknown")
                 armed == IF rose THEN ArmRules(rules, EffectiveRules, watts)
                                  ELSE rules
                 known == IF on = None THEN target
                          ELSE MaybeConfirm(target, actual')
      <4>1. RuleMap(armed) /\ DOMAIN armed \in {{}, EffectiveRules}
        BY <1>a, <1>b, ArmRulesType DEF RulesComplete
      <4>2. known \in TassTarget(Switch)
        BY MaybeConfirmType DEF TypeOK
      <4>3. Commanded("Off", "Rule") \in TassTarget(Switch)
        BY <1>c, TargetOps
      <4>4. PlugStateOn(on, watts)
        BY <1>3, <3>2 DEF PlugState
      <4>5. \/ rules' = armed /\ target' = known
            \/ /\ rules' = Evaluated(armed, power'.value)
               /\ target' \in {known, Commanded("Off", "Rule")}
        BY <4>4 DEF PlugStateOn
      <4> HIDE DEF armed, known
      <4>6. override \in Overrides
        BY DEF TypeOK
      <4> QED
        BY <4>1, <4>2, <4>3, <4>5, <4>6, EvaluatedType
    <3>3. CASE on # "Off" /\ ~IsOn(target, actual')
      BY <1>3, <1>a, <3>3 DEF PlugState, TypeOK, RulesComplete
    <3> QED
      BY <3>1, <3>2, <3>3
  <2>4. quiet' \in [Rules -> Ages]
    BY <1>3, AgeZero DEF PlugState, TypeOK
  <2> QED
    BY <1>3, <1>d, <2>1, <2>2, <2>3, <2>4 DEF PlugState, TypeOK
<1>4. ASSUME NEW confirm \in BOOLEAN, Toggle(confirm)
      PROVE  TypeOK' /\ RulesComplete'
  <2>1. target' \in TassTarget(Switch)
    BY <1>4, <1>c, TargetOps DEF Toggle, TypeOK
  <2>2. RuleMap(rules') /\ DOMAIN rules' \in {{}, EffectiveRules}
    BY <1>4, <1>a, ClearedType DEF Toggle, RulesComplete
  <2>3. confirmOff' \in Ages \cup {NoPending}
    BY <1>4, AgeZero DEF Toggle, TypeOK
  <2> QED
    BY <1>4, <1>d, <2>1, <2>2, <2>3 DEF Toggle, TypeOK
<1>5. CASE TurnOn
  BY <1>5, <1>c, TargetOps DEF TurnOn, TypeOK, RulesComplete, EffectiveRules
<1>6. CASE TurnOff
  <2>1. RuleMap(rules') /\ DOMAIN rules' \in {{}, EffectiveRules}
    BY <1>6, <1>a, ClearedType DEF TurnOff, RulesComplete
  <2>2. target' \in TassTarget(Switch)
    BY <1>6, <1>c, TargetOps DEF TurnOff
  <2> QED
    BY <1>6, <1>d, <2>1, <2>2 DEF TurnOff, TypeOK
<1>7. ASSUME NEW on \in Switch, WebSetPlugPower(on)
      PROVE  TypeOK' /\ RulesComplete'
  BY <1>7, <1>c, TargetOps
     DEF WebSetPlugPower, TypeOK, RulesComplete, EffectiveRules
<1>8. ASSUME NEW o \in Overrides, ApplyPlugOverride(o)
      PROVE  TypeOK' /\ RulesComplete'
  <2>1. RuleMap(rules') /\ DOMAIN rules' \in {{}, RulesUnder(o)}
    <3>1. rules' \in {NoRules, ArmRules(NoRules, RulesUnder(o), power.value)}
      BY <1>8 DEF ApplyPlugOverride
    <3>2. RulesUnder(o) \in SUBSET Rules
      BY EffectiveType
    <3>3. RuleMap(ArmRules(NoRules, RulesUnder(o), power.value))
      BY <3>2, NoRulesType, ArmRulesType
    <3>4. DOMAIN ArmRules(NoRules, RulesUnder(o), power.value) = RulesUnder(o)
      BY NoRulesType, ArmRulesDomain
    <3> QED
      BY <3>1, <3>3, <3>4, NoRulesType
  <2> QED
    BY <1>8, <2>1
       DEF ApplyPlugOverride, TypeOK, RuleMap, RulesComplete, EffectiveRules
<1>9. CASE Tick
  <2>1. RuleMap(rules') /\ DOMAIN rules' \in {{}, EffectiveRules}
    BY <1>9, <1>a, AllSuppressedType DEF Tick, RulesComplete
  <2>2. target' \in TassTarget(Switch)
    <3>1. (IF FiredByTick # {} THEN Commanded("Off", "Rule") ELSE target)
            \in TassTarget(Switch)
      BY <1>c, TargetOps DEF TypeOK
    <3> QED
      BY <1>9, <1>c, <3>1, TargetOps DEF Tick
  <2>3. actual' \in TassActual(Switch \cup {None})
    BY <1>9, <1>c, ActualOps DEF Tick, TypeOK
  <2>4. power' \in TassActual(Nat \cup {NoReading})
    BY <1>9, <1>c, ActualOps DEF Tick, TypeOK
  <2> QED
    BY <1>9, <1>d, <2>1, <2>2, <2>3, <2>4 DEF Tick, TypeOK
<1>10. CASE Advance
  <2>1. RuleMap(rules') /\ DOMAIN rules' \in {{}, EffectiveRules}
    BY <1>10, <1>a, OlderType DEF Advance, RuleMap, RuleStates, RulesComplete
  <2>2. target' \in TassTarget(Switch)
    BY <1>10, TargetOps DEF Advance, TypeOK
  <2>3. actual' \in TassActual(Switch \cup {None})
    BY <1>10, ActualOps DEF Advance, TypeOK
  <2>4. power' \in TassActual(Nat \cup {NoReading})
    BY <1>10, ActualOps DEF Advance, TypeOK
  <2>5. quiet' \in [Rules -> Ages] /\ confirmOff' \in Ages \cup {NoPending}
    BY <1>10, OlderType DEF Advance, TypeOK
  <2> QED
    BY <1>10, <1>d, <2>1, <2>2, <2>3, <2>4, <2>5 DEF Advance, TypeOK
<1>11. CASE Restart
  <2>1. RuleMap(rules') /\ DOMAIN rules' \in {{}, EffectiveRules}
    BY <1>11, NoRulesType DEF Restart
  <2>2. /\ target' \in TassTarget(Switch)
        /\ actual' \in TassActual(Switch \cup {None})
        /\ power' \in TassActual(Nat \cup {NoReading})
    BY <1>11, TargetOps, ActualOps DEF Restart
  <2> QED
    BY <1>11, <1>d, <2>1, <2>2, AgeZero DEF Restart, TypeOK
<1>12. CASE UNCHANGED vars
  BY <1>12 DEF vars, TypeOK, RulesComplete, EffectiveRules
<1> QED
  BY <1>1, <1>2, <1>3, <1>4, <1>5, <1>6, <1>7, <1>8, <1>9, <1>10, <1>11, <1>12
     DEF Next

LEMMA TypeInit == Init => TypeOK /\ RulesComplete
<1> SUFFICES ASSUME Init PROVE TypeOK /\ RulesComplete
  OBVIOUS
<1>1. RuleMap(rules) /\ DOMAIN rules = {}
  BY NoRulesType DEF Init, FreshState
<1>2. /\ target \in TassTarget(Switch)
      /\ actual \in TassActual(Switch \cup {None})
      /\ power \in TassActual(Nat \cup {NoReading})
  BY TargetOps, ActualOps DEF Init, FreshState
<1> QED
  BY <1>1, <1>2, AgeZero DEF Init, FreshState, TypeOK, RulesComplete, RuleMap

\* Types are preserved, and the rule map of a plug always has an entry for
\* all rules in force or for none, so a kill switch that fires suppresses all.
THEOREM TypeCorrect == Spec => [](TypeOK /\ RulesComplete)
<1>1. Init => TypeOK /\ RulesComplete
  BY TypeInit
<1>2. TypeOK /\ RulesComplete /\ [Next]_vars => (TypeOK /\ RulesComplete)'
  BY TypeStep
<1> QED
  BY <1>1, <1>2, PTL DEF Spec

-----------------------------------------------------------------------------
(* Holdoff clocks *)

\* Arming starts a holdoff clock at zero, and only on a low seed.
LEMMA ArmRulesIdle ==
  ASSUME NEW ks, NEW e, NEW s, NEW r \in e, ArmRules(ks, e, s)[r].state = "Idle"
  PROVE  ArmRules(ks, e, s)[r].age = 0
  BY DEF ArmRules, IdleNow, Armed

\* After an evaluation a clock runs only for a rule above the reading, and it
\* has just started or was running before with the same age.
LEMMA EvaluatedIdle ==
  ASSUME NEW ks, RuleMap(ks), NEW w \in Nat, override \in Overrides,
         DOMAIN ks \in {{}, EffectiveRules},
         NEW r \in EffectiveRules, Evaluated(ks, w)[r].state = "Idle"
  PROVE  /\ w < Watts[r]
         /\ \/ Evaluated(ks, w)[r].age = 0
            \/ r \in DOMAIN ks /\ Evaluated(ks, w)[r] = ks[r]
<1>1. CASE FiredBy(ks, w) = {}
  <2>1. /\ Evaluated(ks, w)[r] = RuleStep(RuleState(ks, r), r, w)
        /\ Watts[r] \in Nat
    BY <1>1, PlugsAssumption, EffectiveType DEF Evaluated, EffectiveRules
  <2> QED
    BY <2>1 DEF RuleStep, RuleState, Armed, IdleNow, Inactive
<1>2. CASE FiredBy(ks, w) # {}
  <2>1. r \in DOMAIN Evaluated(ks, w)
    BY EvaluatedType
  <2>2. Evaluated(ks, w)[r] = Suppressed
    BY <1>2, <2>1 DEF Evaluated, AllSuppressed
  <2> QED
    BY <2>2 DEF Suppressed
<1> QED
  BY <1>1, <1>2

\* One step keeps every running holdoff clock younger than the last reading
\* at or above the rule's threshold.
LEMMA QuietStep ==
  ASSUME TypeOK, RulesComplete, IdleClockQuiet, [Next]_vars
  PROVE  IdleClockQuiet'
<1> SUFFICES ASSUME NEW r \in DOMAIN rules', rules'[r].state = "Idle"
             PROVE  rules'[r].age =< quiet'[r]
  BY DEF IdleClockQuiet
<1>a. TypeOK' /\ RulesComplete'
  BY TypeStep
<1>b. r \in Rules /\ quiet[r] \in Nat /\ quiet'[r] \in Nat /\ 0 =< quiet'[r]
  BY <1>a DEF TypeOK, Ages
<1>c. RuleMap(rules)
  BY TypeOKRules
<1>d. ASSUME rules'[r].age = 0 PROVE rules'[r].age =< quiet'[r]
  BY <1>d, <1>b
<1>e. ASSUME r \in DOMAIN rules, rules'[r] = rules[r], quiet'[r] = quiet[r]
      PROVE  rules'[r].age =< quiet'[r]
  BY <1>e DEF IdleClockQuiet
<1>1. ASSUME NEW on \in Switch, NEW watts, SetPlugActual(on, watts)
      PROVE  rules'[r].age =< quiet'[r]
  BY <1>1, <1>e DEF SetPlugActual
<1>2. CASE EnterEventLoop
  <2>1. CASE rules' = rules
    BY <1>2, <1>e, <2>1 DEF EnterEventLoop
  <2>2. CASE rules' = ArmRules(rules, EffectiveRules, power.value)
    <3>1. DOMAIN rules' = EffectiveRules
      BY <2>2, ArmRulesDomain DEF RulesComplete
    <3> QED
      BY <1>d, <2>2, <3>1, ArmRulesIdle
  <2> QED
    BY <1>2, <2>1, <2>2 DEF EnterEventLoop
<1>3. ASSUME NEW on \in Switch \cup {None},
             NEW watts \in PowerReports, PlugState(on, watts)
      PROVE  rules'[r].age =< quiet'[r]
  <2>1. CASE on = "Off"
    <3>1. rules' = Cleared(rules)
      BY <1>3, <2>1 DEF PlugState, PlugStateOff
    <3> QED
      BY <3>1 DEF Cleared, Inactive
  <2>2. CASE on # "Off" /\ IsOn(target, actual')
    <3> DEFINE rose  == on = "On" /\ (~IsOn(target, actual)
                                       \/ actual.freshness = "Unknown")
               armed == IF rose THEN ArmRules(rules, EffectiveRules, watts)
                                ELSE rules
               last  == power'.value
    <3>1. PlugStateOn(on, watts)
      BY <1>3, <2>2 DEF PlugState
    <3>2. /\ RuleMap(armed) /\ DOMAIN armed \in {{}, EffectiveRules}
          /\ override \in Overrides
      <4>1. override \in Overrides /\ EffectiveRules \in SUBSET Rules
        BY EffectiveType DEF TypeOK, EffectiveRules
      <4>2. RuleMap(ArmRules(rules, EffectiveRules, watts))
        BY <1>c, <4>1, ArmRulesType
      <4>3. DOMAIN ArmRules(rules, EffectiveRules, watts) = EffectiveRules
        BY ArmRulesDomain DEF RulesComplete
      <4> QED
        BY <1>c, <4>1, <4>2, <4>3 DEF RulesComplete
    <3>3. ASSUME r \in DOMAIN armed, rules'[r] = armed[r], quiet'[r] = quiet[r]
          PROVE  rules'[r].age =< quiet'[r]
      <4>1. CASE rose
        <5>1. r \in EffectiveRules
          BY <3>3, <4>1, ArmRulesDomain DEF RulesComplete
        <5> QED
          BY <1>d, <3>3, <4>1, <5>1, ArmRulesIdle
      <4>2. CASE ~rose
        BY <1>e, <3>3, <4>2
      <4> QED
        BY <4>1, <4>2
    <3>4. watts # NoReading => last = watts
      BY <1>3 DEF PlugState, Observed
    <3>5. last \in Nat \cup {NoReading}
      BY <1>a DEF TypeOK, TassActual
    <3>6. watts < Watts[r] => quiet'[r] = quiet[r]
      BY <1>3, <1>b, ReadingType, PlugsAssumption DEF PlugState, NoReading
    <3>7. CASE last = NoReading
      <4>1. rules' = armed
        BY <3>1, <3>7 DEF PlugStateOn
      <4>2. watts = NoReading
        BY <3>4, <3>7, PlugsAssumption DEF NoReading
      <4>3. watts < Watts[r]
        BY <4>2, <1>b, PlugsAssumption DEF NoReading
      <4> QED
        BY <3>3, <3>6, <4>1, <4>3
    <3>8. CASE last # NoReading
      <4>1. rules' = Evaluated(armed, last)
        BY <3>1, <3>8 DEF PlugStateOn
      <4>2. r \in EffectiveRules
        BY <1>a, <1>3 DEF PlugState, RulesComplete, EffectiveRules
      <4> HIDE DEF armed
      <4>3. /\ last < Watts[r]
            /\ rules'[r].age = 0 \/ (r \in DOMAIN armed /\ rules'[r] = armed[r])
        BY <3>2, <3>5, <3>8, <4>1, <4>2, EvaluatedIdle
      <4>4. watts < Watts[r]
        BY <4>3, <3>4, <1>b, PlugsAssumption DEF NoReading
      <4> QED
        BY <1>d, <3>3, <3>6, <4>3, <4>4
    <3> QED
      BY <3>7, <3>8
  <2>3. CASE on # "Off" /\ ~IsOn(target, actual')
    BY <1>3, <1>b, <1>e, <2>3 DEF PlugState
  <2> QED
    BY <2>1, <2>2, <2>3
<1>4. ASSUME NEW confirm \in BOOLEAN, Toggle(confirm)
      PROVE  rules'[r].age =< quiet'[r]
  <2>1. CASE rules' = rules
    BY <1>4, <1>e, <2>1 DEF Toggle
  <2>2. CASE rules' = Cleared(rules)
    BY <2>2 DEF Cleared, Inactive
  <2> QED
    BY <1>4, <2>1, <2>2 DEF Toggle
<1>5. CASE TurnOn
  BY <1>5, <1>e DEF TurnOn
<1>6. CASE TurnOff
  BY <1>6 DEF TurnOff, Cleared, Inactive
<1>7. ASSUME NEW on \in Switch, WebSetPlugPower(on)
      PROVE  rules'[r].age =< quiet'[r]
  BY <1>7, <1>e DEF WebSetPlugPower
<1>8. ASSUME NEW o \in Overrides, ApplyPlugOverride(o)
      PROVE  rules'[r].age =< quiet'[r]
  <2>1. rules' = ArmRules(NoRules, RulesUnder(o), power.value)
    BY <1>8, NoRulesType DEF ApplyPlugOverride
  <2>2. DOMAIN rules' = RulesUnder(o)
    BY <2>1, NoRulesType, ArmRulesDomain
  <2> QED
    BY <1>d, <2>1, <2>2, ArmRulesIdle
<1>9. CASE Tick
  <2>1. CASE rules' = rules
    BY <1>9, <1>e, <2>1 DEF Tick
  <2>2. CASE rules' = AllSuppressed(rules)
    BY <2>2 DEF AllSuppressed, Suppressed
  <2> QED
    BY <1>9, <2>1, <2>2 DEF Tick
<1>10. CASE Advance
  <2>1. /\ r \in DOMAIN rules /\ rules[r].state = "Idle"
        /\ rules[r] \in RuleStates
        /\ rules'[r].age = Older(rules[r].age)
        /\ quiet'[r] = Older(quiet[r])
    BY <1>10, <1>b, <1>c DEF Advance, RuleMap, RuleStates
  <2>2. rules[r].age \in Ages /\ quiet[r] \in Ages /\ rules[r].age =< quiet[r]
    BY <2>1, <1>b DEF RuleStates, IdleClockQuiet, TypeOK
  <2> QED
    BY <2>1, <2>2, OlderMono
<1>11. CASE Restart
  BY <1>11, NoRulesType DEF Restart
<1>12. CASE UNCHANGED vars
  BY <1>12, <1>e DEF vars
<1> QED
  BY <1>1, <1>2, <1>3, <1>4, <1>5, <1>6, <1>7, <1>8, <1>9, <1>10, <1>11, <1>12
     DEF Next

\* No holdoff clock runs across a reading at or above the threshold that was
\* evaluated while the plug counted as on.
THEOREM HoldoffClocks == Spec => []IdleClockQuiet
<1>1. Init => IdleClockQuiet
  BY NoRulesType DEF Init, FreshState, IdleClockQuiet
<1>2. TypeOK /\ RulesComplete /\ IdleClockQuiet /\ [Next]_vars
        => IdleClockQuiet'
  BY QuietStep
<1> QED
  BY <1>1, <1>2, TypeCorrect, PTL DEF Spec

-----------------------------------------------------------------------------
(* What a kill may do *)

\* An aged clock that an evaluation completes was running before the report.
LEMMA FiredWasIdle ==
  ASSUME TypeOK, RulesComplete, IdleClockQuiet, NEW watts, NEW last,
         NEW armed \in {rules, ArmRules(rules, EffectiveRules, watts)},
         NEW q \in FiredBy(armed, last)
  PROVE  q \in EffectiveRules /\ quiet[q] >= Holdoff[q]
<1>1. /\ q \in EffectiveRules /\ q \in Rules
      /\ RuleState(armed, q).state = "Idle"
      /\ RuleState(armed, q).age >= Holdoff[q]
      /\ Holdoff[q] \in 1 .. MaxAge
  BY PlugsAssumption, EffectiveType DEF FiredBy, EffectiveRules, TypeOK
<1>2. q \in DOMAIN armed /\ armed[q].state = "Idle"
      /\ armed[q].age >= Holdoff[q]
  BY <1>1 DEF RuleState, Inactive
<1>3. armed[q].age # 0
  BY <1>1, <1>2, MaxAgeAssumption
<1>4. armed = rules
  BY <1>1, <1>2, <1>3, ArmRulesIdle
<1>5. rules[q].age \in Nat /\ quiet[q] \in Nat
  BY <1>1, <1>2, <1>4 DEF TypeOK, RuleStates, Ages
<1> QED
  BY <1>1, <1>2, <1>4, <1>5, MaxAgeAssumption DEF IdleClockQuiet

\* A kill switch turns its plug off only after a whole holdoff without a
\* reading at or above the threshold, and every kill commands Off.
THEOREM KillsAreEarned == Spec => KillAfterHoldoff
<1> DEFINE Earned == /\ target' = Commanded("Off", "Rule")
                     /\ \E r \in EffectiveRules : quiet[r] >= Holdoff[r]
<1>1. ASSUME TypeOK, RulesComplete, IdleClockQuiet, Next, Fires
      PROVE  Earned
  <2>1. PICK r \in DOMAIN rules \cap DOMAIN rules' :
               rules[r].state # "Suppressed" /\ rules'[r].state = "Suppressed"
    BY <1>1 DEF Fires
  <2>2. ASSUME NEW on \in Switch \cup {None},
               NEW watts \in PowerReports, PlugState(on, watts)
        PROVE  Earned
    <3> DEFINE rose  == on = "On" /\ (~IsOn(target, actual)
                                       \/ actual.freshness = "Unknown")
               armed == IF rose THEN ArmRules(rules, EffectiveRules, watts)
                                ELSE rules
               last  == power'.value
    <3>1. on # "Off"
      <4>1. ASSUME on = "Off" PROVE rules' = Cleared(rules)
        BY <2>2, <4>1 DEF PlugState, PlugStateOff
      <4> QED
        BY <2>1, <4>1 DEF Cleared, Inactive
    <3>2. IsOn(target, actual')
      BY <2>1, <2>2, <3>1 DEF PlugState
    <3>3. PlugStateOn(on, watts)
      BY <2>2, <3>1, <3>2 DEF PlugState
    <3>4. r \in DOMAIN armed => armed[r].state # "Suppressed"
      BY <2>1 DEF ArmRules, RuleState, Armed, IdleNow
    <3>5. /\ last # NoReading /\ rules' = Evaluated(armed, last)
          /\ target' = IF FiredBy(armed, last) # {}
                         THEN Commanded("Off", "Rule")
                         ELSE IF on = None THEN target
                              ELSE MaybeConfirm(target, actual')
      BY <2>1, <3>3, <3>4 DEF PlugStateOn
    <3>6. FiredBy(armed, last) # {}
      <4> HIDE DEF armed
      <4>1. RuleState(armed, r).state # "Suppressed"
        BY <3>4 DEF RuleState, Inactive
      <4>2. ASSUME FiredBy(armed, last) = {}
            PROVE  rules'[r].state # "Suppressed"
        <5>1. rules'[r] \in {RuleStep(RuleState(armed, r), r, last), armed[r]}
              /\ (r \in DOMAIN armed \/ r \in EffectiveRules)
              /\ (r \notin EffectiveRules => rules'[r] = armed[r] /\ r \in DOMAIN armed)
              /\ (r \in EffectiveRules
                    => rules'[r] = RuleStep(RuleState(armed, r), r, last))
          BY <2>1, <3>5, <4>2 DEF Evaluated
        <5> QED
          BY <5>1, <4>1, <3>4 DEF RuleStep, Armed, IdleNow
      <4> QED
        BY <2>1, <4>2
    <3>7. PICK q \in FiredBy(armed, last) : TRUE
      BY <3>6
    <3>8. q \in EffectiveRules /\ quiet[q] >= Holdoff[q]
      BY <1>1, <3>7, FiredWasIdle
    <3> QED
      BY <3>5, <3>6, <3>8
  <2>3. CASE Tick
    <3>1. FiredByTick # {}
      BY <2>1, <2>3 DEF Tick
    <3>2. PICK q \in FiredByTick : TRUE
      BY <3>1
    <3>3. /\ q \in EffectiveRules /\ q \in Rules /\ q \in DOMAIN rules
          /\ rules[q].state = "Idle" /\ rules[q].age >= Holdoff[q]
          /\ Holdoff[q] \in Nat
      BY <1>1, <3>2, PlugsAssumption, EffectiveType
         DEF FiredByTick, IsIdle, EffectiveRules, TypeOK
    <3>4. rules[q].age \in Nat /\ quiet[q] \in Nat /\ rules[q].age =< quiet[q]
      BY <1>1, <3>3 DEF TypeOK, RuleStates, Ages, IdleClockQuiet
    <3>5. target' = Commanded("Off", "Rule")
      BY <2>3, <3>1, PlugsAssumption DEF Tick, TargetAged, Commanded
    <3> QED
      BY <3>3, <3>4, <3>5
  <2>4. ASSUME rules' \in {rules, Cleared(rules)} PROVE FALSE
    BY <2>1, <2>4 DEF Cleared, Inactive
  <2>5. CASE EnterEventLoop
    BY <2>1, <2>5 DEF EnterEventLoop, ArmRules, RuleState, Armed, IdleNow
  <2>6. ASSUME NEW o \in Overrides, ApplyPlugOverride(o) PROVE FALSE
    BY <2>1, <2>6 DEF ApplyPlugOverride, ArmRules, RuleState, Armed, IdleNow,
       NoRules, Inactive
  <2>7. CASE Advance
    BY <2>1, <2>7 DEF Advance
  <2>8. CASE Restart
    BY <2>1, <2>8, NoRulesType DEF Restart
  <2> QED
    BY <1>1, <2>2, <2>3, <2>4, <2>5, <2>6, <2>7, <2>8
       DEF Next, SetPlugActual, Toggle, TurnOn, TurnOff, WebSetPlugPower
<1>2. TypeOK /\ RulesComplete /\ IdleClockQuiet /\ [Next]_vars
        => [Fires => Earned]_vars
  BY <1>1
<1> QED
  BY <1>2, TypeCorrect, HoldoffClocks, PTL DEF Spec, KillAfterHoldoff

\* A rule that fired stays suppressed until a reading at or above its
\* threshold on a plug that is on, a new rule set, or a restart.
THEOREM SuppressionLasts == Spec => SuppressionHolds
<1> DEFINE Kept(r) == r \in DOMAIN rules' /\ rules'[r].state = "Suppressed"
           Holds(r) == \/ Kept(r)
                       \/ IsOn(target', actual') /\ power'.value >= Watts[r]
                       \/ rules' = NoRules /\ ~running'
                       \/ \E o \in Overrides : ApplyPlugOverride(o)
<1>1. ASSUME TypeOK, RulesComplete, Next, NEW r \in DOMAIN rules,
             rules[r].state = "Suppressed"
      PROVE  Holds(r)
  <2>a. r \in EffectiveRules /\ RuleMap(rules) /\ Watts[r] \in Nat
    BY <1>1, TypeOKRules, PlugsAssumption DEF RulesComplete, TypeOK
  <2>1. ASSUME rules' \in {rules, Cleared(rules), AllSuppressed(rules)}
        PROVE  Kept(r)
    BY <1>1, <2>1 DEF Cleared, AllSuppressed, Suppressed
  <2>2. CASE EnterEventLoop
    BY <1>1, <2>2, <2>a DEF EnterEventLoop, ArmRules, RuleState
  <2>3. ASSUME NEW on \in Switch \cup {None},
               NEW watts \in PowerReports, PlugState(on, watts)
        PROVE  Holds(r)
    <3> DEFINE rose  == on = "On" /\ (~IsOn(target, actual)
                                       \/ actual.freshness = "Unknown")
               armed == IF rose THEN ArmRules(rules, EffectiveRules, watts)
                                ELSE rules
               last  == power'.value
    <3>1. CASE on = "Off"
      BY <2>1, <2>3, <3>1 DEF PlugState, PlugStateOff
    <3>2. CASE on # "Off" /\ IsOn(target, actual')
      <4>1. PlugStateOn(on, watts)
        BY <2>3, <3>2 DEF PlugState
      <4>2. /\ RuleMap(armed) /\ DOMAIN armed = EffectiveRules
            /\ armed[r] = rules[r] /\ override \in Overrides
        <5>1. DOMAIN rules = EffectiveRules /\ override \in Overrides
              /\ EffectiveRules \subseteq Rules
          BY <1>1, <2>a, EffectiveType DEF RulesComplete, TypeOK, EffectiveRules
        <5> QED
          BY <1>1, <2>a, <5>1, ArmRulesType DEF ArmRules, RuleState
      <4>3. rules' = armed \/ rules' = Evaluated(armed, last)
        BY <4>1 DEF PlugStateOn
      <4>4. \/ target' = target
            \/ target' = Commanded("Off", "Rule") /\ FiredBy(armed, last) # {}
            \/ target' = MaybeConfirm(target, actual')
        BY <4>1 DEF PlugStateOn
      <4> HIDE DEF armed
      <4>5. CASE rules' = armed
        BY <1>1, <2>a, <4>2, <4>5
      <4>6. CASE rules' = Evaluated(armed, last) /\ FiredBy(armed, last) # {}
        BY <2>a, <4>2, <4>6, EvaluatedType DEF Evaluated, AllSuppressed, Suppressed
      <4>7. CASE rules' = Evaluated(armed, last) /\ FiredBy(armed, last) = {}
        <5>1. r \in DOMAIN rules' /\ rules'[r] = RuleStep(rules[r], r, last)
          BY <2>a, <4>2, <4>7 DEF Evaluated, RuleState
        <5>2. last >= Watts[r] \/ rules'[r] = rules[r]
          BY <1>1, <5>1 DEF RuleStep
        <5>3. target'.value = target.value
          BY <1>1, <4>4, <4>7
             DEF MaybeConfirm, Confirmed, TypeOK, TassTarget
        <5>4. IsOn(target', actual')
          BY <3>2, <5>3 DEF IsOn
        <5> QED
          BY <1>1, <5>1, <5>2, <5>4
      <4> QED
        BY <4>3, <4>5, <4>6, <4>7
    <3>3. CASE on # "Off" /\ ~IsOn(target, actual')
      BY <2>1, <2>3, <3>3 DEF PlugState
    <3> QED
      BY <3>1, <3>2, <3>3
  <2>4. CASE Advance
    BY <1>1, <2>4 DEF Advance
  <2>5. CASE Restart
    BY <2>5 DEF Restart
  <2> QED
    BY <1>1, <2>1, <2>2, <2>3, <2>4, <2>5
       DEF Next, SetPlugActual, Toggle, TurnOn, TurnOff, WebSetPlugPower, Tick
<1>2. TypeOK /\ RulesComplete /\ [Next]_vars
        => [\A r \in DOMAIN rules : rules[r].state = "Suppressed" => Holds(r)]_vars
  BY <1>1
<1> QED
  BY <1>2, TypeCorrect, PTL DEF Spec, SuppressionHolds

=============================================================================
