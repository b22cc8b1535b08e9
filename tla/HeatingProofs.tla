--------------------------- MODULE HeatingProofs ---------------------------
(***************************************************************************)
(* Proofs about Heating, for every set of zones, valves, pressure groups   *)
(* and every value of the clocks.  The inductive invariant is              *)
(* TypeOK /\ PumpClocks /\ HoldReleased /\ ConfirmedOff.                   *)
(***************************************************************************)
EXTENDS HeatingSystem, TassProofs

-----------------------------------------------------------------------------
(* What a tick decides *)

\* Every zone target a tick leaves is a new OFF, a new ON of phase 1, or what
\* seeding and aging made of the old target.
LEMMA DecisionTarget ==
  ASSUME NEW v
  PROVE  /\ Decision(v).target =
              [z \in Zones |-> Decision(v).target[z]]
         /\ \A z \in Zones :
              \/ Decision(v).target[z] = Schedule("Off")
              \/ /\ Decision(v).target[z] = Schedule("Heating")
                 /\ z \in Starting(Seeded(Demand(v)), Demand(v))
              \/ Decision(v).target[z] = Seeded(Demand(v))[z]
<1> DEFINE d       == Demand(v)
           seeded  == Seeded(d)
           on      == Starting(seeded, d)
           started == Retargeted(seeded, on, "Heating")
           cancel  == Cancelled(started, d)
           rest    == Retargeted(started, cancel, "Off")
           off     == Stopping(rest, d, v)
<1>1. Decision(v).target = Retargeted(rest, off, "Off")
  BY DEF Decision
<1> HIDE DEF on, cancel, off, seeded
<1>2. Decision(v).target = [z \in Zones |-> Decision(v).target[z]]
  BY <1>1 DEF Retargeted
<1>3. \A z \in Zones : \/ Decision(v).target[z] = Schedule("Off")
                       \/ Decision(v).target[z] = Schedule("Heating") /\ z \in on
                       \/ Decision(v).target[z] = seeded[z]
  BY <1>1 DEF Retargeted
<1> QED
  BY <1>2, <1>3 DEF on, seeded

\* The min_cycle hold only concerns zones whose relay is on.
LEMMA DecisionHeld ==
  ASSUME NEW v PROVE Decision(v).held \subseteq RelaysOn
<1> DEFINE d       == Demand(v)
           seeded  == Seeded(d)
           on      == Starting(seeded, d)
           started == Retargeted(seeded, on, "Heating")
           cancel  == Cancelled(started, d)
           rest    == Retargeted(started, cancel, "Off")
<1>1. Decision(v).held = Held(rest, d, v)
  BY DEF Decision
<1> HIDE DEF rest, d
<1> QED
  BY <1>1 DEF Held, WantOff

\* A seeded OFF is backed by a relay that reported off.
LEMMA SeededFacts ==
  ASSUME TypeOK, NEW d, NEW z \in Zones
  PROVE  /\ Seeded(d)[z] \in TassTarget(ZoneTargets)
         /\ \/ /\ Seeded(d)[z] = Adopted("Heating", "Schedule")
               /\ target[z].phase = "Unset"
            \/ Seeded(d)[z] = Adopted("Off", "Schedule") /\ relay[z] = "Off"
            \/ Seeded(d)[z] = TargetAged(target[z], ZoneStale)
<1>1. TargetAged(target[z], ZoneStale) \in TassTarget(ZoneTargets)
  <2>1. target[z] \in TassTarget(ZoneTargets)
    BY DEF TypeOK
  <2>2. ZoneStale \in Nat
    BY HeatingAssumption, MaxAgeAssumption
  <2> QED
    BY <2>1, <2>2, TargetOps
<1>2. /\ Adopted("Heating", "Schedule") \in TassTarget(ZoneTargets)
      /\ Adopted("Off", "Schedule") \in TassTarget(ZoneTargets)
  BY TargetOps DEF ZoneTargets, Owners
<1> QED
  BY <1>1, <1>2 DEF Seeded, SeededZones, Known, AgedTargets, TypeOK, Reports

LEMMA DecisionType ==
  ASSUME TypeOK, NEW v
  PROVE  Decision(v).target \in [Zones -> TassTarget(ZoneTargets)]
<1>1. /\ Schedule("Off") \in TassTarget(ZoneTargets)
      /\ Schedule("Heating") \in TassTarget(ZoneTargets)
  BY TargetOps DEF ZoneTargets, Owners, Schedule
<1>2. \A z \in Zones : Seeded(Demand(v))[z] \in TassTarget(ZoneTargets)
  BY SeededFacts
<1>3. \A z \in Zones : Decision(v).target[z] \in TassTarget(ZoneTargets)
  BY <1>1, <1>2, DecisionTarget
<1> QED
  BY <1>3, DecisionTarget

-----------------------------------------------------------------------------
(* What the valve passes do *)

ValveMap(v) == v \in [Trvs -> Valves]

LEMMA NewValves ==
  /\ \A x \in ValveTargets, w \in {"Schedule", "WebUI", "Rule"} :
       ValveCommanded(x, w) \in Valves
  /\ \A p \in {"Commanded", "Confirmed"} : Placeholder(p) \in Valves
  /\ UnsetValve \in Valves
  BY HeatingAssumption
     DEF ValveCommanded, Placeholder, UnsetValve, Valves, ValveTargets

LEMMA PassTypes ==
  ASSUME TypeOK, NEW v, ValveMap(v), NEW temp \in [Trvs -> Temps],
         NEW open, NEW held
  PROVE  /\ ValveMap(Expired(v)) /\ ValveMap(Pressurised(v))
         /\ ValveMap(Scheduled(v, temp)) /\ ValveMap(WithOpenWindows(v, open))
         /\ ValveMap(HeldOpen(v, held))
<1>1. ValveMap(Expired(v))
  BY NewValves DEF ValveMap, Expired
<1>2. ValveMap(Pressurised(v))
  BY NewValves DEF ValveMap, Pressurised, ValveTargets, Forced
<1>3. ValveMap(Scheduled(v, temp))
  BY NewValves DEF ValveMap, Scheduled, ValveTargets, TypeOK
<1>4. ValveMap(WithOpenWindows(v, open))
  <2>1. [ValveCommanded("Inhibited", "Rule") EXCEPT !.left = InhibitFor]
          \in Valves
    BY HeatingAssumption DEF ValveCommanded, Valves, ValveTargets
  <2> QED
    BY <2>1 DEF ValveMap, WithOpenWindows
<1>5. ValveMap(HeldOpen(v, held))
  BY NewValves DEF ValveMap, HeldOpen, ValveTargets, Forced
<1> QED
  BY <1>1, <1>2, <1>3, <1>4, <1>5

LEMMA TickValvesType ==
  ASSUME TypeOK, NEW temp \in [Trvs -> Temps], NEW open
  PROVE  ValveMap(WithOpenWindows(ScheduledValves(temp), open))
<1>1. ValveMap(valve)
  BY DEF TypeOK, ValveMap
<1>2. ValveMap(Expired(valve))
  BY <1>1, PassTypes
<1>3. ValveMap(Pressurised(Expired(valve)))
  BY <1>2, PassTypes
<1>4. ValveMap(ScheduledValves(temp))
  BY <1>3, PassTypes DEF ScheduledValves
<1> QED
  BY <1>4, PassTypes

-----------------------------------------------------------------------------
(* Types *)

LEMMA Times ==
  ASSUME NEW a \in Ages \cup {NoTime}
  PROVE  OlderTime(a) \in Ages \cup {NoTime}
  BY OlderType DEF OlderTime

\* Spec => []TypeOK: every operation keeps the state well typed.
THEOREM TypeCorrect == Spec => []TypeOK
<1>1. Init => TypeOK
  BY TargetOps, NewValves, AgeZero
     DEF Init, Fresh, TypeOK, Reports, NoTime, Ages
<1>2. TypeOK /\ [Next]_vars => TypeOK'
  <2> SUFFICES ASSUME TypeOK, [Next]_vars PROVE TypeOK'
    OBVIOUS
  <2>1. ASSUME NEW temp \in [Trvs -> Temps], NEW open \in SUBSET WindowTrvs,
               Tick(temp, open)
        PROVE  TypeOK'
    <3> DEFINE v == WithOpenWindows(ScheduledValves(temp), open)
    <3>1. ValveMap(v)
      BY TickValvesType
    <3> HIDE DEF v
    <3>2. target' = Decision(v).target /\ valve' = HeldOpen(v, Decision(v).held)
      BY <2>1 DEF Tick, v
    <3>3. target' \in [Zones -> TassTarget(ZoneTargets)]
      BY <3>2, DecisionType
    <3>4. valve' \in [Trvs -> Valves]
      BY <3>1, <3>2, PassTypes, <2>1 DEF ValveMap
    <3> QED
      BY <2>1, <3>3, <3>4 DEF Tick, TypeOK, pumpVars
  <2>2. ASSUME NEW t \in Trvs, NEW demand \in BOOLEAN,
               NEW setpoint \in SetpointReports, TrvState(t, demand, setpoint)
        PROVE  TypeOK'
    <3>1. valve' \in [Trvs -> Valves]
      BY <2>2 DEF TrvState, TypeOK, Valves
    <3> QED
      BY <2>2, <3>1 DEF TrvState, TypeOK, pumpVars
  <2>3. ASSUME NEW z \in Zones, NEW on \in Reports, WallThermostatState(z, on)
        PROVE  TypeOK'
    <3>1. /\ target[z] \in TassTarget(ZoneTargets)
          /\ target[z].value \in ZoneTargets \cup {None}
          /\ target[z].owner \in Owners \cup {None}
      BY DEF TypeOK, TassTarget
    <3>2. relay' \in [Zones -> Reports \cup {"Unknown"}]
          /\ UNCHANGED <<raw, silent, enabled, boost>>
      BY <2>3 DEF WallThermostatState, TypeOK
    <3>3. CASE SameRelay(z, on)
      <4>1. target' \in [Zones -> TassTarget(ZoneTargets)]
        BY <3>1, <3>3, TargetOps DEF SameRelay, TypeOK, ZoneTargets, Owners
      <4>2. pumpOn' \in Ages \cup {NoTime} /\ pumpOff' \in Ages \cup {NoTime}
        BY <3>3, AgeZero DEF SameRelay, TypeOK
      <4> QED
        BY <3>2, <3>3, <4>1, <4>2 DEF SameRelay, TypeOK
    <3>4. CASE RelayTurnedOn(z) \/ RelayTurnedOff(z)
      <4>1. \A x \in {"On", "Off"}, y \in ZoneTargets :
              Redirtied(ConfirmedBy(target[z], y), x)
                \in TassTarget(ZoneTargets \cup {None})
        <5> SUFFICES ASSUME NEW x \in {"On", "Off"}, NEW y \in ZoneTargets
                     PROVE  Redirtied(ConfirmedBy(target[z], y), x)
                              \in TassTarget(ZoneTargets)
          BY DEF TassTarget
        <5> DEFINE t == ConfirmedBy(target[z], y)
        <5>1. t \in TassTarget(ZoneTargets)
          BY <3>1, TargetOps DEF ConfirmedBy
        <5> HIDE DEF t
        <5>2. t.value \in ZoneTargets \cup {None} /\ t.owner \in Owners \cup {None}
          BY <5>1 DEF TassTarget
        <5>3. Commanded(t.value, t.owner) \in TassTarget(ZoneTargets)
          BY <5>2, AgeZero DEF Commanded, TassTarget, TargetPhases
        <5> QED
          BY <5>1, <5>3 DEF Redirtied, t
      <4>2. target' \in [Zones -> TassTarget(ZoneTargets)]
        BY <3>4, <4>1 DEF RelayTurnedOn, RelayTurnedOff, TypeOK, ZoneTargets,
           TassTarget
      <4>3. valve' \in [Trvs -> Valves]
        BY <3>4, NewValves DEF RelayTurnedOn, RelayTurnedOff, TypeOK
      <4>4. /\ pumpOn' \in Ages \cup {NoTime} /\ pumpOff' \in Ages \cup {NoTime}
            /\ flip' \in Ages \cup {NoTime}
        BY <3>4, AgeZero DEF RelayTurnedOn, RelayTurnedOff, TypeOK, pumpVars
      <4> QED
        BY <3>2, <4>2, <4>3, <4>4 DEF TypeOK
    <3> QED
      BY <2>3, <3>3, <3>4 DEF WallThermostatState
  <2>4. CASE Advance
    <3>1. target' \in [Zones -> TassTarget(ZoneTargets)]
      BY <2>4, TargetOps DEF Advance, TypeOK
    <3>2. valve' \in [Trvs -> Valves]
      <4> SUFFICES ASSUME NEW t \in Trvs PROVE valve'[t] \in Valves
        BY <2>4 DEF Advance
      <4>1. valve'[t] = [valve[t] EXCEPT !.left = IF @ = 0 THEN 0 ELSE @ - 1]
        BY <2>4 DEF Advance
      <4>2. valve[t] \in Valves /\ valve[t].left \in 0 .. InhibitFor
        BY DEF TypeOK, Valves
      <4> QED
        BY <4>1, <4>2, HeatingAssumption DEF Valves
    <3> QED
      BY <2>4, <3>1, <3>2, Times DEF Advance, TypeOK
  <2>5. CASE Restart
    BY <2>5, TargetOps, NewValves DEF Restart, TypeOK, Reports, NoTime
  <2>6. ASSUME NEW t \in Trvs, \/ SetHeatDemand(t) \/ TrvSilent(t)
                               \/ \E b \in Temps \cup {None} : SetBoost(t, b)
        PROVE  TypeOK'
    BY <2>6 DEF SetHeatDemand, TrvSilent, SetBoost, TypeOK, pumpVars
  <2>7. CASE UNCHANGED vars
    BY <2>7 DEF vars, pumpVars, TypeOK
  <2> QED
    BY <2>1, <2>2, <2>3, <2>4, <2>5, <2>6, <2>7, HeatingAssumption
       DEF Next, TickStep
<1> QED
  BY <1>1, <1>2, PTL DEF Spec
-----------------------------------------------------------------------------
(* The pump clocks *)

LEMMA OlderTimeMono ==
  ASSUME NEW a \in Ages \cup {NoTime}, NEW b \in Ages \cup {NoTime}
  PROVE  /\ (OlderTime(a) = NoTime) <=> (a = NoTime)
         /\ a # NoTime /\ b # NoTime /\ a =< b => OlderTime(a) =< OlderTime(b)
  BY OlderType, OlderMono DEF OlderTime, NoTime, Ages

\* Spec => []PumpClocks: whatever the order of relay reports, pump_on_since and
\* pump_off_since tell when the pump, seen across all zones, started and
\* stopped.
THEOREM PumpClocksCorrect == Spec => []PumpClocks
<1>1. Init => PumpClocks
  BY DEF Init, Fresh, PumpClocks, RelaysOn
<1>2. TypeOK /\ PumpClocks /\ [Next]_vars => PumpClocks'
  <2> SUFFICES ASSUME TypeOK, PumpClocks, [Next]_vars PROVE PumpClocks'
    OBVIOUS
  <2>1. ASSUME NEW z \in Zones, NEW on \in Reports, WallThermostatState(z, on)
        PROVE  PumpClocks'
    <3>1. relay' = [relay EXCEPT ![z] = on] /\ relay \in [Zones -> Reports \cup {"Unknown"}]
      BY <2>1 DEF WallThermostatState, TypeOK
    <3>2. CASE (relay[z] = "On") = (on = "On")
      <4>1. SameRelay(z, on)
        BY <2>1, <3>2 DEF WallThermostatState
      <4>2. RelaysOn' = RelaysOn
        BY <3>1, <3>2 DEF RelaysOn
      <4> QED
        BY <4>1, <4>2 DEF SameRelay, PumpClocks, TypeOK, Ages, NoTime
    <3>3. CASE on = "On" /\ relay[z] # "On"
      <4>1. RelayTurnedOn(z)
        BY <2>1, <3>3 DEF WallThermostatState
      <4>2. RelaysOn' = RelaysOn \cup {z}
        BY <3>1, <3>3 DEF RelaysOn
      <4> QED
        BY <4>1, <4>2 DEF RelayTurnedOn, PumpClocks, pumpVars, NoTime
    <3>4. CASE on # "On" /\ relay[z] = "On"
      <4>1. RelayTurnedOff(z)
        BY <2>1, <3>4 DEF WallThermostatState
      <4>2. RelaysOn' = RelaysOn \ {z} /\ z \in RelaysOn
        BY <3>1, <3>4 DEF RelaysOn
      <4> QED
        BY <4>1, <4>2 DEF RelayTurnedOff, PumpClocks, pumpVars, NoTime
    <3> QED
      BY <3>2, <3>3, <3>4
  <2>2. CASE Advance
    <3>1. RelaysOn' = RelaysOn
      BY <2>2 DEF Advance, RelaysOn
    <3> QED
      BY <2>2, <3>1, OlderTimeMono DEF Advance, PumpClocks, TypeOK
  <2>3. CASE Restart
    BY <2>3 DEF Restart, PumpClocks, RelaysOn
  <2>4. CASE UNCHANGED <<relay, pumpVars>>
    BY <2>4 DEF PumpClocks, RelaysOn, pumpVars
  <2> QED
    BY <2>1, <2>2, <2>3, <2>4
       DEF Next, TickStep, Tick, TrvState, TrvSilent, SetHeatDemand, SetBoost,
           vars
<1> QED
  BY <1>1, <1>2, TypeCorrect, PTL DEF Spec

\* A tick commands a zone that was not heating only when the pump runs or
\* has been off for min_pause: phase 1 counts from a moment no earlier than
\* the observed stop.
THEOREM PauseRespected == Spec => StartRespectsPause
<1> DEFINE Respects == \A z \in Zones : NewStart(z) /\ RelaysOn = {} =>
                          flip = NoTime \/ flip >= MinPause
<1>1. TypeOK /\ PumpClocks /\ [Next]_vars => [Respects]_vars
  <2> SUFFICES ASSUME TypeOK, PumpClocks, Next, NEW z \in Zones, NewStart(z),
                      RelaysOn = {}
               PROVE  flip = NoTime \/ flip >= MinPause
    BY DEF NewStart
  <2>a. /\ target[z] \in TassTarget(ZoneTargets)
        /\ target'[z].value = "Heating" /\ target'[z].phase = "Commanded"
        /\ target[z].value # "Heating" /\ target'[z].age = 0
    BY DEF NewStart, Schedule, Commanded, TypeOK
  <2>1. ASSUME NEW temp \in [Trvs -> Temps], NEW open \in SUBSET WindowTrvs,
               Tick(temp, open)
        PROVE  flip = NoTime \/ flip >= MinPause
    <3> DEFINE v == WithOpenWindows(ScheduledValves(temp), open)
               d == Demand(v)
    <3>1. target' = Decision(v).target
      BY <2>1 DEF Tick
    <3> HIDE DEF v
    <3>2. \/ target'[z] = Schedule("Off")
          \/ z \in Starting(Seeded(d), d)
          \/ target'[z] = Seeded(d)[z]
      BY <3>1, DecisionTarget
    <3> HIDE DEF d
    <3>3. target'[z] # Schedule("Off")
      BY <2>a DEF Schedule, Commanded
    <3>4. target'[z] # Seeded(d)[z]
      <4>1. TargetAged(target[z], ZoneStale).value = target[z].value
        BY <2>a DEF TargetAged, TassTarget
      <4>2. \A x : Adopted(x, "Schedule").phase = "Confirmed"
        BY DEF Adopted
      <4> QED
        BY <2>a, <4>1, <4>2, SeededFacts
    <3>5. PauseOver
      BY <3>2, <3>3, <3>4 DEF Starting
    <3> QED
      BY <3>5, HeatingAssumption, MaxAgeAssumption
         DEF PauseOver, PumpClocks, TypeOK, Ages, NoTime
  <2>2. ASSUME NEW y \in Zones, NEW on \in Reports, WallThermostatState(y, on)
        PROVE  FALSE
    <3>1. \/ target'[z] = target[z]
          \/ target'[z] = Adopted("Off", "Schedule")
          \/ target'[z] = Confirmed(target[z])
          \/ \E x \in {"Heating", "Off"}, w \in {"On", "Off"} :
               target'[z] = Redirtied(ConfirmedBy(target[z], x), w)
      BY <2>2 DEF WallThermostatState, SameRelay, RelayTurnedOn,
                  RelayTurnedOff, TypeOK
    <3>2. target'[z].value \in {target[z].value, "Off"}
      <4>1. Confirmed(target[z]).value = target[z].value
        BY <2>a DEF Confirmed, TassTarget
      <4>2. \A x, w : Redirtied(ConfirmedBy(target[z], x), w).value
                       = target[z].value
        BY <4>1 DEF Redirtied, ConfirmedBy, Commanded
      <4> QED
        BY <3>1, <4>1, <4>2 DEF Adopted
    <3> QED
      BY <2>a, <3>2
  <2>3. CASE Advance
    <3>1. target'[z].value = target[z].value
      BY <2>3, <2>a DEF Advance, TargetOlder, TassTarget
    <3> QED
      BY <2>a, <3>1
  <2>4. CASE Restart
    BY <2>4, <2>a DEF Restart, UnsetTarget
  <2>5. CASE target' = target
    BY <2>5, <2>a
  <2> QED
    BY <2>1, <2>2, <2>3, <2>4, <2>5
       DEF Next, TickStep, TrvState, TrvSilent, SetHeatDemand, SetBoost
<1> QED
  BY <1>1, TypeCorrect, PumpClocksCorrect, PTL DEF Spec, StartRespectsPause

-----------------------------------------------------------------------------
(* Confirmed OFF *)

\* Spec => []ConfirmedOff: no interleaving of ticks, commands and relay
\* reports leaves a zone with a confirmed OFF while its relay is on or unknown.
THEOREM ConfirmedOffCorrect == Spec => []ConfirmedOff
<1>1. Init => ConfirmedOff
  BY DEF Init, Fresh, ConfirmedOff, UnsetTarget
<1>2. TypeOK /\ ConfirmedOff /\ [Next]_vars => ConfirmedOff'
  <2> SUFFICES ASSUME TypeOK, ConfirmedOff, [Next]_vars, NEW z \in Zones,
                      target'[z].phase = "Confirmed", target'[z].value = "Off"
               PROVE  relay'[z] = "Off"
    BY DEF ConfirmedOff
  <2>a. target[z] \in TassTarget(ZoneTargets)
    BY DEF TypeOK
  <2>1. ASSUME NEW temp \in [Trvs -> Temps], NEW open \in SUBSET WindowTrvs,
               Tick(temp, open)
        PROVE  relay'[z] = "Off"
    <3> DEFINE v == WithOpenWindows(ScheduledValves(temp), open)
               d == Demand(v)
    <3>1. target' = Decision(v).target /\ relay' = relay
      BY <2>1 DEF Tick
    <3> HIDE DEF v
    <3>2. \/ target'[z] = Schedule("Off")
          \/ target'[z] = Schedule("Heating")
          \/ target'[z] = Seeded(d)[z]
      BY <3>1, DecisionTarget
    <3> HIDE DEF d
    <3>3. target'[z] = Seeded(d)[z]
      BY <3>2 DEF Schedule, Commanded
    <3>4. \/ relay[z] = "Off"
          \/ target'[z] = TargetAged(target[z], ZoneStale)
      BY <3>3, SeededFacts DEF Adopted
    <3>5. CASE target'[z] = TargetAged(target[z], ZoneStale)
      BY <2>a, <3>1, <3>5 DEF TargetAged, TassTarget, ConfirmedOff
    <3> QED
      BY <3>1, <3>4, <3>5
  <2>2. ASSUME NEW y \in Zones, NEW on \in Reports, WallThermostatState(y, on)
        PROVE  relay'[z] = "Off"
    <3>1. relay' = [relay EXCEPT ![y] = on]
      BY <2>2 DEF WallThermostatState
    <3>2. CASE y # z
      <4>1. target'[z] = target[z]
        BY <2>2, <3>2 DEF WallThermostatState, SameRelay, RelayTurnedOn,
                          RelayTurnedOff, TypeOK
      <4> QED
        BY <3>1, <3>2, <4>1 DEF ConfirmedOff, TypeOK
    <3>3. CASE y = z /\ on = "Off"
      BY <3>1, <3>3 DEF TypeOK
    <3>4. CASE y = z /\ on = "On" /\ relay[z] = "On"
      <4>1. target'[z] = target[z]
        BY <2>2, <3>4 DEF WallThermostatState, SameRelay, TypeOK
      <4> QED
        BY <3>4, <4>1 DEF ConfirmedOff
    <3>5. CASE y = z /\ on = "On" /\ relay[z] # "On"
      <4>1. target'[z] = Redirtied(ConfirmedBy(target[z], "Heating"), "On")
        BY <2>2, <3>5 DEF WallThermostatState, RelayTurnedOn, TypeOK
      <4> QED
        BY <4>1 DEF Redirtied, Commanded
    <3> QED
      BY <3>2, <3>3, <3>4, <3>5 DEF Reports
  <2>3. CASE Advance
    <3>1. /\ target'[z].value = target[z].value
          /\ target'[z].phase = target[z].phase
      BY <2>3, <2>a DEF Advance, TargetOlder, TassTarget
    <3> QED
      BY <2>3, <3>1 DEF Advance, ConfirmedOff
  <2>4. CASE Restart
    BY <2>4 DEF Restart, UnsetTarget
  <2>5. CASE UNCHANGED <<target, relay>>
    BY <2>5 DEF ConfirmedOff
  <2> QED
    BY <2>1, <2>2, <2>3, <2>4, <2>5
       DEF Next, TickStep, TrvState, TrvSilent, SetHeatDemand, SetBoost, vars
<1> QED
  BY <1>1, <1>2, TypeCorrect, PTL DEF Spec

-----------------------------------------------------------------------------
(* Valves *)

\* No pass before the hold gives a valve the MinCycle target it did not have.
LEMMA NoNewHold ==
  ASSUME TypeOK, NEW temp \in [Trvs -> Temps], NEW open, NEW t \in Trvs,
         WithOpenWindows(ScheduledValves(temp), open)[t].value = "MinCycle"
  PROVE  valve[t].value = "MinCycle"
<1>1. ScheduledValves(temp)[t].value = "MinCycle"
  BY DEF WithOpenWindows, ValveCommanded
<1> DEFINE p == Pressurised(Expired(valve))
           want == IF boost[t] # None THEN boost[t] ELSE temp[t]
<1>2. want # "MinCycle"
  BY HeatingAssumption DEF TypeOK
<1>3. p[t].value = "MinCycle"
  BY <1>1, <1>2 DEF ScheduledValves, Scheduled, ValveCommanded
<1>4. Expired(valve)[t].value = "MinCycle"
  BY <1>3 DEF Pressurised, ValveCommanded, Placeholder
<1> QED
  BY <1>4 DEF Expired, Placeholder

\* Spec => []HoldReleased: a valve held open for min_cycle is released by every
\* step that ends the reason to hold it.
THEOREM HoldReleasedCorrect == Spec => []HoldReleased
<1>1. Init => HoldReleased
  BY DEF Init, Fresh, HoldReleased, UnsetValve, None
<1>2. TypeOK /\ HoldReleased /\ [Next]_vars => HoldReleased'
  <2> SUFFICES ASSUME TypeOK, HoldReleased, [Next]_vars, NEW t \in Trvs,
                      valve'[t].value = "MinCycle"
               PROVE  relay'[ZoneOf[t]] = "On"
    BY DEF HoldReleased
  <2>a. valve[t] \in Valves /\ ZoneOf[t] \in Zones
    BY HeatingAssumption DEF TypeOK
  <2>1. ASSUME NEW temp \in [Trvs -> Temps], NEW open \in SUBSET WindowTrvs,
               Tick(temp, open)
        PROVE  relay'[ZoneOf[t]] = "On"
    <3> DEFINE v == WithOpenWindows(ScheduledValves(temp), open)
    <3>1. valve' = HeldOpen(v, Decision(v).held) /\ relay' = relay
      BY <2>1 DEF Tick
    <3>2. v[t].value = "MinCycle" => valve[t].value = "MinCycle"
      BY NoNewHold
    <3> HIDE DEF v
    <3>3. ZoneOf[t] \in Decision(v).held \/ v[t].value = "MinCycle"
      BY <3>1 DEF HeldOpen
    <3> QED
      BY <3>1, <3>2, <3>3, DecisionHeld DEF RelaysOn, HoldReleased
  <2>2. ASSUME NEW z \in Zones, NEW on \in Reports, WallThermostatState(z, on)
        PROVE  relay'[ZoneOf[t]] = "On"
    <3>1. relay' = [relay EXCEPT ![z] = on]
      BY <2>2 DEF WallThermostatState
    <3>2. valve'[t] = valve[t] \/ valve'[t] = Placeholder("Commanded")
      BY <2>2 DEF WallThermostatState, SameRelay, RelayTurnedOn, RelayTurnedOff
    <3>3. valve'[t] = valve[t] /\ relay[ZoneOf[t]] = "On"
      BY <3>2 DEF Placeholder, HoldReleased
    <3>4. CASE ZoneOf[t] = z /\ on = "Off"
      BY <2>2, <3>3, <3>4
         DEF WallThermostatState, RelayTurnedOff, Placeholder
    <3> QED
      BY <3>1, <3>3, <3>4 DEF Reports, TypeOK
  <2>3. CASE Advance
    <3>1. valve'[t].value = valve[t].value
      BY <2>3, <2>a DEF Advance, Valves
    <3> QED
      BY <2>3, <3>1 DEF Advance, HoldReleased
  <2>4. CASE Restart
    BY <2>4 DEF Restart, UnsetValve, None
  <2>5. ASSUME NEW u \in Trvs, NEW demand, NEW setpoint,
               TrvState(u, demand, setpoint)
        PROVE  relay'[ZoneOf[t]] = "On"
    <3>1. valve'[t].value = valve[t].value
      BY <2>5, <2>a DEF TrvState, TypeOK, Valves
    <3> QED
      BY <2>5, <3>1 DEF TrvState, HoldReleased
  <2>6. CASE UNCHANGED <<valve, relay>>
    BY <2>6 DEF HoldReleased
  <2> QED
    BY <2>1, <2>2, <2>3, <2>4, <2>5, <2>6
       DEF Next, TickStep, TrvSilent, SetHeatDemand, SetBoost, vars
<1> QED
  BY <1>1, <1>2, TypeCorrect, PTL DEF Spec

\* Spec => InhibitionLasts: an unexpired inhibition survives every pass of
\* every tick and every report.
THEOREM InhibitionRespected == Spec => InhibitionLasts
<1> DEFINE Lasts == \A t \in Trvs : IsInhibited(valve[t]) =>
                      valve'[t].value = "Inhibited" \/ Restart
<1>1. TypeOK /\ [Next]_vars => [Lasts]_vars
  <2> SUFFICES ASSUME TypeOK, Next, NEW t \in Trvs, IsInhibited(valve[t]),
                      ~Restart
               PROVE  valve'[t].value = "Inhibited"
    OBVIOUS
  <2>a. valve[t] \in Valves /\ valve[t].value = "Inhibited" /\ valve[t].left # 0
    BY DEF TypeOK, IsInhibited, Valves
  <2>1. ASSUME NEW temp \in [Trvs -> Temps], NEW open \in SUBSET WindowTrvs,
               Tick(temp, open)
        PROVE  valve'[t].value = "Inhibited"
    <3> DEFINE v == WithOpenWindows(ScheduledValves(temp), open)
    <3>1. valve' = HeldOpen(v, Decision(v).held)
      BY <2>1 DEF Tick
    <3>2. Expired(valve)[t] = valve[t]
      BY <2>a DEF Expired
    <3>3. Pressurised(Expired(valve))[t] = valve[t]
      BY <2>a, <3>2 DEF Pressurised
    <3>4. ScheduledValves(temp)[t] = valve[t]
      BY <3>3 DEF ScheduledValves, Scheduled
    <3>5. IsInhibited(ScheduledValves(temp)[t])
      BY <3>4
    <3>6. t \notin open
      BY <2>1, <3>5 DEF Tick, WindowCandidates, EffectiveDemand
    <3>7. v[t] = valve[t]
      BY <3>4, <3>6 DEF WithOpenWindows
    <3> HIDE DEF v
    <3> QED
      BY <2>a, <3>1, <3>7 DEF HeldOpen
  <2>2. ASSUME NEW z \in Zones, NEW on \in Reports, WallThermostatState(z, on)
        PROVE  valve'[t].value = "Inhibited"
    BY <2>2, <2>a DEF WallThermostatState, SameRelay, RelayTurnedOn,
                      RelayTurnedOff
  <2>3. CASE Advance
    BY <2>3, <2>a DEF Advance, Valves
  <2>4. ASSUME NEW u \in Trvs, NEW demand, NEW setpoint,
               TrvState(u, demand, setpoint)
        PROVE  valve'[t].value = "Inhibited"
    BY <2>4, <2>a DEF TrvState, TypeOK, Valves
  <2>5. CASE valve' = valve
    BY <2>5, <2>a
  <2> QED
    BY <2>1, <2>2, <2>3, <2>4, <2>5
       DEF Next, TickStep, TrvSilent, SetHeatDemand, SetBoost
<1> QED
  BY <1>1, TypeCorrect, PTL DEF Spec, InhibitionLasts

-----------------------------------------------------------------------------
(* What a tick leaves behind *)

\* The target the schedule wants is a real setpoint.
LEMMA WantedIsReal ==
  ASSUME TypeOK, NEW temp \in [Trvs -> Temps], NEW t \in Trvs
  PROVE  (IF boost[t] # None THEN boost[t] ELSE temp[t])
           \notin {"Placeholder", "PressureGroup", "MinCycle"}
  BY HeatingAssumption DEF TypeOK

\* After the schedule pass a valve keeps a forced or inhibited target or has
\* the one the schedule wants; the later passes inhibit and hold.
LEMMA AfterSchedule ==
  ASSUME TypeOK, NEW temp \in [Trvs -> Temps], NEW open, NEW held, NEW t \in Trvs
  PROVE  LET p == Pressurised(Expired(valve))
             v == HeldOpen(WithOpenWindows(ScheduledValves(temp), open), held)
         IN  /\ v[t].value # "Placeholder"
             /\ v[t].value = "PressureGroup" => p[t].value = "PressureGroup"
<1> DEFINE p == Pressurised(Expired(valve))
           s == ScheduledValves(temp)
           w == WithOpenWindows(s, open)
           v == HeldOpen(w, held)
           want == IF boost[t] # None THEN boost[t] ELSE temp[t]
           who  == IF boost[t] # None THEN "WebUI" ELSE "Schedule"
<1>1. want \notin {"Placeholder", "PressureGroup", "MinCycle"}
  BY WantedIsReal
<1>2. \/ s[t] = p[t] /\ (IsForcedOpen(p[t]) \/ IsInhibited(p[t]) \/ p[t].value = want)
      \/ s[t] = ValveCommanded(want, who)
  BY DEF ScheduledValves, Scheduled
<1> HIDE DEF p, s, want, who
<1>3. /\ s[t].value # "Placeholder"
      /\ s[t].value = "PressureGroup" => p[t].value = "PressureGroup"
  BY <1>1, <1>2 DEF IsForcedOpen, IsInhibited, Forced, ValveCommanded
<1>4. w[t] = s[t] \/ w[t].value = "Inhibited"
  BY DEF WithOpenWindows, ValveCommanded
<1> HIDE DEF w
<1>5. v[t] = w[t] \/ v[t].value = "MinCycle"
  BY DEF HeldOpen, ValveCommanded
<1> QED
  BY <1>3, <1>4, <1>5 DEF p, s, w

LEMMA TickValves ==
  ASSUME NEW temp, NEW open, Tick(temp, open)
  PROVE  LET v == WithOpenWindows(ScheduledValves(temp), open)
         IN  /\ valve' = HeldOpen(v, Decision(v).held)
             /\ target' = Decision(v).target
  BY DEF Tick

\* No tick leaves a valve with the 0.0 setpoint of a release
\* (handle_heating_tick runs evaluate_schedules after the passes that release).
THEOREM PlaceholdersAreReplaced == Spec => PlaceholderReplaced
<1>1. ASSUME TypeOK, TickStep PROVE ~ \E t \in Trvs : valve'[t].value = "Placeholder"
  <2>1. PICK temp \in [Trvs -> Temps], open \in SUBSET WindowTrvs : Tick(temp, open)
    BY <1>1 DEF TickStep
  <2> DEFINE v == WithOpenWindows(ScheduledValves(temp), open)
  <2>2. valve' = HeldOpen(v, Decision(v).held)
    BY <2>1, TickValves
  <2> QED
    BY <1>1, <2>2, AfterSchedule
<1> QED
  BY <1>1, TypeCorrect, PTL DEF PlaceholderReplaced

\* A valve that a tick leaves forced open by its pressure group shares the
\* group with a valve that demands heat by itself (enforce_pressure_groups).
THEOREM PressureIsJustified == Spec => PressureJustified
<1>1. ASSUME TypeOK, TickStep, NEW g \in Groups, NEW t \in g,
             valve'[t].value = "PressureGroup"
      PROVE  GroupDemands(g)
  <2>1. PICK temp \in [Trvs -> Temps], open \in SUBSET WindowTrvs : Tick(temp, open)
    BY <1>1 DEF TickStep
  <2> DEFINE e == Expired(valve)
             p == Pressurised(e)
             v == WithOpenWindows(ScheduledValves(temp), open)
  <2>2. valve' = HeldOpen(v, Decision(v).held)
    BY <2>1, TickValves
  <2>3. g \subseteq Trvs /\ \A h \in Groups : t \in h => h = g
    BY HeatingAssumption
  <2>4. \A u \in g : valve'[u].value = "PressureGroup" => p[u].value = "PressureGroup"
    BY <1>1, <2>2, <2>3, AfterSchedule
  <2>5. p[t].value = "PressureGroup"
    BY <1>1, <2>4
  <2> HIDE DEF e
  <2>6. PICK h \in Groups : t \in h /\ GroupActive(e, h)
    BY <2>3, <2>5 DEF Pressurised, Placeholder
  <2>7. PICK u \in g : raw[u] /\ ~IsForcedOpen(e[u])
    BY <2>3, <2>6 DEF GroupActive, OrganicDemand
  <2>8. p[u] = e[u] \/ p[u] = Placeholder("Commanded")
    BY <2>3, <2>7 DEF Pressurised
  <2>9. p[u].value # "PressureGroup"
    BY <2>7, <2>8 DEF IsForcedOpen, Forced, Placeholder
  <2> QED
    BY <2>4, <2>7, <2>9 DEF GroupDemands
<1>2. TypeOK => ((\E g \in Groups : /\ \E t \in g : valve'[t].value = "PressureGroup"
                                    /\ ~GroupDemands(g)) => ~TickStep)
  BY <1>1
<1> QED
  BY <1>2, TypeCorrect, PTL DEF PressureJustified

\* The min_cycle hold changes no zone's demand: it opens valves of zones
\* without one, and an opened valve demands nothing by itself.
LEMMA HoldKeepsDemand ==
  ASSUME NEW v, NEW held, held \cap Demand(v) = {}
  PROVE  Demand(HeldOpen(v, held)) = Demand(v)
<1> DEFINE w == HeldOpen(v, held)
<1>1. ASSUME NEW t \in Trvs, ZoneOf[t] \notin held PROVE w[t] = v[t]
  BY <1>1 DEF HeldOpen
<1>2. ASSUME NEW t \in Trvs, ZoneOf[t] \in held PROVE ~EffectiveDemand(w, t)
  <2>1. \/ w[t] = v[t] /\ (IsForcedOpen(v[t]) \/ IsInhibited(v[t]))
        \/ w[t] = ValveCommanded("MinCycle", "Rule")
    BY <1>2 DEF HeldOpen
  <2> HIDE DEF w
  <2> QED
    BY <2>1 DEF EffectiveDemand, ValveCommanded
<1> HIDE DEF w
<1>3. ASSUME NEW z \in Zones, z \in held PROVE z \notin Demand(w) /\ z \notin Demand(v)
  BY <1>2, <1>3 DEF Demand, ZoneTrvs
<1>4. ASSUME NEW z \in Zones, z \notin held PROVE (z \in Demand(w)) <=> (z \in Demand(v))
  BY <1>1, <1>4 DEF Demand, ZoneTrvs, EffectiveDemand
<1>5. Demand(w) \subseteq Zones /\ Demand(v) \subseteq Zones
  BY DEF Demand
<1> QED
  BY <1>3, <1>4, <1>5 DEF w

\* After the phases of evaluate_relays, a relay that is on without demand and
\* not told to go off has another zone's heat, another zone's ON or one of its
\* own valves, forced open, to pump into.
LEMMA DecisionFlow ==
  ASSUME NEW v,
         NEW z \in RelaysOn \ Demand(v), Decision(v).target[z].value # "Off"
  PROVE  \/ \E y \in Zones \ RelaysOn : /\ Decision(v).target[y].value = "Heating"
                                        /\ Decision(v).target[y].phase = "Commanded"
         \/ \E y \in RelaysOn \cap Demand(v) : Decision(v).target[y].value # "Off"
         \/ \E t \in Trvs : /\ ZoneOf[t] \in RelaysOn \ Demand(v)
                            /\ ZoneOf[t] \in Decision(v).held
                            /\ Decision(v).target[ZoneOf[t]].value # "Off"
                            /\ ~IsInhibited(v[t])
<1> DEFINE d       == Demand(v)
           seeded  == Seeded(d)
           on      == Starting(seeded, d)
           started == Retargeted(seeded, on, "Heating")
           cancel  == Cancelled(started, d)
           rest    == Retargeted(started, cancel, "Off")
           off     == Stopping(rest, d, v)
           final   == Retargeted(rest, off, "Off")
<1>1. Decision(v).target = final /\ Decision(v).held = Held(rest, d, v)
  BY DEF Decision
<1>2. RelaysOn \subseteq Zones
  BY DEF RelaysOn
<1> HIDE DEF rest, d
<1>3. z \notin off /\ final[z] = rest[z]
  BY <1>1, <1>2 DEF Retargeted, Schedule, Commanded
<1>4. z \in WantOff(rest, d)
  BY <1>1, <1>3 DEF WantOff, d
<1>5. off = {}
  BY <1>3, <1>4 DEF Stopping
<1>6. \A y \in Zones : final[y] = rest[y]
  BY <1>5 DEF Retargeted
<1>7. CASE PendingOn(rest) # {}
  BY <1>1, <1>6, <1>7 DEF PendingOn, Known
<1>8. CASE Survivors(rest, d) # {}
  BY <1>4, <1>5, <1>8 DEF Stopping
<1>9. CASE PendingOn(rest) = {} /\ Survivors(rest, d) = {}
  <2>1. ~NoFlowPath(v, WantOff(rest, d))
    BY <1>4, <1>5, <1>9 DEF Stopping
  <2>2. PICK t \in Trvs : ZoneOf[t] \in WantOff(rest, d) /\ ~IsInhibited(v[t])
    BY <2>1 DEF NoFlowPath
  <2>3. Held(rest, d, v) = WantOff(rest, d)
    BY <1>5, <1>9 DEF Held
  <2>4. ZoneOf[t] \in RelaysOn \ d /\ rest[ZoneOf[t]].value # "Off"
    BY <2>2 DEF WantOff
  <2>5. ZoneOf[t] \in Zones
    BY HeatingAssumption
  <2> QED
    BY <1>1, <1>6, <2>2, <2>3, <2>4, <2>5 DEF d
<1> QED
  BY <1>7, <1>8, <1>9

\* The hold is on zones without demand.
LEMMA HeldIdle == ASSUME NEW v PROVE Decision(v).held \cap Demand(v) = {}
<1> DEFINE d    == Demand(v)
           on   == Starting(Seeded(d), d)
           started == Retargeted(Seeded(d), on, "Heating")
           rest == Retargeted(started, Cancelled(started, d), "Off")
<1>1. Decision(v).held = Held(rest, d, v)
  BY DEF Decision
<1> HIDE DEF rest, d
<1> QED
  BY <1>1 DEF Held, WantOff, d

\* No tick leaves the pump running against closed valves (evaluate_relays).
THEOREM FlowPathExists == Spec => FlowPath
<1>1. ASSUME TypeOK, TickStep, Idling # {} PROVE HasFlowPath
  <2>1. PICK temp \in [Trvs -> Temps], open \in SUBSET WindowTrvs : Tick(temp, open)
    BY <1>1 DEF TickStep
  <2> DEFINE v == WithOpenWindows(ScheduledValves(temp), open)
  <2>2. valve' = HeldOpen(v, Decision(v).held) /\ target' = Decision(v).target
    BY <2>1, TickValves
  <2> HIDE DEF v
  <2>3. Demand(valve') = Demand(v)
    BY <2>2, HeldIdle, HoldKeepsDemand
  <2>4. Idling = {z \in RelaysOn \ Demand(v) : target'[z].value # "Off"}
    BY <2>3 DEF Idling
  <2>5. PICK z \in RelaysOn \ Demand(v) : target'[z].value # "Off"
    BY <1>1, <2>4
  <2>6. ASSUME NEW t \in Trvs, ZoneOf[t] \in Decision(v).held, ~IsInhibited(v[t])
        PROVE  IsForcedOpen(valve'[t])
    BY <2>2, <2>6 DEF HeldOpen, IsForcedOpen, ValveCommanded, Forced
  <2>7. \/ \E y \in Zones \ RelaysOn : target'[y].value = "Heating"
                                       /\ target'[y].phase = "Commanded"
        \/ \E y \in RelaysOn \cap Demand(v) : target'[y].value # "Off"
        \/ \E t \in Trvs : ZoneOf[t] \in Idling /\ IsForcedOpen(valve'[t])
    BY <2>2, <2>4, <2>5, <2>6, DecisionFlow
  <2> QED
    BY <2>3, <2>7 DEF HasFlowPath
<1>2. TypeOK => (Idling # {} /\ ~HasFlowPath => ~TickStep)
  BY <1>1
<1> QED
  BY <1>2, TypeCorrect, PTL DEF FlowPath

-----------------------------------------------------------------------------
(* The closed loop *)

\* What is in flight is a report or nothing.
NetworkOK ==
  /\ physical \in [Zones -> Reports]
  /\ wire \in [Zones -> Reports \cup {None}]
  /\ echo \in [Zones -> Reports \cup {None}]

\* What a tick tells a relay is a command.
LEMMA ToldType ==
  ASSUME NEW v, NEW z \in Zones PROVE Decision(v).told[z] \in Reports \cup {None}
  BY DEF Decision, Reports

LEMMA NetworkStep == ASSUME NetworkOK, [SysNext]_sysVars PROVE NetworkOK'
<1>1. CASE SysTick
  <2>1. PICK temp \in [Trvs -> Temps], open \in SUBSET WindowTrvs :
          LET told == Decision(WithOpenWindows(ScheduledValves(temp), open)).told
          IN  /\ wire' = [z \in Zones |-> IF told[z] # None THEN told[z] ELSE wire[z]]
              /\ UNCHANGED <<physical, echo>>
    BY <1>1 DEF SysTick
  <2> DEFINE told == Decision(WithOpenWindows(ScheduledValves(temp), open)).told
  <2>2. \A z \in Zones : told[z] \in Reports \cup {None}
    BY ToldType
  <2>3. wire' = [z \in Zones |-> IF told[z] # None THEN told[z] ELSE wire[z]]
    BY <2>1
  <2> HIDE DEF told
  <2> QED
    BY <2>1, <2>2, <2>3 DEF NetworkOK
<1>2. ASSUME NEW z \in Zones,
             \/ Deliver(z) \/ LoseCommand(z) \/ Report(z)
             \/ LoseReport(z) \/ HandleReport(z) \/ SwitchedByHand(z)
      PROVE  NetworkOK'
  BY <1>2 DEF Deliver, LoseCommand, Report, LoseReport, HandleReport, SwitchedByHand,
              NetworkOK, Reports
<1>3. CASE Valve \/ SysAdvance \/ SysRestart \/ UNCHANGED sysVars
  BY <1>3 DEF Valve, SysAdvance, SysRestart, sysVars, network, NetworkOK
<1> QED
  BY <1>1, <1>2, <1>3 DEF SysNext

\* The controller in the closed loop, with real relays and a network that
\* loses commands and reports, is the controller of Heating: all that is proved
\* of its steps and states holds in the loop as well.
THEOREM LoopImplementsController == SysSpec => Spec
<1>1. SysInit => Init /\ NetworkOK
  BY DEF SysInit, NetworkOK
<1>2. NetworkOK /\ [SysNext]_sysVars => [Next]_vars
  <2> SUFFICES ASSUME NetworkOK, [SysNext]_sysVars PROVE [Next]_vars
    OBVIOUS
  <2>1. CASE SysTick
    BY <2>1 DEF SysTick, Next, TickStep
  <2>2. ASSUME NEW z \in Zones, HandleReport(z) PROVE Next
    <3>1. echo[z] \in Reports /\ WallThermostatState(z, echo[z])
      BY <2>2 DEF HandleReport, NetworkOK
    <3> QED
      BY <3>1 DEF Next
  <2>3. ASSUME NEW z \in Zones, \/ Deliver(z) \/ LoseCommand(z) \/ Report(z)
                                \/ LoseReport(z) \/ SwitchedByHand(z)
        PROVE  UNCHANGED vars
    BY <2>3 DEF Deliver, LoseCommand, Report, LoseReport, SwitchedByHand
  <2>4. CASE Valve \/ SysAdvance \/ SysRestart
    BY <2>4 DEF Valve, SysAdvance, SysRestart, Next
  <2>5. CASE UNCHANGED sysVars
    BY <2>5 DEF sysVars
  <2> QED
    BY <2>1, <2>2, <2>3, <2>4, <2>5 DEF SysNext
<1> QED
  BY <1>1, <1>2, NetworkStep, PTL DEF SysSpec, Spec
=============================================================================
