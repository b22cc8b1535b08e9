---------------------------- MODULE MotionProofs ----------------------------
(***************************************************************************)
(* The safety properties of Motion for every house: any rooms, nested or   *)
(* overlapping, any bulbs, schedules, sensors and rules.                   *)
(*                                                                         *)
(* The proof has two halves.  An action of Lights changes a bulb or a room *)
(* in few ways, whatever the handler: the Envelope.  A handler of Motion   *)
(* works on sessions through SessionStep, whose outcome for one bulb is a  *)
(* start, an OFF, a release or nothing.  The invariant MotionInv ties      *)
(* owners, sessions, publishers and settings together; it is inductive     *)
(* because the bulbs of two rules are disjoint and because a session never *)
(* outlives the occupancy of its rule.                                     *)
(***************************************************************************)
EXTENDS Motion, TassProofs, WellFoundedInduction

-----------------------------------------------------------------------------
(* Sessions and occupancy *)

\* The readings of a motion sensor
Readings == TassActual({"occupied", "clear", None})

\* SessionOccupied and the type of the readings, which its proof needs.
SessionInv ==
  /\ sensor \in [Sensors -> Readings]
  /\ SessionOccupied

\* A handler leaves a session alone, starts it because its plan says so, or
\* ends it when its plan says so.
LEMMA SessionStepSessions ==
  ASSUME NEW ls, NEW zs, NEW plan, SessionStep(ls, zs, plan), NEW rule \in Rules,
         session'[rule] # NoSession
  PROVE  \/ rule \in plan.start
         \/ /\ session'[rule] = session[rule]
            /\ rule \notin plan.finish \cup plan.ended
  BY DEF SessionStep

\* The clock and the tick change no reading's value, and nothing makes a
\* reading fresh but a report.
LEMMA AgedReading ==
  ASSUME NEW r \in Readings
  PROVE  /\ ActualOlder(r) \in Readings
         /\ ActualAged(r, SensorStale) \in Readings
         /\ SensorOccupied(ActualOlder(r)) <=> SensorOccupied(r)
<1>1. r \in [value : {"occupied", "clear", None}, freshness : Freshness, age : Ages]
  BY DEF Readings, TassActual
<1>2. Older(r.age) \in Ages
  BY <1>1, MaxAgeAssumption, SMT DEF Ages, Older
<1>3. ActualOlder(r) \in Readings
  BY <1>1, <1>2 DEF Readings, TassActual, ActualOlder
<1>4. ActualAged(r, SensorStale) \in Readings
  BY <1>1 DEF Readings, TassActual, ActualAged, Freshness
<1>5. SensorOccupied(ActualOlder(r)) <=> SensorOccupied(r)
  BY <1>1 DEF ActualOlder, SensorOccupied
<1> QED
  BY <1>3, <1>4, <1>5

\* A report that the early return of handle_occupancy drops, and one that it
\* acts on, both end every session whose occupancy they end.
LEMMA OccupancySessions ==
  ASSUME SessionInv, NEW s \in Sensors, NEW value \in {"occupied", "clear"}, NEW lux,
         Occupancy(s, value, lux)
  PROVE  SessionInv'
<1> DEFINE sns == [sensor EXCEPT ![s] = Observed(value)]
<1> USE DEF SessionInv
<1>1. sensor' = sns
  BY DEF Occupancy
<1>2. Observed(value) \in Readings
  BY MaxAgeAssumption, SMT DEF Observed, Readings, TassActual, Freshness, Ages
<1>3. sns \in [Sensors -> Readings]
  BY <1>2
<1>4. SUFFICES ASSUME NEW rule \in Rules, session'[rule] # NoSession
               PROVE  OccupiedIn(sns, rule)
  BY <1>1, <1>3 DEF SessionOccupied, RuleOccupied
<1>5. \A q \in Sensors \ {s} : sns[q] = sensor[q]
  OBVIOUS
<1>6. sns[s] = Observed(value)
  OBVIOUS
<1>7. SensorsOf[rule] \subseteq Sensors
  BY LightsAssumption, Zenon DEF LightsAssumption
<1>8. session[rule] # NoSession => OccupiedIn(sensor, rule)
  BY DEF SessionOccupied, RuleOccupied
<1> DEFINE repeat == IF value = "occupied" THEN SensorOccupied(sensor[s])
                                           ELSE sensor[s].value = "clear"
<1> DEFINE mine  == {q \in Rules : s \in SensorsOf[q]}
           ended == {q \in mine : /\ session[q] # NoSession /\ ~RuleOccupied(q)
                                  /\ TargetIsOff(session[q])}
           fresh == {q \in mine : session[q] = NoSession} \cup ended
           act   == IF value = "occupied"
                      THEN [NoPlan EXCEPT !.start = fresh, !.ended = ended, !.lux = lux,
                                          !.seed = ~running]
                      ELSE [NoPlan EXCEPT !.finish = FinishedBy(s, sns), !.seed = ~running]
           plan  == IF repeat THEN NoPlan ELSE act
<1>9. SessionStep(light, zone, plan)
  BY Zenon DEF Occupancy
<1>10. value = "occupied" => plan.start \subseteq mine
  BY DEF NoPlan
<1>11. value = "clear" => plan.start = {}
  BY DEF NoPlan
<1>12. (value = "clear" /\ ~repeat) => plan.finish = FinishedBy(s, sns)
  BY DEF NoPlan
<1> HIDE DEF plan
<1>13. CASE value = "occupied"
  <2>1. SensorOccupied(sns[s])
    BY <1>6, <1>13 DEF SensorOccupied, Observed
  <2>2. s \in SensorsOf[rule] => OccupiedIn(sns, rule)
    BY <2>1, <1>7, Zenon DEF OccupiedIn
  <2>3. s \notin SensorsOf[rule] => session'[rule] = session[rule]
    BY <1>13, <1>9, <1>10, <1>4, SessionStepSessions
  <2>4. s \notin SensorsOf[rule] /\ OccupiedIn(sensor, rule) => OccupiedIn(sns, rule)
    BY <1>5, <1>7 DEF OccupiedIn
  <2> QED
    BY <2>2, <2>3, <2>4, <1>4, <1>8
<1>14. CASE value = "clear"
  <2>1. CASE sensor[s].value = "clear"
    <3>1. session'[rule] = session[rule]
      BY <1>14, <1>9, <1>11, <1>4, SessionStepSessions
    <3>2. ~SensorOccupied(sensor[s])
      BY <2>1 DEF SensorOccupied
    <3> QED
      BY <3>1, <3>2, <1>4, <1>5, <1>7, <1>8 DEF OccupiedIn
  <2>2. CASE sensor[s].value # "clear"
    <3>1. session'[rule] = session[rule] /\ rule \notin FinishedBy(s, sns)
      BY <1>14, <2>2, <1>9, <1>11, <1>12, <1>4, SessionStepSessions
    <3>2. s \in SensorsOf[rule] => OccupiedIn(sns, rule)
      BY <3>1 DEF FinishedBy
    <3> QED
      BY <3>1, <3>2, <1>4, <1>5, <1>7, <1>8 DEF OccupiedIn
  <2> QED
    BY <2>1, <2>2
<1> QED
  BY <1>13, <1>14

\* The sensors that go stale in a tick end the sessions they were the last to hold.
LEMMA TickSessions ==
  ASSUME SessionInv, Tick
  PROVE  SessionInv'
<1> DEFINE sns == [s \in Sensors |-> ActualAged(sensor[s], SensorStale)]
<1> USE DEF SessionInv
<1>1. sensor' = sns
  BY DEF Tick
<1>2. sns \in [Sensors -> Readings]
  BY AgedReading
<1>3. SUFFICES ASSUME NEW rule \in Rules, session'[rule] # NoSession
               PROVE  OccupiedIn(sns, rule)
  BY <1>1, <1>2 DEF SessionOccupied, RuleOccupied
<1>4. session'[rule] = session[rule] /\ rule \notin FinishedByTick(sns)
  <2> DEFINE ls   == [l \in LightIds |-> Aged(light[l])]
             zs   == [r \in Rooms |-> Aged(zone[r])]
             plan == [NoPlan EXCEPT !.finish = FinishedByTick(sns), !.owner = "System"]
  <2>1. SessionStep(ls, zs, plan)
    BY Zenon DEF Tick
  <2>2. plan.start = {} /\ plan.finish = FinishedByTick(sns)
    BY DEF NoPlan
  <2> HIDE DEF ls, zs, plan
  <2> QED
    BY <2>1, <2>2, <1>3, SessionStepSessions
<1>5. OccupiedIn(sensor, rule)
  BY <1>3, <1>4 DEF SessionOccupied, RuleOccupied
<1>6. SensorsOf[rule] \subseteq Sensors
  BY LightsAssumption, Zenon DEF LightsAssumption
<1>7. CASE \E s \in SensorsOf[rule] : sns[s] # sensor[s]
  BY <1>4, <1>7 DEF FinishedByTick
<1>8. CASE ~\E s \in SensorsOf[rule] : sns[s] # sensor[s]
  BY <1>5, <1>8, Zenon DEF OccupiedIn
<1> QED
  BY <1>7, <1>8

\* Startup only starts sessions of rules that are occupied.
LEMMA StartupSessions ==
  ASSUME SessionInv, EnterEventLoop
  PROVE  SessionInv'
<1> USE DEF SessionInv
<1>1. sensor' = sensor
  BY DEF EnterEventLoop
<1>2. SUFFICES ASSUME NEW rule \in Rules, session'[rule] # NoSession
               PROVE  OccupiedIn(sensor, rule)
  BY <1>1 DEF SessionOccupied, RuleOccupied
<1>3. session'[rule] = session[rule] \/ RuleOccupied(rule)
  <2> DEFINE lit   == {q \in Rules : Mode[q] # "OnOnly" /\ ObservedOn(q)}
             adopt == {q \in lit : Mode[q] = "OffOnly" /\ RuleOccupied(q)}
             plan  == [NoPlan EXCEPT !.start = adopt, !.reset = lit \ adopt,
                                     !.owner = "System"]
  <2>1. SessionStep(light, zone, plan)
    BY Zenon DEF EnterEventLoop
  <2>2. rule \in plan.start => RuleOccupied(rule)
    BY DEF NoPlan
  <2> HIDE DEF plan
  <2> QED
    BY <2>1, <2>2, <1>2, SessionStepSessions
<1> QED
  BY <1>2, <1>3 DEF SessionOccupied, RuleOccupied

\* The clock changes no session, no reading's value and no freshness.
LEMMA AdvanceSessions ==
  ASSUME SessionInv, Advance
  PROVE  SessionInv'
<1> USE DEF SessionInv
<1>1. session' = session
  BY DEF Advance
<1>2. /\ sensor' \in [Sensors -> Readings]
      /\ \A s \in Sensors : SensorOccupied(sensor'[s]) <=> SensorOccupied(sensor[s])
  BY AgedReading DEF Advance
<1>3. \A rule \in Rules : SensorsOf[rule] \subseteq Sensors
  BY LightsAssumption, Zenon DEF LightsAssumption
<1>4. \A rule \in Rules : OccupiedIn(sensor, rule) => OccupiedIn(sensor', rule)
  BY <1>2, <1>3 DEF OccupiedIn
<1> QED
  BY <1>1, <1>2, <1>4 DEF SessionOccupied, RuleOccupied

\* A session never outlives the occupancy that started it, in any house
\* (handle_occupancy, evaluate_actual_staleness, set_motion_enabled and
\* startup_turn_off_motion_zones together).
THEOREM SessionsAreOccupied == Spec => []SessionOccupied
<1>1. Init => SessionInv
  <2> SUFFICES ASSUME Init PROVE SessionInv
    OBVIOUS
  <2>1. UnknownActual(None) \in Readings
    BY MaxAgeAssumption, SMT DEF UnknownActual, Readings, TassActual, Freshness, Ages
  <2> QED
    BY <2>1 DEF Init, FreshState, SessionInv, SessionOccupied
<1>2. SessionInv /\ [Next]_vars => SessionInv'
  <2> SUFFICES ASSUME SessionInv, [Next]_vars PROVE SessionInv'
    OBVIOUS
  <2>1. CASE UNCHANGED <<sensor, session>>
    BY <2>1 DEF SessionInv, SessionOccupied, RuleOccupied, OccupiedIn
  <2>2. CASE LightsNext
    <3>1. UNCHANGED <<sensor, session>>
      BY <2>2 DEF LightsNext, SceneCycle, GroupSceneCycle, SceneToggle, SceneToggleCycle,
         SceneStepDown, TurnOffRoom, Brightness, TurnOffAllZones, WebRecallScene,
         WebSetRoomOff, ApplyRoomOverride, LightState, GroupState, EnterSlot, Apart
    <3> QED
      BY <2>1, <3>1
  <2>3. ASSUME NEW s \in Sensors, NEW lux, Occupancy(s, "occupied", lux)
        PROVE  SessionInv'
    BY <2>3, OccupancySessions
  <2>4. ASSUME NEW s \in Sensors, Occupancy(s, "clear", "dark")
        PROVE  SessionInv'
    BY <2>4, OccupancySessions
  <2>5. ASSUME NEW r \in Rooms, DisableMotion(r)
        PROVE  SessionInv'
    <3>1. sensor' = sensor
      BY <2>5 DEF DisableMotion
    <3>2. \A rule \in Rules : session'[rule] # NoSession => session[rule] # NoSession
      BY <2>5 DEF DisableMotion, NoSession
    <3> QED
      BY <3>1, <3>2 DEF SessionInv, SessionOccupied, RuleOccupied, OccupiedIn
  <2>6. ASSUME NEW r \in Rooms, EnableMotion(r)
        PROVE  SessionInv'
    BY <2>6, <2>1 DEF EnableMotion
  <2>7. CASE Tick
    BY <2>7, TickSessions
  <2>8. CASE EnterEventLoop
    BY <2>8, StartupSessions
  <2>9. CASE Restart
    <3>1. UnknownActual(None) \in Readings
      BY MaxAgeAssumption, SMT DEF UnknownActual, Readings, TassActual, Freshness, Ages
    <3> QED
      BY <2>9, <3>1 DEF Restart, SessionInv, SessionOccupied
  <2>10. CASE Advance
    BY <2>10, AdvanceSessions
  <2>11. CASE UNCHANGED vars
    BY <2>11, <2>1 DEF vars
  <2> QED
    BY <2>2, <2>3, <2>4, <2>5, <2>6, <2>7, <2>8, <2>9, <2>10, <2>11 DEF Next
<1>3. SessionInv => SessionOccupied
  BY DEF SessionInv
<1> QED
  BY <1>1, <1>2, <1>3, PTL DEF Spec

-----------------------------------------------------------------------------
(* Targets and entities *)

\* Well-formed targets, bulbs and rooms
Sound(t)   == t \in TassTarget(Switch) /\ TargetOwned(t)
LightOK(e) == e \in LightEntity /\ TargetOwned(e.target)
ZoneOK(z)  == z \in ZoneEntity /\ TargetOwned(z.target)

\* Whoever commands by hand, by schedule or at startup: everyone but motion.
Others == Owners \ {"Motion"}

\* Unset, commanded and adopted targets (TassTarget::new, set_and_command, adopt).
LEMMA NewTargets ==
  /\ Sound(UnsetTarget)
  /\ \A v \in Switch, w \in Owners :
       /\ Sound(Commanded(v, w))
       /\ Commanded(v, w).value = v /\ Commanded(v, w).owner = w
       /\ Commanded(v, w).phase = "Commanded"
       /\ Sound(Adopted(v, w))
       /\ Adopted(v, w).value = v /\ Adopted(v, w).owner = w
       /\ Adopted(v, w).phase = "Confirmed"
<1>1. None \notin Switch /\ None \notin Owners
  BY DEF None, Switch, Owners
<1> QED
  BY <1>1, TargetOps DEF Sound, TargetOwned, UnsetTarget, Commanded, Adopted

\* The fields of a sound target: a value, an owner and a phase come together.
LEMMA TargetFields ==
  ASSUME NEW t, Sound(t)
  PROVE  /\ t.value \in Switch \cup {None} /\ t.phase \in TargetPhases
         /\ t.owner \in Owners \cup {None} /\ t.age \in Ages
         /\ t = [value |-> t.value, phase |-> t.phase, owner |-> t.owner, age |-> t.age]
         /\ t.value = None <=> t.phase = "Unset"
         /\ t.value = None <=> t.owner = None
  BY DEF Sound, TassTarget, TargetOwned

\* reassign_owner keeps value and phase, and gives an unset target no owner.
LEMMA ReassignedTarget ==
  ASSUME NEW t, Sound(t), NEW w \in Owners
  PROVE  /\ Sound(Reassigned(t, w))
         /\ Reassigned(t, w).value = t.value
         /\ Reassigned(t, w).phase = t.phase
         /\ Reassigned(t, w).owner = IF t.value = None THEN None ELSE w
<1>1. None \notin Owners
  BY DEF None, Owners
<1>2. /\ t.value \in Switch \cup {None} /\ t.phase \in TargetPhases
      /\ t.owner \in Owners \cup {None} /\ t.age \in Ages
      /\ t = [value |-> t.value, phase |-> t.phase, owner |-> t.owner, age |-> t.age]
  BY TargetFields
<1> QED
  BY <1>1, <1>2, TargetOps DEF Sound, TargetOwned, Reassigned

\* mark_stale_if_old keeps value and owner, and neither unsets nor confirms.
LEMMA AgedTarget ==
  ASSUME NEW t, Sound(t), NEW n \in Nat
  PROVE  /\ Sound(TargetAged(t, n))
         /\ TargetAged(t, n).value = t.value
         /\ TargetAged(t, n).owner = t.owner
         /\ TargetAged(t, n).phase = "Unset" <=> t.phase = "Unset"
         /\ TargetAged(t, n).phase = "Confirmed" <=> t.phase = "Confirmed"
  BY TargetFields, TargetOps DEF Sound, TargetOwned, TargetAged

\* confirm keeps value and owner.
LEMMA ConfirmedTarget ==
  ASSUME NEW t, Sound(t), t.phase # "Unset"
  PROVE  /\ Sound(Confirmed(t))
         /\ Confirmed(t).value = t.value
         /\ Confirmed(t).owner = t.owner
         /\ Confirmed(t).phase = "Confirmed"
<1>1. /\ t.value \in Switch \cup {None} /\ t.phase \in TargetPhases
      /\ t.owner \in Owners \cup {None} /\ t.age \in Ages
      /\ t = [value |-> t.value, phase |-> t.phase, owner |-> t.owner, age |-> t.age]
  BY TargetFields
<1> QED
  BY <1>1, TargetOps DEF Sound, TargetOwned, Confirmed

\* The clock keeps value, owner and phase.
LEMMA OlderTarget ==
  ASSUME NEW t, Sound(t)
  PROVE  /\ Sound(TargetOlder(t))
         /\ TargetOlder(t).value = t.value
         /\ TargetOlder(t).owner = t.owner
         /\ TargetOlder(t).phase = t.phase
  BY TargetFields, TargetOps DEF Sound, TargetOwned, TargetOlder

\* Setting the target of a bulb keeps it well formed and leaves its reading alone.
LEMMA LightFields ==
  ASSUME NEW e
  PROVE  /\ LightOK(e) => /\ Sound(e.target) /\ e.level \in Levels /\ e.seen \in Levels
                          /\ e.actual \in Switch \cup {None}
         /\ \A t, n : LightOK(e) /\ Sound(t) /\ n \in Levels =>
              /\ LightOK(LightSet(e, t, n))
              /\ LightSet(e, t, n).target = t
              /\ LightSet(e, t, n).actual = e.actual
              /\ LightSet(e, t, n).level = n
  BY DEF LightOK, LightEntity, LightSet, Sound

\* Setting the target of a room keeps it well formed, with its cursor and reading.
LEMMA ZoneFields ==
  ASSUME NEW z, ZoneOK(z)
  PROVE  /\ Sound(z.target) /\ z.cycle.step \in Nat /\ z.idx \in Nat /\ z.scene \in Levels
         /\ z.actual \in Switch \cup {None}
         /\ \A t, n, i : Sound(t) /\ n \in Levels /\ i \in Nat =>
              /\ ZoneOK(ZoneSet(z, t, n, i))
              /\ ZoneSet(z, t, n, i).target = t
              /\ ZoneSet(z, t, n, i).cycle = z.cycle
              /\ ZoneSet(z, t, n, i).actual = z.actual
         /\ \A t : Sound(t) => /\ ZoneOK([z EXCEPT !.target = t])
                               /\ [z EXCEPT !.target = t].target = t
                               /\ [z EXCEPT !.target = t].cycle = z.cycle
                               /\ [z EXCEPT !.target = t].actual = z.actual
  BY DEF ZoneOK, ZoneEntity, ZoneSet, Sound

\* An off-only claim turns an owner into an owner.
LEMMA OwnerTypes ==
  ASSUME NEW w \in Owners
  PROVE  /\ \A l \in LightIds : LightOwner(l, w) \in Owners
         /\ \A r \in Rooms : ZoneOwner(r, w) \in Owners
  BY DEF LightOwner, ZoneOwner, Owners

-----------------------------------------------------------------------------
(* What one action of Lights does to a bulb and to a room                   *)

\* The bulbs and rooms are typed, and no target lacks its owner.
HouseOK ==
  /\ light \in [LightIds -> LightEntity]
  /\ \A l \in LightIds : TargetOwned(light[l].target)
  /\ zone \in [Rooms -> ZoneEntity]
  /\ \A r \in Rooms : TargetOwned(zone[r].target)
  /\ after \in [LightIds -> SUBSET Targets]
  /\ by \in [LightIds -> {"Manual", "Motion", "AllOff", None}]

\* Commanded by someone who is not motion, with the owner that an off-only
\* claim leaves him
CommandOwned(l) ==
  \E w \in Others : light'[l].target.owner = LightOwner(l, w)

\* Bulb l keeps its owner and value, or gets those of a command.
LightStep(l) ==
  /\ LightOK(light'[l])
  /\ \/ /\ light'[l].target.owner = light[l].target.owner
        /\ light'[l].target.value = light[l].target.value
     \/ CommandOwned(l)

\* Manual publishes go with a manual owner.
ByStep(l) ==
  \/ by'[l] = by[l]
  \/ by'[l] = "AllOff"
  \/ by'[l] = "Manual" /\ running /\ (CommandOwned(l) \/ light'[l].target.owner = None)

\* The cursor of r is dropped, kept, or set to a step of the current slot.
CursorStep(r) ==
  \/ zone'[r].cycle = NoCycle
  \/ /\ zone'[r].cycle = zone[r].cycle /\ schedule'[r] = schedule[r]
     /\ zone[r].target.phase # "Unset" => zone'[r].target.phase # "Unset"
  \/ /\ HasSteps(r) /\ schedule'[r] = schedule[r]
     /\ zone'[r].cycle.slot = slot
     /\ zone'[r].cycle.step < Len(StepsNow(r))
     /\ zone'[r].target.phase # "Unset"

\* The ON of a step is confirmed now.
ConfirmedNow(r) ==
  /\ zone'[r].cycle # NoCycle /\ zone'[r].target.phase = "Confirmed"
  /\ zone[r].target.phase # "Confirmed"
  /\ zone[r].target.value = "On" /\ zone'[r].target.value = "On"

\* Every member of r is seen as the step wants it.
StepShown(r) ==
  \A m \in Members[r] : light'[m].actual = IF m \in StepAt(r).lights THEN "On" ELSE "Off"

\* What an action may do to room r
ZoneStep(r) ==
  /\ ZoneOK(zone'[r])
  /\ CursorStep(r)
  /\ ConfirmedNow(r) => StepShown(r)

\* What an action of Lights may do to the house
Envelope ==
  /\ light' \in [LightIds -> LightEntity]
  /\ zone' \in [Rooms -> ZoneEntity]
  /\ after' \in [LightIds -> SUBSET Targets]
  /\ by' \in [LightIds -> {"Manual", "Motion", "AllOff", None}]
  /\ \A l \in LightIds : LightStep(l) /\ ByStep(l)
  /\ \A r \in Rooms : ZoneStep(r)

\* The bulbs and rooms of a well-formed house are well formed.
LEMMA HouseEntities ==
  ASSUME HouseOK
  PROVE  /\ \A l \in LightIds : LightOK(light[l])
         /\ \A r \in Rooms : ZoneOK(zone[r])
  BY DEF HouseOK, LightOK, ZoneOK

\* Stamping targets keeps the type of the report order.
LEMMA StampTyped ==
  ASSUME HouseOK, NEW S, Stamp(S)
  PROVE  after' \in [LightIds -> SUBSET Targets]
  BY DEF HouseOK, Stamp

\* Publishing to L changes the last publisher of the bulbs of L only.
LEMMA PublishTyped ==
  ASSUME HouseOK, NEW L, NEW who \in {"Manual", "Motion", "AllOff"}, Publish(L, who)
  PROVE  /\ by' \in [LightIds -> {"Manual", "Motion", "AllOff", None}]
         /\ \A l \in LightIds : by'[l] = IF l \in L THEN who ELSE by[l]
  BY DEF HouseOK, Publish

\* A command to a bulb
LEMMA LightCommand ==
  ASSUME HouseOK, NEW l \in LightIds, NEW v \in Switch, NEW n \in Levels, NEW who \in Others,
         light'[l] = LightSet(light[l], Commanded(v, LightOwner(l, who)), n)
  PROVE  LightOK(light'[l]) /\ CommandOwned(l)
<1>1. who \in Owners /\ LightOwner(l, who) \in Owners
  BY OwnerTypes DEF Others
<1>2. LightOK(light[l])
  BY HouseEntities
<1>3. light'[l].target = Commanded(v, LightOwner(l, who)) /\ LightOK(light'[l])
  BY <1>1, <1>2, LightFields, NewTargets
<1>4. light'[l].target.owner = LightOwner(l, who)
  BY <1>1, <1>3, NewTargets
<1> QED
  BY <1>3, <1>4 DEF CommandOwned

\* A bulb left alone takes a step.
LEMMA Unmoved ==
  ASSUME HouseOK, NEW l \in LightIds, light'[l] = light[l]
  PROVE  LightStep(l)
  BY HouseEntities DEF LightStep

\* One command to several bulbs (record_group_light_command)
LEMMA LightsCommand ==
  ASSUME HouseOK, running, NEW L, NEW v \in Switch, NEW n \in Levels,
         NEW who \in Others, light' = LightsCommanded(L, v, n, who), Publish(L, "Manual")
  PROVE  /\ light' \in [LightIds -> LightEntity]
         /\ by' \in [LightIds -> {"Manual", "Motion", "AllOff", None}]
         /\ \A l \in LightIds : LightStep(l) /\ ByStep(l)
<1>1. ASSUME NEW l \in LightIds PROVE LightStep(l) /\ ByStep(l)
  <2>1. CASE l \in L
    <3>1. light'[l] = LightSet(light[l], Commanded(v, LightOwner(l, who)), n)
      BY <2>1 DEF LightsCommanded
    <3> QED
      BY <2>1, <3>1, LightCommand, PublishTyped DEF LightStep, ByStep
  <2>2. CASE l \notin L
    <3>1. light'[l] = light[l]
      BY <2>2 DEF LightsCommanded
    <3> QED
      BY <2>2, <3>1, Unmoved, PublishTyped DEF ByStep
  <2> QED
    BY <2>1, <2>2
<1>2. light' \in [LightIds -> LightEntity]
  BY <1>1 DEF LightsCommanded, LightStep, LightOK
<1> QED
  BY <1>1, <1>2, PublishTyped

\* A room that forgets its cursor
LEMMA CursorDropped ==
  ASSUME NEW r, ZoneOK(zone'[r]), zone'[r].cycle = NoCycle PROVE ZoneStep(r)
  BY DEF ZoneStep, CursorStep, ConfirmedNow

\* A room that keeps its cursor, and whose target is not confirmed now
LEMMA CursorKept ==
  ASSUME NEW r, ZoneOK(zone'[r]), zone'[r].cycle = zone[r].cycle, schedule' = schedule,
         zone[r].target.phase # "Unset" => zone'[r].target.phase # "Unset",
         \/ zone'[r].target.phase # "Confirmed"
         \/ zone'[r].target.phase = zone[r].target.phase
         \/ zone'[r].target.value # "On" \/ zone[r].target.value # "On"
  PROVE  ZoneStep(r)
  BY DEF ZoneStep, CursorStep, ConfirmedNow

\* A room left alone takes a step.
LEMMA RoomUnmoved ==
  ASSUME HouseOK, NEW r \in Rooms, zone'[r] = zone[r], schedule' = schedule
  PROVE  ZoneStep(r)
  BY HouseEntities, CursorKept

\* What the assumptions say about rooms, levels and cursors
LEMMA RoomSets ==
  /\ \A r \in Rooms : Members[r] \in SUBSET LightIds /\ Descendants[r] \in SUBSET Rooms
  /\ 0 \in Levels /\ Scenes \subseteq Levels
  /\ NoCycle \in [slot : Slots \cup {None}, step : Nat]
  /\ 0 \in Ages \cup {NoPress} /\ NoPress \in Ages \cup {NoPress}
<1>1. /\ Members \in [Rooms -> SUBSET LightIds] /\ Descendants \in [Rooms -> SUBSET Rooms]
  BY LightsAssumption DEF LightsAssumption
<1>2. NoCycle \in [slot : Slots \cup {None}, step : Nat]
  BY DEF NoCycle
<1>3. 0 \in Ages
  BY AgeZero
<1> QED
  BY <1>1, <1>2, <1>3 DEF Levels

\* write_after_on, write_after_off and propagate_to_descendants
LEMMA GroupCommand ==
  ASSUME HouseOK, NEW r \in Rooms, NEW v \in Switch, NEW n \in Levels, NEW i \in Nat,
         NEW who \in Others, schedule' = schedule,
         zone' = Propagated([zone EXCEPT ![r] =
                    [ZoneSet(zone[r], Commanded(v, ZoneOwner(r, who)), n, i)
                       EXCEPT !.press = 0, !.cycle = NoCycle]], r, v)
  PROVE  zone' \in [Rooms -> ZoneEntity] /\ \A q \in Rooms : ZoneStep(q)
<1> DEFINE z  == ZoneSet(zone[r], Commanded(v, ZoneOwner(r, who)), n, i)
           z1 == [z EXCEPT !.press = 0, !.cycle = NoCycle]
           zs == [zone EXCEPT ![r] = z1]
<1>1. who \in Owners /\ ZoneOwner(r, who) \in Owners /\ "System" \in Owners
  BY OwnerTypes DEF Others, Owners
<1>2. ZoneOK(z)
  BY <1>1, HouseEntities, ZoneFields, NewTargets
<1>3. ZoneOK(z1) /\ z1.cycle = NoCycle
  <2> HIDE DEF z
  <2> QED
    BY <1>2, RoomSets DEF ZoneOK, ZoneEntity
<1>4. ASSUME NEW q \in Rooms PROVE ZoneOK(zs[q]) /\ (q = r => zs[q].cycle = NoCycle)
                                   /\ (q # r => zs[q] = zone[q])
  <2> HIDE DEF z1
  <2> QED
    BY <1>3, HouseEntities DEF HouseOK
<1> HIDE DEF zs
<1>5. ASSUME NEW q \in Rooms PROVE ZoneOK(zone'[q]) /\ ZoneStep(q)
  <2>1. CASE q \in Descendants[r]
    <3> DEFINE y == ZoneSet(zs[q], Commanded(v, ZoneOwner(q, "System")), 0, 0)
    <3>1. ZoneOwner(q, "System") \in Owners
      BY <1>1, OwnerTypes
    <3>2. ZoneOK(y)
      BY <1>4, <3>1, RoomSets, ZoneFields, NewTargets
    <3>3. zone'[q] = [y EXCEPT !.cycle = NoCycle, !.actual = v, !.press = NoPress]
      BY <2>1 DEF Propagated, zs
    <3> HIDE DEF y
    <3>4. ZoneOK(zone'[q]) /\ zone'[q].cycle = NoCycle
      BY <3>2, <3>3, RoomSets DEF ZoneOK, ZoneEntity
    <3> QED
      BY <3>4, CursorDropped
  <2>2. CASE q \notin Descendants[r]
    <3>1. zone'[q] = zs[q]
      BY <2>2 DEF Propagated, zs
    <3> QED
      BY <3>1, <1>4, CursorDropped, RoomUnmoved
  <2> QED
    BY <2>1, <2>2
<1>6. zone' \in [Rooms -> ZoneEntity]
  BY <1>5 DEF Propagated, ZoneOK
<1> QED
  BY <1>5, <1>6

\* A scene for the whole group
LEMMA GroupOnStep ==
  ASSUME HouseOK, running, schedule' = schedule, NEW r \in Rooms, NEW scene \in Levels,
         NEW idx \in Nat, NEW who \in Others, GroupOn(r, scene, idx, who)
  PROVE  Envelope
<1>1. "On" \in Switch
  BY DEF Switch
<1>2. light' = LightsCommanded(Members[r], "On", scene, who) /\ Publish(Members[r], "Manual")
  BY DEF GroupOn
<1>3. zone' \in [Rooms -> ZoneEntity] /\ \A q \in Rooms : ZoneStep(q)
  BY <1>1, GroupCommand DEF GroupOn
<1>4. after' \in [LightIds -> SUBSET Targets]
  BY StampTyped DEF GroupOn
<1> QED
  BY <1>1, <1>2, <1>3, <1>4, LightsCommand DEF Envelope

\* publish_off for the whole group
LEMMA GroupOffStep ==
  ASSUME HouseOK, running, schedule' = schedule, NEW r \in Rooms, NEW who \in Others,
         GroupOff(r, who)
  PROVE  Envelope
<1>1. "Off" \in Switch /\ 0 \in Levels
  BY DEF Switch, Levels
<1>2. light' = LightsCommanded(Members[r], "Off", 0, who) /\ Publish(Members[r], "Manual")
  BY DEF GroupOff
<1>3. zone' \in [Rooms -> ZoneEntity] /\ \A q \in Rooms : ZoneStep(q)
  BY <1>1, GroupCommand DEF GroupOff
<1>4. after' \in [LightIds -> SUBSET Targets]
  BY StampTyped DEF GroupOff
<1> QED
  BY <1>1, <1>2, <1>3, <1>4, LightsCommand DEF Envelope

\* A handler that returns early
LEMMA NothingStep ==
  ASSUME HouseOK, schedule' = schedule, UNCHANGED <<light, zone, after, by>>
  PROVE  Envelope
<1>1. \A l \in LightIds : LightStep(l) /\ ByStep(l)
  BY Unmoved DEF ByStep
<1>2. \A r \in Rooms : ZoneStep(r)
  BY RoomUnmoved
<1> QED
  BY <1>1, <1>2 DEF Envelope, HouseOK

\* What a schedule holds
LEMMA ScheduleFacts ==
  ASSUME schedule \in [Rooms -> Schedules], slot \in Slots, NEW r \in Rooms
  PROVE  /\ ScenesNow(r) \in Seq(Scenes)
         /\ HasSteps(r) => /\ StepsNow(r) \in Seq([scene : Scenes, lights : Selections])
                           /\ StepsNow(r) # <<>>
<1>1. schedule[r] \in Schedules
  OBVIOUS
<1>2. /\ schedule[r].scenes \in [Slots -> Seq(Scenes)]
      /\ \A t \in DOMAIN schedule[r].steps :
           /\ schedule[r].steps[t] \in Seq([scene : Scenes, lights : Selections])
           /\ schedule[r].steps[t] # <<>>
  BY <1>1, LightsAssumption DEF LightsAssumption
<1> QED
  BY <1>2 DEF ScenesNow, HasSteps, StepsNow

\* An indexed element of a sequence belongs to its element set.
LEMMA Element ==
  ASSUME NEW S, NEW q \in Seq(S), NEW i \in 1 .. Len(q) PROVE q[i] \in S
  OBVIOUS

\* A nonempty set of naturals has a least element, so the first step that
\* execute_scene_step_down looks for exists.
LEMMA MinExists ==
  ASSUME NEW S \in SUBSET Nat, S # {} PROVE \E j \in S : \A k \in S : j =< k
<1> DEFINE R == OpToRel(<, Nat)
<1>1. \A i, j \in Nat : <<i, j>> \in R <=> i < j
  BY DEF OpToRel
<1>2. IsWellFoundedOn(R, Nat)
  BY NatLessThanWellFounded
<1> HIDE DEF R
<1>3. \E j \in S : \A k \in S : ~(<<k, j>> \in R)
  BY <1>2, WFMin
<1>4. PICK j \in S : \A k \in S : ~(<<k, j>> \in R)
  BY <1>3
<1>5. ASSUME NEW k \in S PROVE j =< k
  <2>1. k \in Nat /\ j \in Nat
    OBVIOUS
  <2>2. ~(k < j)
    BY <1>1, <1>4, <2>1, Zenon
  <2> QED
    BY <2>1, <2>2
<1> QED
  BY <1>5

\* A remainder is a valid index.
LEMMA Modulo ==
  ASSUME NEW i \in Nat, NEW n \in Nat \ {0}
  PROVE  i % n \in Nat /\ i % n < n
  OBVIOUS

\* Room r moves to a step of the current slot.
LEMMA CursorSet ==
  ASSUME HouseOK, schedule' = schedule, NEW r \in Rooms, HasSteps(r), ZoneOK(zone'[r]),
         zone'[r].cycle.slot = slot, zone'[r].cycle.step < Len(StepsNow(r)),
         zone'[r].target.phase = "Commanded"
  PROVE  ZoneStep(r)
  BY DEF ZoneStep, CursorStep, ConfirmedNow

\* execute_switch_steps, a step of the current slot is applied
LEMMA ApplyStepStep ==
  ASSUME HouseOK, running, schedule' = schedule, schedule \in [Rooms -> Schedules],
         slot \in Slots, NEW r \in Rooms, HasSteps(r),
         NEW index \in Nat, index < Len(StepsNow(r)), ApplyStep(r, index)
  PROVE  Envelope
<1> DEFINE step == StepsNow(r)[index + 1]
<1>1. step \in [scene : Scenes, lights : Selections]
  <2>1. StepsNow(r) \in Seq([scene : Scenes, lights : Selections])
    BY ScheduleFacts
  <2>2. index + 1 \in 1 .. Len(StepsNow(r))
    BY <2>1
  <2> QED
    BY <2>1, <2>2, Element
<1>2. step.scene \in Levels /\ 0 \in Levels /\ "User" \in Others /\ "User" \in Owners
      /\ "On" \in Switch /\ "Off" \in Switch
  BY <1>1, RoomSets DEF Others, Owners, Switch
<1> HIDE DEF step
<1>3. ASSUME NEW l \in LightIds PROVE LightStep(l) /\ ByStep(l)
  <2>1. CASE l \in Members[r]
    <3>1. \E v \in Switch, n \in Levels :
            light'[l] = LightSet(light[l], Commanded(v, LightOwner(l, "User")), n)
      BY <1>2, <2>1 DEF ApplyStep, step
    <3> QED
      BY <2>1, <3>1, <1>2, LightCommand, PublishTyped DEF LightStep, ByStep, ApplyStep
  <2>2. CASE l \notin Members[r]
    <3>1. light'[l] = light[l]
      BY <2>2 DEF ApplyStep
    <3> QED
      BY <2>2, <3>1, Unmoved, PublishTyped DEF ByStep, ApplyStep
  <2> QED
    BY <2>1, <2>2
<1>4. light' \in [LightIds -> LightEntity]
  <2>1. \A l \in LightIds : light'[l] \in LightEntity
    BY <1>3 DEF LightStep, LightOK
  <2> QED
    BY <2>1 DEF ApplyStep
<1>5. ASSUME NEW q \in Rooms PROVE ZoneStep(q)
  <2>1. CASE q = r
    <3> DEFINE z == ZoneSet(zone[r], Commanded("On", ZoneOwner(r, "User")), step.scene, index)
    <3>1. ZoneOK(z) /\ z.target.phase = "Commanded"
      BY <1>2, HouseEntities, OwnerTypes, ZoneFields, NewTargets
    <3>2. zone'[r] = [z EXCEPT !.cycle = [slot |-> slot, step |-> index], !.press = 0]
      BY DEF ApplyStep, step, HouseOK
    <3> HIDE DEF z
    <3> DEFINE c == [slot |-> slot, step |-> index]
    <3>4. c \in [slot : Slots \cup {None}, step : Nat]
      OBVIOUS
    <3>5. c.slot = slot /\ c.step = index
      OBVIOUS
    <3> HIDE DEF c
    <3>3. ZoneOK(zone'[r]) /\ zone'[r].cycle = c /\ zone'[r].target = z.target
      BY <3>1, <3>2, <3>4, RoomSets DEF ZoneOK, ZoneEntity, c
    <3> QED
      BY <2>1, <3>1, <3>3, <3>5, CursorSet
  <2>2. CASE q # r
    <3>1. zone'[q] = zone[q]
      BY <2>2 DEF ApplyStep, HouseOK
    <3> QED
      BY <3>1, RoomUnmoved
  <2> QED
    BY <2>1, <2>2
<1>6. zone' \in [Rooms -> ZoneEntity]
  <2>1. \A q \in Rooms : zone'[q] \in ZoneEntity
    BY <1>5 DEF ZoneStep, ZoneOK
  <2>2. zone' = [q \in Rooms |-> zone'[q]]
    BY DEF ApplyStep, HouseOK
  <2> QED
    BY <2>1, <2>2
<1> QED
  BY <1>3, <1>4, <1>5, <1>6, StampTyped, PublishTyped DEF Envelope, ApplyStep

\* execute_switch_steps: the index it computes is within the steps.
LEMMA SwitchStepsStep ==
  ASSUME HouseOK, running, schedule' = schedule, schedule \in [Rooms -> Schedules],
         slot \in Slots, NEW r \in Rooms, HasSteps(r), NEW action, SwitchSteps(r, action)
  PROVE  Envelope
<1> DEFINE index(on) == IF on /\ zone[r].target.value = "On" /\ zone[r].cycle.slot = slot
                          THEN (zone[r].cycle.step + 1) % Len(StepsNow(r)) ELSE 0
<1>1. Len(StepsNow(r)) \in Nat \ {0}
  <2>1. StepsNow(r) \in Seq([scene : Scenes, lights : Selections]) /\ StepsNow(r) # <<>>
    BY ScheduleFacts
  <2> QED
    BY <2>1
<1>2. zone[r].cycle.step \in Nat
  BY HouseEntities, ZoneFields
<1>3. \A on : index(on) \in Nat /\ index(on) < Len(StepsNow(r))
  BY <1>1, <1>2, Modulo
<1>4. GroupOff(r, "User") \/ \E on : ApplyStep(r, index(on))
  BY Zenon DEF SwitchSteps
<1>5. "User" \in Others
  BY DEF Others, Owners
<1> HIDE DEF index
<1> QED
  BY <1>3, <1>4, <1>5, GroupOffStep, ApplyStepStep

\* A room r alone gets a new state.
LEMMA OneRoom ==
  ASSUME HouseOK, schedule' = schedule, NEW r \in Rooms, NEW z, zone' = [zone EXCEPT ![r] = z],
         ZoneStep(r)
  PROVE  zone' \in [Rooms -> ZoneEntity] /\ \A q \in Rooms : ZoneStep(q)
<1>1. \A q \in Rooms \ {r} : zone'[q] = zone[q]
  BY DEF HouseOK
<1>2. \A q \in Rooms : ZoneStep(q)
  BY <1>1, RoomUnmoved
<1>3. \A q \in Rooms : zone'[q] \in ZoneEntity
  BY <1>2 DEF ZoneStep, ZoneOK
<1>4. zone' = [q \in Rooms |-> zone'[q]]
  BY DEF HouseOK
<1> QED
  BY <1>2, <1>3, <1>4

\* execute_scene_step_down, an expansion is undone
LEMMA UndoStepStep ==
  ASSUME HouseOK, running, schedule' = schedule, schedule \in [Rooms -> Schedules],
         slot \in Slots, NEW r \in Rooms, HasSteps(r),
         NEW i \in 1 .. Len(StepsNow(r)) - 1, NEW follows \in BOOLEAN, UndoStep(r, i, follows)
  PROVE  Envelope
<1> DEFINE owner == ZoneOwner(r, "User")
           prev  == StepsNow(r)[i]
           c     == [slot |-> slot, step |-> i - 1]
           z     == zone[r]
           back  == ZoneSet(z, Commanded("On", owner), prev.scene, i - 1)
           new   == ZoneSet(z, Adopted("On", owner), 0, 0)
<1>1. "User" \in Others /\ owner \in Owners /\ "On" \in Switch /\ "Off" \in Switch
  BY OwnerTypes DEF Others, Owners, Switch
<1>2. StepsNow(r) \in Seq([scene : Scenes, lights : Selections])
  BY ScheduleFacts
<1>3. /\ i \in 1 .. Len(StepsNow(r)) /\ i - 1 \in Nat /\ i - 1 < Len(StepsNow(r))
  BY <1>2
<1>4. prev.scene \in Levels /\ 0 \in Levels
  <2>1. prev \in [scene : Scenes, lights : Selections]
    BY <1>2, <1>3, Element
  <2> HIDE DEF prev
  <2> QED
    BY <2>1, RoomSets
<1>5. c \in [slot : Slots \cup {None}, step : Nat] /\ c.slot = slot /\ c.step = i - 1
  BY <1>3
<1>6. ZoneOK(z) /\ Sound(z.target)
  BY HouseEntities, ZoneFields
<1>7. ZoneOK(back) /\ back.target = Commanded("On", owner)
  BY <1>1, <1>3, <1>4, <1>6, ZoneFields, NewTargets
<1>8. ZoneOK(new)
  BY <1>1, <1>4, <1>6, ZoneFields, NewTargets
<1>9. Sound(Reassigned(z.target, owner))
  BY <1>1, <1>6, ReassignedTarget
<1>10. LET next == IF follows THEN [back EXCEPT !.cycle = c]
                   ELSE IF z.target.value = "On"
                     THEN [z EXCEPT !.target = Reassigned(@, owner), !.cycle = NoCycle]
                   ELSE [new EXCEPT !.cycle = NoCycle]
       IN  zone' = [zone EXCEPT ![r] = [next EXCEPT !.press = 0]]
  BY Zenon DEF UndoStep
<1> HIDE DEF z, back, new, c, owner, prev
<1>11. ZoneStep(r)
  <2>1. CASE follows
    <3>1. zone'[r] = [[back EXCEPT !.cycle = c] EXCEPT !.press = 0]
      BY <1>10, <2>1 DEF HouseOK
    <3>2. ZoneOK(zone'[r]) /\ zone'[r].cycle = c /\ zone'[r].target = back.target
      BY <3>1, <1>5, <1>7, RoomSets DEF ZoneOK, ZoneEntity
    <3>3. zone'[r].target.phase = "Commanded"
      BY <3>2, <1>1, <1>7, NewTargets
    <3> QED
      BY <3>2, <3>3, <1>3, <1>5, CursorSet
  <2>2. CASE ~follows /\ z.target.value = "On"
    <3>1. zone'[r] = [[z EXCEPT !.target = Reassigned(@, owner), !.cycle = NoCycle]
                        EXCEPT !.press = 0]
      BY <1>10, <2>2 DEF HouseOK
    <3>2. ZoneOK(zone'[r]) /\ zone'[r].cycle = NoCycle
      BY <3>1, <1>6, <1>9, RoomSets DEF ZoneOK, ZoneEntity, Sound
    <3> QED
      BY <3>2, CursorDropped
  <2>3. CASE ~follows /\ z.target.value # "On"
    <3>1. zone'[r] = [[new EXCEPT !.cycle = NoCycle] EXCEPT !.press = 0]
      BY <1>10, <2>3 DEF HouseOK
    <3>2. ZoneOK(zone'[r]) /\ zone'[r].cycle = NoCycle
      BY <3>1, <1>8, RoomSets DEF ZoneOK, ZoneEntity
    <3> QED
      BY <3>2, CursorDropped
  <2> QED
    BY <2>1, <2>2, <2>3
<1>12. zone' \in [Rooms -> ZoneEntity] /\ \A q \in Rooms : ZoneStep(q)
  BY <1>10, <1>11, OneRoom
<1>13. after' \in [LightIds -> SUBSET Targets]
  BY StampTyped DEF UndoStep
<1>14. /\ light' = LightsCommanded(StepDelta(r, i), "Off", 0, "User")
       /\ Publish(StepDelta(r, i), "Manual")
  BY DEF UndoStep
<1> QED
  BY <1>1, <1>4, <1>12, <1>13, <1>14, LightsCommand DEF Envelope

\* execute_scene_step_down: the expansion it undoes is one of the slot's.
LEMMA SceneStepDownStep ==
  ASSUME HouseOK, schedule \in [Rooms -> Schedules], slot \in Slots, NEW r \in Rooms,
         SceneStepDown(r)
  PROVE  Envelope
<1>1. running /\ schedule' = schedule /\ "User" \in Others
  BY DEF SceneStepDown, Apart, Others, Owners
<1> DEFINE current == IF zone[r].cycle.slot = slot THEN zone[r].cycle.step ELSE 0
           found   == {i \in 1 .. Len(StepsNow(r)) - 1 : StepDelta(r, i) # {}}
           follows == current \in found
           first   == CHOOSE j \in found : \A k \in found : j =< k
           i       == IF follows THEN current ELSE first
<1>2. GroupOff(r, "User") \/ (HasSteps(r) /\ found # {} /\ UndoStep(r, i, follows))
  BY Zenon DEF SceneStepDown
<1>3. HasSteps(r) /\ found # {} => i \in 1 .. Len(StepsNow(r)) - 1
  <2> SUFFICES ASSUME HasSteps(r), found # {} PROVE i \in found
    OBVIOUS
  <2>1. found \subseteq Nat
    OBVIOUS
  <2> HIDE DEF found
  <2>2. \E j \in found : \A k \in found : j =< k
    BY <2>1, MinExists
  <2> QED
    BY <2>2
<1>4. follows \in BOOLEAN
  OBVIOUS
<1> HIDE DEF i, follows
<1> QED
  BY <1>1, <1>2, <1>3, <1>4, GroupOffStep, UndoStepStep

\* execute_group_scene_cycle: the index it computes is within the scenes.
LEMMA GroupSceneCycleStep ==
  ASSUME HouseOK, running, schedule' = schedule, schedule \in [Rooms -> Schedules],
         slot \in Slots, NEW r \in Rooms, GroupSceneCycleOf(r)
  PROVE  Envelope
<1> DEFINE s    == ScenesNow(r)
           here == {i \in 1 .. Len(s) : zone[r].target.value = "On" /\ s[i] = zone[r].scene}
           idx  == IF ~IsOn(zone[r]) THEN 0
                   ELSE IF zone[r].cycle = NoCycle THEN (zone[r].idx + 1) % Len(s)
                   ELSE IF here = {} THEN 0
                   ELSE (CHOOSE i \in here : \A j \in here : i =< j) % Len(s)
<1>1. (s = <<>> /\ Nothing) \/ (s # <<>> /\ GroupOn(r, s[idx + 1], idx, "User"))
  BY Zenon DEF GroupSceneCycleOf
<1>2. s \in Seq(Scenes) /\ Len(s) \in Nat
  <2>1. s \in Seq(Scenes)
    BY ScheduleFacts
  <2> HIDE DEF s
  <2> QED
    BY <2>1
<1>3. s # <<>> => idx \in Nat /\ idx < Len(s)
  <2> SUFFICES ASSUME s # <<>> PROVE idx \in Nat /\ idx < Len(s)
    OBVIOUS
  <2>1. Len(s) \in Nat \ {0}
    <3> HIDE DEF s
    <3> QED
      BY <1>2
  <2>2. zone[r].idx \in Nat
    BY HouseEntities, ZoneFields
  <2>3. here # {} => (CHOOSE i \in here : \A j \in here : i =< j) \in Nat
    <3>1. here \subseteq Nat
      OBVIOUS
    <3> HIDE DEF here
    <3> QED
      BY <3>1, MinExists
  <2> HIDE DEF s, here
  <2> QED
    BY <2>1, <2>2, <2>3, Modulo
<1>4. "User" \in Others
  BY DEF Others, Owners
<1>5. s # <<>> => s[idx + 1] \in Levels
  <2> HIDE DEF idx, s
  <2> QED
    BY <1>2, <1>3, Element, RoomSets
<1> HIDE DEF idx, s
<1> QED
  BY <1>1, <1>3, <1>4, <1>5, GroupOnStep, NothingStep DEF Nothing

\* execute_brightness_step, _move, _stop and execute_switch_brightness: a bulb
\* without a target gets no owner.
LEMMA BrightnessStep ==
  ASSUME HouseOK, NEW r \in Rooms, Brightness(r)
  PROVE  Envelope
<1> DEFINE stepped == zone[r].cycle # NoCycle
           L       == IF stepped THEN StepAt(r).lights ELSE Members[r]
           owner   == ZoneOwner(r, "User")
<1>1. /\ running /\ schedule' = schedule
      /\ light' = IF stepped THEN LightsCommanded(L, "On", 0, "User")
                  ELSE [l \in LightIds |-> IF l \in L THEN Dimmed(l) ELSE light[l]]
      /\ zone' = [zone EXCEPT ![r].target = Reassigned(@, owner)]
      /\ Publish(L, "Manual")
  BY DEF Brightness, Apart
<1>2. after' \in [LightIds -> SUBSET Targets]
  BY StampTyped DEF Brightness
<1>3. /\ "On" \in Switch /\ 0 \in Levels /\ "User" \in Others /\ "User" \in Owners
      /\ owner \in Owners
  BY OwnerTypes DEF Switch, Levels, Others, Owners
<1> HIDE DEF L, owner
<1>4. /\ light' \in [LightIds -> LightEntity]
      /\ by' \in [LightIds -> {"Manual", "Motion", "AllOff", None}]
      /\ \A l \in LightIds : LightStep(l) /\ ByStep(l)
  <2>1. CASE stepped
    <3>1. light' = LightsCommanded(L, "On", 0, "User")
      BY <1>1, <2>1
    <3> QED
      BY <3>1, <1>1, <1>3, LightsCommand
  <2>2. CASE ~stepped
    <3>1. light' = [l \in LightIds |-> IF l \in L THEN Dimmed(l) ELSE light[l]]
      BY <1>1, <2>2
    <3>2. ASSUME NEW l \in LightIds PROVE LightStep(l) /\ ByStep(l)
      <4>1. CASE l \notin L
        BY <4>1, <3>1, <1>1, Unmoved, PublishTyped DEF ByStep
      <4>2. CASE l \in L /\ IsOn(light[l])
        <5>1. light'[l] = LightSet(light[l], Commanded("On", LightOwner(l, "User")), 0)
          BY <3>1, <4>2 DEF Dimmed
        <5> QED
          BY <5>1, <1>1, <1>3, <4>2, LightCommand, PublishTyped DEF LightStep, ByStep
      <4>3. CASE l \in L /\ ~IsOn(light[l])
        <5> DEFINE t == Reassigned(light[l].target, LightOwner(l, "User"))
        <5>1. light'[l] = LightSet(light[l], t, light[l].level)
          BY <3>1, <4>3 DEF Dimmed
        <5>2. LightOK(light[l]) /\ Sound(light[l].target) /\ light[l].level \in Levels
          BY HouseEntities, LightFields
        <5>3. /\ Sound(t) /\ t.value = light[l].target.value
              /\ t.owner = IF light[l].target.value = None THEN None
                                                           ELSE LightOwner(l, "User")
          BY <5>2, <1>3, OwnerTypes, ReassignedTarget
        <5>4. light[l].target.value = None => light[l].target.owner = None
          BY <5>2 DEF Sound, TargetOwned
        <5> HIDE DEF t
        <5>5. LightOK(light'[l]) /\ light'[l].target = t
          BY <5>1, <5>2, <5>3, LightFields
        <5>6. light'[l].target.owner = None \/ CommandOwned(l)
          BY <5>3, <5>5, <1>3 DEF CommandOwned
        <5> QED
          BY <1>1, <4>3, <5>3, <5>4, <5>5, <5>6, <1>3, PublishTyped
             DEF LightStep, ByStep, CommandOwned
      <4> QED
        BY <4>1, <4>2, <4>3
    <3>3. \A l \in LightIds : light'[l] \in LightEntity
      BY <3>2 DEF LightStep, LightOK
    <3> QED
      BY <3>1, <3>2, <3>3, <1>1, PublishTyped
  <2> QED
    BY <2>1, <2>2
<1>5. ZoneStep(r)
  <2>1. ZoneOK(zone[r]) /\ Sound(zone[r].target)
    BY HouseEntities, ZoneFields
  <2>2. zone'[r] = [zone[r] EXCEPT !.target = Reassigned(zone[r].target, owner)]
    BY <1>1 DEF HouseOK
  <2>3. /\ Sound(Reassigned(zone[r].target, owner))
        /\ Reassigned(zone[r].target, owner).phase = zone[r].target.phase
    BY <2>1, <1>3, ReassignedTarget
  <2>4. /\ ZoneOK(zone'[r]) /\ zone'[r].cycle = zone[r].cycle
        /\ zone'[r].target.phase = zone[r].target.phase
    BY <2>1, <2>2, <2>3, ZoneFields
  <2> QED
    BY <2>4, <1>1, CursorKept
<1>6. zone' \in [Rooms -> ZoneEntity] /\ \A q \in Rooms : ZoneStep(q)
  <2>1. zone' = [zone EXCEPT ![r] = zone'[r]]
    BY <1>1 DEF HouseOK
  <2> QED
    BY <2>1, <1>1, <1>5, OneRoom
<1> QED
  BY <1>2, <1>4, <1>6 DEF Envelope

\* TurnOffAllZones keeps every cursor.
LEMMA TurnOffAllZonesStep ==
  ASSUME HouseOK, TurnOffAllZones
  PROVE  Envelope
<1> DEFINE lit == {r \in Rooms : IsOn(zone[r])}
<1>1. /\ light' = light /\ schedule' = schedule
      /\ zone' = [r \in Rooms |->
                    IF r \in lit
                      THEN [ZoneSet(zone[r], Commanded("Off", ZoneOwner(r, "Schedule")), 0, 0)
                              EXCEPT !.press = NoPress]
                      ELSE zone[r]]
      /\ Publish(UNION {Members[r] : r \in lit}, "AllOff")
  BY DEF TurnOffAllZones, Apart
<1>2. after' \in [LightIds -> SUBSET Targets]
  BY StampTyped DEF TurnOffAllZones
<1>3. ASSUME NEW r \in Rooms PROVE ZoneStep(r)
  <2>1. CASE r \in lit
    <3> DEFINE z == ZoneSet(zone[r], Commanded("Off", ZoneOwner(r, "Schedule")), 0, 0)
    <3>1. ZoneOwner(r, "Schedule") \in Owners /\ "Off" \in Switch /\ 0 \in Levels
      BY OwnerTypes DEF Owners, Switch, Levels
    <3>2. ZoneOK(zone[r])
      BY HouseEntities
    <3>3. ZoneOK(z) /\ z.target.phase = "Commanded" /\ z.cycle = zone[r].cycle
      BY <3>1, <3>2, ZoneFields, NewTargets
    <3>4. zone'[r] = [z EXCEPT !.press = NoPress]
      BY <1>1, <2>1
    <3> HIDE DEF z
    <3>5. ZoneOK(zone'[r]) /\ zone'[r].cycle = zone[r].cycle /\ zone'[r].target = z.target
      BY <3>3, <3>4, RoomSets DEF ZoneOK, ZoneEntity
    <3> QED
      BY <3>3, <3>5, <1>1, CursorKept
  <2>2. CASE r \notin lit
    BY <2>2, <1>1, RoomUnmoved
  <2> QED
    BY <2>1, <2>2
<1>4. zone' \in [Rooms -> ZoneEntity]
  <2>1. \A r \in Rooms : zone'[r] \in ZoneEntity
    BY <1>3 DEF ZoneStep, ZoneOK
  <2> QED
    BY <1>1, <2>1
<1>5. \A l \in LightIds : LightStep(l) /\ ByStep(l)
  <2> HIDE DEF lit
  <2> QED
    BY <1>1, Unmoved, PublishTyped DEF ByStep
<1>6. by' \in [LightIds -> {"Manual", "Motion", "AllOff", None}]
  <2> HIDE DEF lit
  <2> QED
    BY <1>1, PublishTyped
<1> QED
  BY <1>1, <1>2, <1>3, <1>4, <1>5, <1>6 DEF Envelope, HouseOK

\* record_light_state: a bulb keeps its owner and value, or is seen off and
\* goes to the system, or to motion where an off-only session claims it.
LEMMA RecordedStep ==
  ASSUME HouseOK, NEW l \in LightIds, NEW on \in Switch, NEW seen \in Levels,
         light'[l] = RecordedLight(l, on, seen)
  PROVE  LightStep(l) /\ light'[l].actual = on
<1> DEFINE e  == light[l]
           t1 == TargetAged(e.target, LightStale)
           gone  == on = "Off" /\ t1.value = "On" /\ ~IsActionable(t1)
           a     == Adopted("Off", LightOwner(l, "System"))
           t2    == IF gone THEN a ELSE t1
           level == IF gone THEN 0 ELSE e.level
           sure  == Matches(t2, level, on, seen) /\ t2.phase \in {"Commanded", "Stale"}
           t3    == IF sure THEN Confirmed(t2) ELSE t2
<1>1. LightOK(e) /\ Sound(e.target) /\ e.level \in Levels
  BY HouseEntities, LightFields
<1>2. LightStale \in Nat
  BY LightsAssumption, MaxAgeAssumption, SMT DEF LightsAssumption
<1>3. Sound(t1) /\ t1.value = e.target.value /\ t1.owner = e.target.owner
  BY <1>1, <1>2, AgedTarget
<1>4. /\ "Off" \in Switch /\ 0 \in Levels /\ "System" \in Others /\ "System" \in Owners
      /\ LightOwner(l, "System") \in Owners
  BY OwnerTypes DEF Switch, Levels, Others, Owners
<1>5. Sound(a) /\ a.owner = LightOwner(l, "System")
  BY <1>4, NewTargets
<1> HIDE DEF e, t1, a
<1>6. /\ Sound(t2) /\ level \in Levels
      /\ \/ t2.owner = LightOwner(l, "System")
         \/ t2.owner = e.target.owner /\ t2.value = e.target.value
  BY <1>1, <1>3, <1>4, <1>5
<1> HIDE DEF t2, level
<1>7. /\ Sound(t3) /\ t3.owner = t2.owner /\ t3.value = t2.value
  BY <1>6, ConfirmedTarget
<1>8. light'[l] = [known |-> TRUE, target |-> t3, level |-> level, actual |-> on, seen |-> seen]
  BY DEF RecordedLight, e, t1, a, t2, level
<1> HIDE DEF t3
<1>9. LightOK(light'[l]) /\ light'[l].target = t3 /\ light'[l].actual = on
  BY <1>6, <1>7, <1>8 DEF LightOK, LightEntity, Sound
<1> QED
  BY <1>4, <1>6, <1>7, <1>9 DEF LightStep, CommandOwned, e

\* A report keeps the type of the report order.
LEMMA ReportedTyped ==
  ASSUME HouseOK, NEW L, NEW S, after' = Reported(L, S)
  PROVE  after' \in [LightIds -> SUBSET Targets]
  BY DEF HouseOK, Reported, RoomsOf, Targets

\* handle_light_state, a room of the bulb: a cursor's ON is confirmed by the
\* reports of all members only.
LEMMA ZoneFromLightsStep ==
  ASSUME HouseOK, schedule' = schedule, NEW r \in Rooms, NEW aft,
         zone'[r] = ZoneFromLights(r, light', aft)
  PROVE  ZoneStep(r)
<1> DEFINE z   == zone[r]
           ls  == light'
           lit == {m \in Members[r] : ls[m].actual = "On"}
           on  == IF lit # {} THEN "On"
                  ELSE IF \E m \in Members[r] : ls[m].actual = None THEN None ELSE "Off"
           follows == IF lit # {} THEN \E m \in lit : r \in aft[m]
                                  ELSE \A m \in Members[r] : r \in aft[m]
           t1  == TargetAged(z.target, LightStale)
           gone == /\ on = "Off" /\ t1.value = "On" /\ ~IsActionable(t1)
                   /\ follows \/ StepIsOff(r, ls, aft)
           off == ZoneSet(z, Adopted("Off", ZoneOwner(r, "System")), 0, 0)
           z1  == IF gone THEN [off EXCEPT !.cycle = NoCycle] ELSE [z EXCEPT !.target = t1]
           current == IF z1.cycle # NoCycle THEN StepConfirmed(r, ls, aft) ELSE follows
           sure == /\ z1.target.value = on /\ current
                   /\ z1.target.phase \in {"Commanded", "Stale"}
           t2  == IF sure THEN Confirmed(z1.target) ELSE z1.target
<1>1. ZoneOK(z) /\ Sound(z.target)
  BY HouseEntities, ZoneFields
<1>2. on \in Switch \cup {None}
  BY DEF Switch
<1>3. /\ zone'[r] = IF on = None THEN [z EXCEPT !.actual = None]
                                 ELSE [z1 EXCEPT !.target = t2, !.actual = on]
  BY DEF ZoneFromLights
<1>4. LightStale \in Nat
  BY LightsAssumption, MaxAgeAssumption, SMT DEF LightsAssumption
<1>5. /\ Sound(t1)
      /\ t1.phase = "Unset" <=> z.target.phase = "Unset"
      /\ t1.phase = "Confirmed" <=> z.target.phase = "Confirmed"
  BY <1>1, <1>4, AgedTarget
<1>6. ZoneOK(off)
  <2>1. "Off" \in Switch /\ 0 \in Levels /\ 0 \in Nat /\ ZoneOwner(r, "System") \in Owners
    BY OwnerTypes DEF Switch, Levels, Owners
  <2> QED
    BY <1>1, <2>1, ZoneFields, NewTargets
<1> HIDE DEF on, z, t1, off, follows
<1>7. /\ ZoneOK(z1) /\ Sound(z1.target)
      /\ \/ z1.cycle = NoCycle
         \/ z1.cycle = z.cycle /\ z1.target = t1
  <2>1. CASE gone
    <3>1. z1 = [off EXCEPT !.cycle = NoCycle]
      BY <2>1
    <3> HIDE DEF z1
    <3>2. ZoneOK(z1) /\ z1.cycle = NoCycle
      BY <3>1, <1>6, RoomSets DEF ZoneOK, ZoneEntity
    <3> QED
      BY <3>2, ZoneFields
  <2>2. CASE ~gone
    <3>1. z1 = [z EXCEPT !.target = t1]
      BY <2>2
    <3> HIDE DEF z1
    <3> QED
      BY <3>1, <1>1, <1>5, ZoneFields
  <2> QED
    BY <2>1, <2>2
<1>8. /\ Sound(t2)
      /\ z1.target.phase # "Unset" => t2.phase # "Unset"
      /\ t2.phase = "Confirmed" => z1.target.phase = "Confirmed" \/ current
  <2> HIDE DEF z1, current
  <2> QED
    BY <1>7, ConfirmedTarget
<1>9. CASE on = None
  <2>1. zone'[r] = [z EXCEPT !.actual = None]
    BY <1>3, <1>9
  <2>2. ZoneOK(zone'[r]) /\ zone'[r].cycle = z.cycle /\ zone'[r].target = z.target
    BY <2>1, <1>1 DEF ZoneOK, ZoneEntity
  <2> QED
    BY <2>2, CursorKept DEF z
<1>10. CASE on # None
  <2>1. zone'[r] = [z1 EXCEPT !.target = t2, !.actual = on]
    BY <1>3, <1>10
  <2> HIDE DEF t2
  <2>2. ZoneOK(zone'[r]) /\ zone'[r].cycle = z1.cycle /\ zone'[r].target = t2
    <3> HIDE DEF z1
    <3> QED
      BY <2>1, <1>2, <1>7, <1>8 DEF ZoneOK, ZoneEntity, Sound
  <2>3. CASE z1.cycle = NoCycle
    BY <2>2, <2>3, CursorDropped
  <2>4. CASE z1.cycle # NoCycle
    <3>1. z1.cycle = z.cycle /\ z1.target = t1
      BY <1>7, <2>4
    <3>2. CursorStep(r)
      BY <2>2, <3>1, <1>5, <1>8 DEF CursorStep, z
    <3>3. ConfirmedNow(r) => StepShown(r)
      <4> SUFFICES ASSUME ConfirmedNow(r) PROVE StepShown(r)
        OBVIOUS
      <4>1. current
        BY <2>2, <3>1, <1>5, <1>8 DEF ConfirmedNow, z
      <4>2. StepConfirmed(r, light', aft)
        BY <4>1, <2>4
      <4>3. zone[r].cycle # NoCycle
        BY <2>4, <3>1 DEF z
      <4> QED
        BY <4>2, <4>3 DEF StepConfirmed, StepShown, Matches
    <3> QED
      BY <2>2, <3>2, <3>3 DEF ZoneStep
  <2> QED
    BY <2>3, <2>4
<1> QED
  BY <1>9, <1>10

\* handle_light_state
LEMMA LightStateStep ==
  ASSUME HouseOK, NEW l \in LightIds, NEW on \in Switch, NEW seen \in Levels,
         LightState(l, on, seen)
  PROVE  Envelope
<1> DEFINE ls  == [light EXCEPT ![l] = RecordedLight(l, on, seen)]
           aft == Reported({l}, {})
<1>1. /\ light' = ls /\ by' = by /\ schedule' = schedule
      /\ zone' = [r \in Rooms |-> IF r \in RoomsOf(l) THEN ZoneFromLights(r, light', aft)
                                                     ELSE zone[r]]
  BY DEF LightState, Apart
<1>2. after' \in [LightIds -> SUBSET Targets]
  BY ReportedTyped DEF LightState
<1>3. ASSUME NEW m \in LightIds PROVE LightStep(m) /\ ByStep(m)
  <2>1. m = l => light'[m] = RecordedLight(l, on, seen)
    BY <1>1 DEF HouseOK
  <2>2. m # l => light'[m] = light[m]
    BY <1>1 DEF HouseOK
  <2> QED
    BY <2>1, <2>2, <1>1, RecordedStep, Unmoved DEF ByStep
<1>4. light' \in [LightIds -> LightEntity]
  <2>1. \A m \in LightIds : light'[m] \in LightEntity
    BY <1>3 DEF LightStep, LightOK
  <2>2. light' = [m \in LightIds |-> light'[m]]
    BY <1>1 DEF HouseOK
  <2> QED
    BY <2>1, <2>2
<1> HIDE DEF aft, ls
<1>5. ASSUME NEW r \in Rooms PROVE ZoneStep(r)
  <2>1. CASE r \in RoomsOf(l)
    <3>1. zone'[r] = ZoneFromLights(r, light', aft)
      BY <1>1, <2>1
    <3> QED
      BY <3>1, <1>1, ZoneFromLightsStep
  <2>2. CASE r \notin RoomsOf(l)
    BY <1>1, <2>2, RoomUnmoved
  <2> QED
    BY <2>1, <2>2
<1>6. zone' \in [Rooms -> ZoneEntity]
  <2>1. \A r \in Rooms : zone'[r] \in ZoneEntity
    BY <1>5 DEF ZoneStep, ZoneOK
  <2>2. zone' = [r \in Rooms |-> zone'[r]]
    BY <1>1
  <2> QED
    BY <2>1, <2>2
<1> QED
  BY <1>1, <1>2, <1>3, <1>4, <1>5, <1>6 DEF Envelope, HouseOK

\* handle_group_state, the room itself: a cursor's ON is never confirmed by the
\* group's echo.
LEMMA EchoedZone ==
  ASSUME HouseOK, NEW r \in Rooms, NEW on \in Switch
  PROVE  /\ ZoneOK(ZoneEchoed(r, on)) /\ ZoneEchoed(r, on).cycle = zone[r].cycle
         /\ zone[r].target.phase # "Unset" => ZoneEchoed(r, on).target.phase # "Unset"
         /\ zone[r].cycle # NoCycle =>
              (ZoneEchoed(r, on).target.phase = "Confirmed" <=> zone[r].target.phase = "Confirmed")
<1> DEFINE z  == [zone[r] EXCEPT !.actual = on]
           t1 == TargetAged(z.target, LightStale)
           z1 == IF z.cycle # NoCycle THEN [z EXCEPT !.target = t1] ELSE z
           sure == /\ on = "On" /\ z1.cycle = NoCycle /\ z1.target.value = "On"
                   /\ z1.target.phase \in {"Commanded", "Stale"}
           z2 == IF sure THEN [z1 EXCEPT !.target = Confirmed(z1.target)] ELSE z1
<1>1. ZoneOK(zone[r])
  BY HouseEntities
<1>2. ZoneOK(z) /\ z.cycle = zone[r].cycle /\ z.target = zone[r].target
  BY <1>1 DEF ZoneOK, ZoneEntity
<1>3. ZoneEchoed(r, on) = z2
  BY DEF ZoneEchoed
<1>4. LightStale \in Nat
  BY LightsAssumption, MaxAgeAssumption, SMT DEF LightsAssumption
<1> HIDE DEF z
<1>5. Sound(z.target)
  BY <1>2, ZoneFields
<1>6. /\ Sound(t1)
      /\ t1.phase = "Unset" <=> z.target.phase = "Unset"
      /\ t1.phase = "Confirmed" <=> z.target.phase = "Confirmed"
  BY <1>4, <1>5, AgedTarget
<1> HIDE DEF t1
<1>7. /\ ZoneOK(z1) /\ z1.cycle = z.cycle
      /\ z1.target.phase = "Unset" <=> z.target.phase = "Unset"
      /\ z1.target.phase = "Confirmed" <=> z.target.phase = "Confirmed"
  BY <1>2, <1>6, ZoneFields
<1> HIDE DEF z1
<1>8. CASE sure
  <2>1. Sound(z1.target) /\ z1.target.phase # "Unset"
    BY <1>7, <1>8, ZoneFields
  <2>2. Sound(Confirmed(z1.target)) /\ Confirmed(z1.target).phase = "Confirmed"
    BY <2>1, ConfirmedTarget
  <2>3. z2 = [z1 EXCEPT !.target = Confirmed(z1.target)]
    BY <1>8
  <2> HIDE DEF z2
  <2>4. ZoneOK(z2) /\ z2.cycle = z1.cycle /\ z2.target = Confirmed(z1.target)
    BY <1>7, <2>2, <2>3, ZoneFields
  <2> QED
    BY <1>2, <1>3, <1>7, <1>8, <2>2, <2>4
<1>9. CASE ~sure
  <2>1. z2 = z1
    BY <1>9
  <2> QED
    BY <2>1, <1>2, <1>3, <1>7
<1> QED
  BY <1>8, <1>9

\* handle_group_state, a room inside the one seen off
LEMMA DarkenedZone ==
  ASSUME HouseOK, NEW q \in Rooms
  PROVE  ZoneOK(ZoneDarkened(q)) /\ ZoneDarkened(q).cycle = NoCycle
<1> DEFINE z == [zone[q] EXCEPT !.actual = "Off", !.cycle = NoCycle]
           a == Adopted("Off", ZoneOwner(q, "System"))
<1>1. /\ "Off" \in Switch /\ 0 \in Levels /\ 0 \in Nat /\ ZoneOwner(q, "System") \in Owners
  BY OwnerTypes DEF Switch, Levels, Owners
<1>2. ZoneOK(z) /\ z.cycle = NoCycle
  BY <1>1, HouseEntities, RoomSets DEF ZoneOK, ZoneEntity
<1>3. ZoneDarkened(q) = IF z.target.value = "On" THEN ZoneSet(z, a, 0, 0) ELSE z
  BY DEF ZoneDarkened
<1>4. Sound(a)
  BY <1>1, NewTargets
<1> HIDE DEF z, a
<1> QED
  BY <1>1, <1>2, <1>3, <1>4, ZoneFields

\* handle_group_state
LEMMA GroupStateStep ==
  ASSUME HouseOK, NEW r \in Rooms, NEW on \in Switch, GroupState(r, on)
  PROVE  Envelope
<1> DEFINE echoed == ZoneEchoed(r, on)
           inside == {q \in Rooms \ {r} : Members[q] # {} /\ Members[q] \subseteq Members[r]}
           z      == ZoneSet(echoed, Adopted("Off", ZoneOwner(r, "System")), 0, 0)
           off    == [z EXCEPT !.cycle = NoCycle]
           wentOff ==
             /\ light' = [l \in LightIds |->
                            IF l \in Members[r] THEN RecordedLight(l, "Off", 0) ELSE light[l]]
             /\ zone' = [q \in Rooms |-> IF q = r THEN off
                                         ELSE IF q \in inside THEN ZoneDarkened(q)
                                         ELSE zone[q]]
             /\ after' = Reported(Members[r], {r} \cup Restamped(zone'))
           stayed ==
             /\ zone' = [zone EXCEPT ![r] = echoed]
             /\ after' = Reported({}, Restamped(zone'))
             /\ UNCHANGED light
<1>1. (wentOff \/ stayed) /\ by' = by /\ schedule' = schedule
  BY DEF GroupState, Apart
<1>2. /\ ZoneOK(echoed) /\ echoed.cycle = zone[r].cycle
      /\ zone[r].target.phase # "Unset" => echoed.target.phase # "Unset"
      /\ zone[r].cycle # NoCycle =>
           (echoed.target.phase = "Confirmed" <=> zone[r].target.phase = "Confirmed")
  BY EchoedZone
<1>3. "Off" \in Switch /\ 0 \in Levels /\ 0 \in Nat /\ ZoneOwner(r, "System") \in Owners
  BY OwnerTypes DEF Switch, Levels, Owners
<1> HIDE DEF echoed, inside
<1>4. CASE stayed
  <2>1. zone'[r] = echoed
    BY <1>4 DEF HouseOK
  <2>2. ZoneStep(r)
    <3>1. CASE zone[r].cycle = NoCycle
      BY <2>1, <3>1, <1>2, CursorDropped
    <3>2. CASE zone[r].cycle # NoCycle
      BY <2>1, <3>2, <1>1, <1>2 DEF ZoneStep, CursorStep, ConfirmedNow
    <3> QED
      BY <3>1, <3>2
  <2>3. zone' \in [Rooms -> ZoneEntity] /\ \A q \in Rooms : ZoneStep(q)
    BY <1>1, <1>4, <2>2, OneRoom
  <2>4. \A l \in LightIds : LightStep(l) /\ ByStep(l)
    BY <1>1, <1>4, Unmoved DEF ByStep
  <2>5. after' \in [LightIds -> SUBSET Targets]
    BY <1>4, ReportedTyped
  <2> QED
    BY <1>1, <1>4, <2>3, <2>4, <2>5 DEF Envelope, HouseOK
<1>5. CASE wentOff
  <2>1. ZoneOK(z)
    BY <1>2, <1>3, ZoneFields, NewTargets
  <2> HIDE DEF z
  <2>2. ZoneOK(off) /\ off.cycle = NoCycle
    BY <2>1, RoomSets DEF ZoneOK, ZoneEntity
  <2> HIDE DEF off
  <2>3. ASSUME NEW q \in Rooms PROVE ZoneStep(q)
    <3>1. q = r => zone'[q] = off
      BY <1>5
    <3>2. q # r /\ q \in inside => zone'[q] = ZoneDarkened(q)
      BY <1>5
    <3>3. q # r /\ q \notin inside => zone'[q] = zone[q]
      BY <1>5
    <3> QED
      BY <3>1, <3>2, <3>3, <2>2, <1>1, DarkenedZone, CursorDropped, RoomUnmoved
  <2>4. zone' \in [Rooms -> ZoneEntity]
    <3>1. \A q \in Rooms : zone'[q] \in ZoneEntity
      BY <2>3 DEF ZoneStep, ZoneOK
    <3>2. zone' = [q \in Rooms |-> zone'[q]]
      BY <1>5
    <3> QED
      BY <3>1, <3>2
  <2>5. ASSUME NEW l \in LightIds PROVE LightStep(l) /\ ByStep(l)
    <3>1. l \in Members[r] => light'[l] = RecordedLight(l, "Off", 0)
      BY <1>5
    <3>2. l \notin Members[r] => light'[l] = light[l]
      BY <1>5
    <3> QED
      BY <3>1, <3>2, <1>1, <1>3, RecordedStep, Unmoved DEF ByStep
  <2>6. light' \in [LightIds -> LightEntity]
    <3>1. \A l \in LightIds : light'[l] \in LightEntity
      BY <2>5 DEF LightStep, LightOK
    <3>2. light' = [l \in LightIds |-> light'[l]]
      BY <1>5
    <3> QED
      BY <3>1, <3>2
  <2>7. after' \in [LightIds -> SUBSET Targets]
    BY <1>5, ReportedTyped
  <2> QED
    BY <1>1, <2>3, <2>4, <2>5, <2>6, <2>7 DEF Envelope, HouseOK
<1> QED
  BY <1>1, <1>4, <1>5

\* apply_room_override replaces the steps of one room, whose cursor it drops.
LEMMA ApplyRoomOverrideStep ==
  ASSUME HouseOK, schedule \in [Rooms -> Schedules], NEW r \in Rooms, NEW s \in Schedules,
         ApplyRoomOverride(r, s)
  PROVE  Envelope
<1>1. /\ light' = light /\ after' = after /\ by' = by
      /\ zone' = [zone EXCEPT ![r].cycle = NoCycle]
      /\ schedule' = [schedule EXCEPT ![r] = s]
  BY DEF ApplyRoomOverride
<1>2. \A l \in LightIds : LightStep(l) /\ ByStep(l)
  BY <1>1, Unmoved DEF ByStep
<1>3. ASSUME NEW q \in Rooms PROVE ZoneStep(q)
  <2>1. CASE q = r
    <3>1. zone'[r] = [zone[r] EXCEPT !.cycle = NoCycle]
      BY <1>1 DEF HouseOK
    <3>2. ZoneOK(zone'[r]) /\ zone'[r].cycle = NoCycle
      BY <3>1, HouseEntities, RoomSets DEF ZoneOK, ZoneEntity
    <3> QED
      BY <2>1, <3>2, CursorDropped
  <2>2. CASE q # r
    <3>1. zone'[q] = zone[q] /\ schedule'[q] = schedule[q]
      BY <1>1, <2>2 DEF HouseOK
    <3> QED
      BY <3>1, HouseEntities DEF ZoneStep, CursorStep, ConfirmedNow
  <2> QED
    BY <2>1, <2>2
<1>4. zone' \in [Rooms -> ZoneEntity]
  <2>1. \A q \in Rooms : zone'[q] \in ZoneEntity
    BY <1>3 DEF ZoneStep, ZoneOK
  <2>2. zone' = [q \in Rooms |-> zone'[q]]
    BY <1>1 DEF HouseOK
  <2> QED
    BY <2>1, <2>2
<1> QED
  BY <1>1, <1>2, <1>3, <1>4 DEF Envelope, HouseOK

\* execute_scene_toggle
LEMMA SceneToggleStep ==
  ASSUME HouseOK, schedule \in [Rooms -> Schedules], slot \in Slots, NEW r \in Rooms,
         SceneToggle(r)
  PROVE  Envelope
<1>1. running /\ schedule' = schedule /\ "User" \in Others
  BY DEF SceneToggle, Apart, Others, Owners
<1>2. \/ HasSteps(r) /\ SwitchSteps(r, "Toggle")
      \/ Nothing
      \/ ScenesNow(r) # <<>> /\ GroupOn(r, ScenesNow(r)[1], 0, "User")
      \/ GroupOff(r, "User")
  BY DEF SceneToggle
<1>3. ScenesNow(r) # <<>> => ScenesNow(r)[1] \in Levels
  BY ScheduleFacts, RoomSets
<1> QED
  BY <1>1, <1>2, <1>3, SwitchStepsStep, NothingStep, GroupOnStep, GroupOffStep DEF Nothing

\* execute_scene_toggle_cycle: the index it computes is within the scenes.
LEMMA SceneToggleCycleStep ==
  ASSUME HouseOK, schedule \in [Rooms -> Schedules], slot \in Slots, NEW r \in Rooms,
         SceneToggleCycle(r)
  PROVE  Envelope
<1> DEFINE s   == ScenesNow(r)
           idx == IF IsOn(zone[r]) /\ zone[r].cycle = NoCycle
                    THEN (zone[r].idx + 1) % Len(s) ELSE 0
<1>1. running /\ schedule' = schedule /\ "User" \in Others
  BY DEF SceneToggleCycle, Apart, Others, Owners
<1>2. \/ HasSteps(r) /\ SwitchSteps(r, "ToggleCycle")
      \/ Nothing
      \/ s # <<>> /\ GroupOn(r, s[idx + 1], idx, "User")
      \/ GroupOff(r, "User")
  BY DEF SceneToggleCycle
<1>3. s # <<>> => /\ idx \in Nat /\ s[idx + 1] \in Levels
  <2> SUFFICES ASSUME s # <<>> PROVE idx \in Nat /\ s[idx + 1] \in Levels
    OBVIOUS
  <2>1. s \in Seq(Scenes) /\ zone[r].idx \in Nat
    BY ScheduleFacts, HouseEntities, ZoneFields
  <2> HIDE DEF s
  <2>2. Len(s) \in Nat \ {0}
    BY <2>1
  <2>3. idx \in Nat /\ idx < Len(s)
    BY <2>1, <2>2, Modulo
  <2> HIDE DEF idx
  <2> QED
    BY <2>1, <2>2, <2>3, Element, RoomSets
<1> HIDE DEF s, idx
<1> QED
  BY <1>1, <1>2, <1>3, SwitchStepsStep, NothingStep, GroupOnStep, GroupOffStep DEF Nothing

\* web_recall_scene
LEMMA WebRecallSceneStep ==
  ASSUME HouseOK, NEW r \in Rooms, NEW scene \in Scenes, WebRecallScene(r, scene)
  PROVE  Envelope
<1> DEFINE s    == ScenesNow(r)
           here == {i \in 1 .. Len(s) : s[i] = scene}
           idx  == IF here = {} THEN 0
                   ELSE (CHOOSE i \in here : \A j \in here : i =< j) - 1
<1>1. running /\ schedule' = schedule /\ "WebUI" \in Others /\ scene \in Levels
  BY RoomSets DEF WebRecallScene, Apart, Others, Owners
<1>2. GroupOn(r, scene, idx, "WebUI")
  BY Zenon DEF WebRecallScene
<1>3. idx \in Nat
  <2>1. here \subseteq Nat \ {0}
    OBVIOUS
  <2> HIDE DEF here
  <2>2. CASE here # {}
    <3> DEFINE c == CHOOSE i \in here : \A j \in here : i =< j
    <3>1. c \in here
      BY <2>1, <2>2, MinExists
    <3>2. idx = c - 1
      BY <2>2
    <3> HIDE DEF c, idx
    <3> QED
      BY <2>1, <3>1, <3>2
  <2> QED
    BY <2>2
<1> HIDE DEF idx
<1> QED
  BY <1>1, <1>2, <1>3, GroupOnStep

\* execute_scene_cycle and execute_group_scene_cycle
LEMMA SceneCycleStep ==
  ASSUME HouseOK, schedule \in [Rooms -> Schedules], slot \in Slots, NEW r \in Rooms,
         SceneCycle(r) \/ GroupSceneCycle(r)
  PROVE  Envelope
<1>1. running /\ schedule' = schedule
  BY DEF SceneCycle, GroupSceneCycle, Apart
<1>2. (HasSteps(r) /\ SwitchSteps(r, "Cycle")) \/ GroupSceneCycleOf(r)
  BY DEF SceneCycle, GroupSceneCycle
<1> QED
  BY <1>1, <1>2, SwitchStepsStep, GroupSceneCycleStep

\* execute_turn_off_room and web_set_room_off
LEMMA RoomOffStep ==
  ASSUME HouseOK, NEW r \in Rooms, TurnOffRoom(r) \/ WebSetRoomOff(r)
  PROVE  Envelope
<1>1. running /\ schedule' = schedule /\ "User" \in Others /\ "WebUI" \in Others
  BY DEF TurnOffRoom, WebSetRoomOff, Apart, Others, Owners
<1>2. GroupOff(r, "User") \/ GroupOff(r, "WebUI")
  BY DEF TurnOffRoom, WebSetRoomOff
<1> QED
  BY <1>1, <1>2, GroupOffStep

\* Every button, dashboard command, report, override and slot change keeps
\* within the envelope.
LEMMA LightsEnvelope ==
  ASSUME HouseOK, schedule \in [Rooms -> Schedules], slot \in Slots, LightsNext
  PROVE  Envelope
<1>1. ASSUME NEW l \in LightIds, LightState(l, "Off", 0) PROVE Envelope
  <2>1. "Off" \in Switch /\ 0 \in Levels
    BY DEF Switch, Levels
  <2> QED
    BY <1>1, <2>1, LightStateStep
<1>2. ASSUME NEW l \in LightIds, NEW seen \in Levels, LightState(l, "On", seen) PROVE Envelope
  <2>1. "On" \in Switch
    BY DEF Switch
  <2> QED
    BY <1>2, <2>1, LightStateStep
<1>3. ASSUME NEW s \in Slots, EnterSlot(s) PROVE Envelope
  BY <1>3, NothingStep DEF EnterSlot
<1>4. ASSUME NEW r \in Rooms, SceneCycle(r) PROVE Envelope
  BY <1>4, SceneCycleStep
<1>5. ASSUME NEW r \in Rooms, GroupSceneCycle(r) PROVE Envelope
  BY <1>5, SceneCycleStep
<1>6. ASSUME NEW r \in Rooms, SceneToggle(r) PROVE Envelope
  BY <1>6, SceneToggleStep
<1>7. ASSUME NEW r \in Rooms, SceneToggleCycle(r) PROVE Envelope
  BY <1>7, SceneToggleCycleStep
<1>8. ASSUME NEW r \in Rooms, SceneStepDown(r) PROVE Envelope
  BY <1>8, SceneStepDownStep
<1>9. ASSUME NEW r \in Rooms, TurnOffRoom(r) PROVE Envelope
  BY <1>9, RoomOffStep
<1>10. ASSUME NEW r \in Rooms, Brightness(r) PROVE Envelope
  BY <1>10, BrightnessStep
<1>11. CASE TurnOffAllZones
  BY <1>11, TurnOffAllZonesStep
<1>12. ASSUME NEW r \in Rooms, NEW scene \in Scenes, WebRecallScene(r, scene) PROVE Envelope
  BY <1>12, WebRecallSceneStep
<1>13. ASSUME NEW r \in Rooms, WebSetRoomOff(r) PROVE Envelope
  BY <1>13, RoomOffStep
<1>14. ASSUME NEW r \in Rooms, NEW s \in Schedules, ApplyRoomOverride(r, s) PROVE Envelope
  BY <1>14, ApplyRoomOverrideStep
<1>15. ASSUME NEW r \in Rooms, NEW on \in Switch, GroupState(r, on) PROVE Envelope
  BY <1>15, GroupStateStep
<1> QED
  BY <1>1, <1>2, <1>3, <1>4, <1>5, <1>6, <1>7, <1>8, <1>9, <1>10, <1>11, <1>12, <1>13,
     <1>14, <1>15, Zenon DEF LightsNext

-----------------------------------------------------------------------------
(* What a handler of Motion does to a bulb and to a room                    *)

\* Rule starts a session that claims bulb l (start_motion_session).
Starting(plan, l, rule) == rule \in plan.start /\ l \in Claimable(rule, plan.lux)

\* The session of the rule finds its target off when it finishes.
FoundOff(plan, rule) ==
  rule \in plan.finish /\ session[rule] # NoSession /\ TargetIsOff(session[rule])

\* Rule turns bulb l off (turn_off_motion_lights).
Switching(plan, l, rule) ==
  \/ rule \in plan.reset /\ l \in ResetLights(rule)
  \/ /\ rule \notin plan.reset /\ rule \in plan.finish /\ ~FoundOff(plan, rule)
     /\ Mode[rule] # "OnOnly" /\ l \in Eligible(rule)

\* Rule gives bulb l back (release_motion_session).
Freeing(plan, l, rule) ==
  l \in session[rule].lights /\ (rule \in plan.ended \/ FoundOff(plan, rule))

\* What every handler asks of its plan.  The startup reset is the only one that
\* starts a session over another, and resets no off-only rule that has one.
PlanOK(plan) ==
  /\ plan.ended \subseteq Rules /\ plan.finish \subseteq Rules
  /\ plan.owner \in {"Motion", "System"}
  /\ plan.seed => ~running
  /\ plan.reset # {} => ~running
  /\ \A rule \in plan.reset :
       Mode[rule] # "OnOnly" /\ (Mode[rule] = "OffOnly" => session[rule] = NoSession)
  /\ \A rule \in plan.start :
       session[rule] = NoSession \/ rule \in plan.ended \/ Mode[rule] = "OffOnly"

\* What a session step does to a bulb: a start comes before an OFF, and an OFF
\* before a release.
LEMMA StepLights ==
  ASSUME NEW ls, NEW zs, NEW plan, PlanOK(plan), SessionStep(ls, zs, plan)
  PROVE  /\ light' = [l \in LightIds |-> light'[l]]
         /\ \A l \in LightIds :
              \/ \E rule \in Rules : /\ Starting(plan, l, rule)
                                     /\ \E e \in {ls[l], Released(ls[l])} :
                                          light'[l] = LightStarted(e, rule)
              \/ /\ \A rule \in Rules : ~Starting(plan, l, rule)
                 /\ \E rule \in Rules : Switching(plan, l, rule)
                 /\ light'[l] = LightSet(ls[l], Commanded("Off", plan.owner), 0)
              \/ /\ \A rule \in Rules : ~Starting(plan, l, rule) /\ ~Switching(plan, l, rule)
                 /\ light'[l] = IF \E rule \in Rules : Freeing(plan, l, rule)
                                  THEN Released(ls[l]) ELSE ls[l]
<1> DEFINE
      claim   == [rule \in Rules |-> IF rule \in plan.start THEN Claimable(rule, plan.lux) ELSE {}]
      starts  == {rule \in Rules : claim[rule] # {}}
      dark    == {rule \in plan.finish : session[rule] # NoSession /\ TargetIsOff(session[rule])}
      release == plan.ended \cup dark
      off     == [rule \in Rules |->
                    IF rule \in plan.reset THEN ResetLights(rule)
                    ELSE IF rule \in plan.finish \ dark /\ Mode[rule] # "OnOnly"
                      THEN Eligible(rule) ELSE {}]
      lights1 == [l \in LightIds |->
                    IF \E rule \in release : l \in session[rule].lights
                      THEN Released(ls[l]) ELSE ls[l]]
      lights2 == [l \in LightIds |->
                    IF \E rule \in starts : l \in claim[rule]
                      THEN LightStarted(lights1[l], CHOOSE rule \in starts : l \in claim[rule])
                    ELSE IF \E rule \in Rules : l \in off[rule]
                      THEN LightSet(ls[l], Commanded("Off", plan.owner), 0)
                    ELSE lights1[l]]
<1>1. light' = lights2
  BY Zenon DEF SessionStep
<1>2. light' = [l \in LightIds |-> light'[l]]
  BY <1>1, Zenon
<1>3. ASSUME NEW l \in LightIds, NEW rule \in Rules
      PROVE  /\ (rule \in starts /\ l \in claim[rule]) <=> Starting(plan, l, rule)
             /\ l \in off[rule] <=> Switching(plan, l, rule)
  BY DEF Starting, Switching, FoundOff
<1>4. ASSUME NEW l \in LightIds
      PROVE  (\E rule \in release : l \in session[rule].lights)
               <=> \E rule \in Rules : Freeing(plan, l, rule)
  BY DEF Freeing, FoundOff, PlanOK
<1>5. \A l \in LightIds : lights1[l] = IF \E rule \in Rules : Freeing(plan, l, rule)
                                         THEN Released(ls[l]) ELSE ls[l]
  BY <1>4, Zenon
<1> HIDE DEF claim, starts, off, lights1, release, dark
<1>6. ASSUME NEW l \in LightIds
      PROVE  light'[l] = IF \E rule \in starts : l \in claim[rule]
                           THEN LightStarted(lights1[l], CHOOSE rule \in starts : l \in claim[rule])
                         ELSE IF \E rule \in Rules : l \in off[rule]
                           THEN LightSet(ls[l], Commanded("Off", plan.owner), 0)
                         ELSE lights1[l]
  BY <1>1, Zenon
<1> HIDE DEF lights2
<1>7. starts \subseteq Rules
  BY DEF starts
<1>8. ASSUME NEW l \in LightIds
      PROVE  \/ \E rule \in Rules : /\ Starting(plan, l, rule)
                                    /\ \E e \in {ls[l], Released(ls[l])} :
                                         light'[l] = LightStarted(e, rule)
             \/ /\ \A rule \in Rules : ~Starting(plan, l, rule)
                /\ \E rule \in Rules : Switching(plan, l, rule)
                /\ light'[l] = LightSet(ls[l], Commanded("Off", plan.owner), 0)
             \/ /\ \A rule \in Rules : ~Starting(plan, l, rule) /\ ~Switching(plan, l, rule)
                /\ light'[l] = IF \E rule \in Rules : Freeing(plan, l, rule)
                                 THEN Released(ls[l]) ELSE ls[l]
  <2>1. CASE \E rule \in starts : l \in claim[rule]
    <3> DEFINE first == CHOOSE rule \in starts : l \in claim[rule]
    <3>1. first \in starts /\ l \in claim[first]
      BY <2>1, Zenon
    <3>2. light'[l] = LightStarted(lights1[l], first)
      BY <1>6, <2>1, Zenon
    <3>3. lights1[l] \in {ls[l], Released(ls[l])}
      BY <1>5
    <3> HIDE DEF first
    <3>4. first \in Rules /\ Starting(plan, l, first)
      BY <1>3, <1>7, <3>1
    <3> QED
      BY <3>2, <3>3, <3>4
  <2>2. CASE ~\E rule \in starts : l \in claim[rule]
    <3>1. \A rule \in Rules : ~Starting(plan, l, rule)
      BY <1>3, <2>2
    <3>2. CASE \E rule \in Rules : l \in off[rule]
      BY <1>3, <1>6, <2>2, <3>1, <3>2
    <3>3. CASE ~\E rule \in Rules : l \in off[rule]
      BY <1>3, <1>5, <1>6, <2>2, <3>1, <3>3
    <3> QED
      BY <3>2, <3>3
  <2> QED
    BY <2>1, <2>2
<1> QED
  BY <1>2, <1>8

\* A session step publishes to the bulbs it turns off and to those it lights.
LEMMA StepBy ==
  ASSUME HouseOK, NEW ls, NEW zs, NEW plan, PlanOK(plan), SessionStep(ls, zs, plan)
  PROVE  /\ after' \in [LightIds -> SUBSET Targets]
         /\ by' \in [LightIds -> {"Manual", "Motion", "AllOff", None}]
         /\ \A l \in LightIds :
              \/ plan.seed /\ by'[l] = by[l]
              \/ /\ by'[l] = "Motion"
                 /\ \E rule \in Rules : \/ Switching(plan, l, rule)
                                        \/ Starting(plan, l, rule) /\ Mode[rule] # "OffOnly"
              \/ /\ by'[l] = by[l]
                 /\ \A rule \in Rules :
                      ~Switching(plan, l, rule) /\ (Starting(plan, l, rule) => Mode[rule] = "OffOnly")
<1> DEFINE
      claim   == [rule \in Rules |-> IF rule \in plan.start THEN Claimable(rule, plan.lux) ELSE {}]
      starts  == {rule \in Rules : claim[rule] # {}}
      dark    == {rule \in plan.finish : session[rule] # NoSession /\ TargetIsOff(session[rule])}
      off     == [rule \in Rules |->
                    IF rule \in plan.reset THEN ResetLights(rule)
                    ELSE IF rule \in plan.finish \ dark /\ Mode[rule] # "OnOnly"
                      THEN Eligible(rule) ELSE {}]
      sent    == (UNION {off[rule] : rule \in Rules})
                 \cup (UNION {claim[rule] : rule \in {q \in starts : Mode[q] # "OffOnly"}})
<1>1. IF plan.seed THEN UNCHANGED <<after, by>> ELSE (\E S : Stamp(S)) /\ Publish(sent, "Motion")
  BY Zenon DEF SessionStep
<1>2. after' \in [LightIds -> SUBSET Targets]
  BY <1>1, StampTyped DEF HouseOK
<1>3. ASSUME NEW l \in LightIds
      PROVE  l \in sent <=>
               \E rule \in Rules : \/ Switching(plan, l, rule)
                                   \/ Starting(plan, l, rule) /\ Mode[rule] # "OffOnly"
  BY DEF Starting, Switching, FoundOff
<1> HIDE DEF sent
<1>4. by' \in [LightIds -> {"Manual", "Motion", "AllOff", None}]
  BY <1>1, PublishTyped DEF HouseOK
<1>5. ASSUME NEW l \in LightIds
      PROVE  \/ plan.seed /\ by'[l] = by[l]
             \/ by'[l] = "Motion" /\ l \in sent
             \/ by'[l] = by[l] /\ l \notin sent
  BY <1>1, PublishTyped
<1> QED
  BY <1>2, <1>3, <1>4, <1>5

\* What a session step does to a room
LEMMA StepZones ==
  ASSUME NEW ls, NEW zs, NEW plan, SessionStep(ls, zs, plan)
  PROVE  /\ zone' = [r \in Rooms |-> zone'[r]]
         /\ \A r \in Rooms : \E e \in {zs[r], Released(zs[r])} :
              \/ zone'[r] = e
              \/ \E rule \in Rules : zone'[r] = ZoneStarted(e, rule)
              \/ zone'[r] = ZoneSet(zs[r], Commanded("Off", plan.owner), 0, 0)
<1> DEFINE
      claim   == [rule \in Rules |-> IF rule \in plan.start THEN Claimable(rule, plan.lux) ELSE {}]
      starts  == {rule \in Rules : claim[rule] # {}}
      dark    == {rule \in plan.finish : session[rule] # NoSession /\ TargetIsOff(session[rule])}
      release == plan.ended \cup dark
      off     == [rule \in Rules |->
                    IF rule \in plan.reset THEN ResetLights(rule)
                    ELSE IF rule \in plan.finish \ dark /\ Mode[rule] # "OnOnly"
                      THEN Eligible(rule) ELSE {}]
      onGroup(rule)  == WholeGroup(TargetsBySlot[rule][slot], claim[rule])
      offGroup(rule) == WholeGroup(IF rule \in plan.reset THEN ResetTarget(rule)
                                                          ELSE session[rule], off[rule])
      zones1  == [r \in Rooms |->
                    IF \E rule \in release : r = session[rule].group
                      THEN Released(zs[r]) ELSE zs[r]]
      zones2  == [r \in Rooms |->
                    IF \E rule \in starts : r = onGroup(rule)
                      THEN ZoneStarted(zones1[r], CHOOSE rule \in starts : r = onGroup(rule))
                    ELSE IF \E rule \in Rules : r = offGroup(rule)
                      THEN ZoneSet(zs[r], Commanded("Off", plan.owner), 0, 0)
                    ELSE zones1[r]]
<1>1. zone' = zones2
  BY Zenon DEF SessionStep
<1>2. zone' = [r \in Rooms |-> zone'[r]]
  BY <1>1, Zenon
<1>3. \A r \in Rooms : zones1[r] \in {zs[r], Released(zs[r])}
  <2> HIDE DEF release
  <2> QED
    OBVIOUS
<1>4. starts \subseteq Rules
  OBVIOUS
<1> HIDE DEF starts, onGroup, offGroup, zones1
<1>5. ASSUME NEW r \in Rooms
      PROVE  \/ \E rule \in starts : zone'[r] = ZoneStarted(zones1[r], rule)
             \/ zone'[r] = ZoneSet(zs[r], Commanded("Off", plan.owner), 0, 0)
             \/ zone'[r] = zones1[r]
  <2>1. CASE \E rule \in starts : r = onGroup(rule)
    <3> DEFINE first == CHOOSE rule \in starts : r = onGroup(rule)
    <3>1. first \in starts
      BY <2>1, Zenon
    <3>2. zone'[r] = ZoneStarted(zones1[r], first)
      BY <1>1, <2>1, Zenon
    <3> HIDE DEF first
    <3> QED
      BY <3>1, <3>2
  <2>2. CASE ~\E rule \in starts : r = onGroup(rule)
    BY <1>1, <2>2
  <2> QED
    BY <2>1, <2>2
<1> QED
  BY <1>2, <1>3, <1>4, <1>5

\* What a session step does to a session
LEMMA StepSessions ==
  ASSUME NEW ls, NEW zs, NEW plan, SessionStep(ls, zs, plan)
  PROVE  /\ session' = [rule \in Rules |-> session'[rule]]
         /\ \A rule \in Rules :
              \/ /\ rule \in plan.start /\ Claimable(rule, plan.lux) # {}
                 /\ session'[rule] = [group |-> TargetsBySlot[rule][slot].group,
                                      lights |-> TargetsBySlot[rule][slot].lights,
                                      claimed |-> Claimable(rule, plan.lux)]
              \/ /\ ~(rule \in plan.start /\ Claimable(rule, plan.lux) # {})
                 /\ rule \in plan.finish \cup plan.ended /\ session'[rule] = NoSession
              \/ /\ ~(rule \in plan.start /\ Claimable(rule, plan.lux) # {})
                 /\ rule \notin plan.finish \cup plan.ended /\ session'[rule] = session[rule]
<1> DEFINE
      claim   == [rule \in Rules |-> IF rule \in plan.start THEN Claimable(rule, plan.lux) ELSE {}]
      starts  == {rule \in Rules : claim[rule] # {}}
<1>1. session' = [rule \in Rules |->
                       IF rule \in starts
                         THEN [group |-> TargetsBySlot[rule][slot].group,
                               lights |-> TargetsBySlot[rule][slot].lights,
                               claimed |-> claim[rule]]
                       ELSE IF rule \in plan.finish \cup plan.ended THEN NoSession
                       ELSE session[rule]]
  BY Zenon DEF SessionStep
<1> QED
  BY <1>1

\* A session step keeps the type of the cooldown clocks.
LEMMA StepLastOff ==
  ASSUME NEW ls, NEW zs, NEW plan, SessionStep(ls, zs, plan),
         lastOff \in [Rules -> Ages \cup {NoOff}]
  PROVE  lastOff' \in [Rules -> Ages \cup {NoOff}]
<1>1. \E f : lastOff' = [rule \in Rules |-> IF f[rule] THEN 0 ELSE lastOff[rule]]
  <2> DEFINE
      dark    == {rule \in plan.finish : session[rule] # NoSession /\ TargetIsOff(session[rule])}
      off     == [rule \in Rules |->
                    IF rule \in plan.reset THEN ResetLights(rule)
                    ELSE IF rule \in plan.finish \ dark /\ Mode[rule] # "OnOnly"
                      THEN Eligible(rule) ELSE {}]
      f       == [rule \in Rules |-> rule \in plan.finish /\ off[rule] # {}]
  <2>1. lastOff' = [rule \in Rules |->
                       IF rule \in plan.finish /\ off[rule] # {} THEN 0 ELSE lastOff[rule]]
    BY Zenon DEF SessionStep
  <2> HIDE DEF off
  <2>2. lastOff' = [rule \in Rules |-> IF f[rule] THEN 0 ELSE lastOff[rule]]
    BY <2>1
  <2> HIDE DEF f
  <2> QED
    BY <2>2
<1> QED
  BY <1>1, AgeZero

-----------------------------------------------------------------------------
(* The invariant *)

\* A session claims bulbs of its target only, and its target is one of its rule.
ClaimsInside ==
  \A rule \in Rules : /\ session[rule].claimed \subseteq session[rule].lights
                      /\ session[rule].lights \subseteq RuleLights(rule)

\* Motion owns bulbs of rules that may turn them off.
MotionOwned ==
  \A l \in LightIds : light[l].target.owner = "Motion" =>
    \E rule \in Rules : Mode[rule] # "OnOnly" /\ l \in RuleLights(rule)

\* A bulb last commanded by hand is motion's only through an off-only rule.
ManualOwned ==
  \A l \in LightIds : by[l] = "Manual" =>
    /\ running
    /\ light[l].target.owner = "Motion" =>
         \E rule \in Rules : Mode[rule] = "OffOnly" /\ l \in RuleLights(rule)

\* The inductive invariant
MotionInv ==
  /\ TypeOK
  /\ ClaimsInside
  /\ SessionOccupied
  /\ MotionOwned
  /\ ManualOwned
  /\ OffOnlyClaimHeld
  /\ MotionLitIsClaimed
  /\ DisabledReleased
  /\ CursorValid

\* TypeOK is more than a well-formed house.
LEMMA TypeHouse == TypeOK => HouseOK
  BY DEF TypeOK, HouseOK

\* Topology validation: a bulb belongs to one rule at most.
LEMMA OneRule ==
  ASSUME NEW p \in Rules, NEW q \in Rules, NEW l, l \in RuleLights(p), l \in RuleLights(q)
  PROVE  p = q
<1>1. p # q => RuleLights(p) \cap RuleLights(q) = {}
  BY MotionAssumption DEF MotionAssumption
<1> QED
  BY <1>1

\* The targets of a rule
LEMMA RuleTargets ==
  ASSUME NEW rule \in Rules, NEW s \in Slots
  PROVE  /\ TargetsBySlot[rule][s].lights \subseteq RuleLights(rule)
         /\ TargetsBySlot[rule][s].lights \in SUBSET LightIds
         /\ TargetsBySlot[rule][s].group \in Rooms \cup {None}
         /\ MotionScene[rule][s] \in Levels
         /\ Mode[rule] \in {"OnOff", "OnOnly", "OffOnly"}
<1>1. TargetsBySlot[rule][s] \in [group : Rooms \cup {None}, lights : (SUBSET LightIds) \ {{}}]
  BY MotionAssumption DEF MotionAssumption
<1>2. MotionScene[rule][s] \in Levels /\ Mode[rule] \in {"OnOff", "OnOnly", "OffOnly"}
  BY MotionAssumption, LightsAssumption DEF MotionAssumption, LightsAssumption, Levels
<1>3. TargetsBySlot[rule][s].lights \subseteq RuleLights(rule)
  BY DEF RuleLights
<1> QED
  BY <1>1, <1>2, <1>3

\* start_motion_session claims allowed bulbs of the slot's target, an off-only
\* session all of them.
LEMMA ClaimableLights ==
  ASSUME NEW rule \in Rules, NEW lux
  PROVE  /\ \A l \in Claimable(rule, lux) :
              l \in TargetsBySlot[rule][slot].lights /\ MotionAllowed(l)
         /\ Mode[rule] = "OffOnly" /\ Claimable(rule, lux) # {} =>
              \A l \in TargetsBySlot[rule][slot].lights : MotionAllowed(l) => l \in Claimable(rule, lux)
  BY DEF Claimable

\* release_motion_session: the entity is no longer motion's, and nothing else changes.
LEMMA ReleasedEntity ==
  ASSUME NEW e, Sound(e.target)
  PROVE  /\ Released(e) = IF e.target.owner = "Motion"
                            THEN [e EXCEPT !.target = Reassigned(e.target, "System")] ELSE e
         /\ LightOK(e) \/ ZoneOK(e) =>
              /\ Released(e).target.owner # "Motion"
              /\ Released(e).target.value = e.target.value
              /\ Released(e).target.phase = e.target.phase
         /\ LightOK(e) => LightOK(Released(e)) /\ Released(e).actual = e.actual
         /\ ZoneOK(e) => ZoneOK(Released(e)) /\ Released(e).cycle = e.cycle
                         /\ Released(e).actual = e.actual
<1> DEFINE t == Reassigned(e.target, "System")
           d == [e EXCEPT !.target = t]
<1>1. "System" \in Owners
  BY DEF Owners
<1>2. /\ Sound(t) /\ t.value = e.target.value /\ t.phase = e.target.phase
      /\ t.owner # "Motion"
  BY <1>1, ReassignedTarget DEF None
<1>3. Released(e) = IF e.target.owner = "Motion" THEN d ELSE e
  BY DEF Released
<1> HIDE DEF t
<1>4. LightOK(e) => LightOK(d) /\ d.target = t /\ d.actual = e.actual
  BY <1>2 DEF LightOK, LightEntity, Sound
<1>5. ZoneOK(e) => ZoneOK(d) /\ d.target = t /\ d.actual = e.actual /\ d.cycle = e.cycle
  BY <1>2, ZoneFields
<1>6. Released(e) = IF e.target.owner = "Motion"
                      THEN [e EXCEPT !.target = Reassigned(e.target, "System")] ELSE e
  BY <1>3 DEF t
<1> HIDE DEF d
<1> QED
  BY <1>2, <1>3, <1>4, <1>5, <1>6

\* A claimed target: it has a value and an owner, and is confirmed only when
\* it was, had no value, or contradicted the reading it now takes.
LEMMA ClaimedTarget ==
  ASSUME NEW t, Sound(t), NEW on, NEW divergent \in BOOLEAN
  PROVE  /\ Sound(Claimed(t, on, divergent))
         /\ Claimed(t, on, divergent).owner = "Motion"
         /\ Claimed(t, on, divergent).phase # "Unset"
         /\ Claimed(t, on, divergent).phase = "Confirmed" =>
              \/ t.phase \in {"Confirmed", "Unset"}
              \/ divergent /\ (on # "On" => Claimed(t, on, divergent).value = "Off")
<1> DEFINE a == Adopted(IF on = "On" THEN "On" ELSE "Off", "Motion")
           b == Reassigned(t, "Motion")
           c == Claimed(t, on, divergent)
<1>1. "Motion" \in Owners /\ "Motion" # None /\ "On" \in Switch /\ "Off" \in Switch
  BY DEF Owners, Switch, None
<1>2. Sound(a) /\ a.owner = "Motion" /\ a.phase = "Confirmed" /\ (on # "On" => a.value = "Off")
  BY <1>1, NewTargets
<1>3. /\ Sound(b) /\ b.phase = t.phase
      /\ b.owner = IF t.value = None THEN None ELSE "Motion"
  BY <1>1, ReassignedTarget
<1>4. t.value = None <=> t.phase = "Unset"
  BY TargetFields
<1>5. c = IF t.phase = "Unset" \/ (t.phase = "Stale" /\ divergent) THEN a
          ELSE IF t.owner # "Motion" THEN b ELSE t
  BY DEF Claimed
<1> HIDE DEF a, b, c
<1>6. /\ Sound(c) /\ c.owner = "Motion" /\ c.phase # "Unset"
  BY <1>1, <1>2, <1>3, <1>4, <1>5
<1>7. c.phase = "Confirmed" =>
        \/ t.phase \in {"Confirmed", "Unset"}
        \/ divergent /\ (on # "On" => c.value = "Off")
  BY <1>2, <1>3, <1>5
<1> QED
  BY <1>6, <1>7 DEF c

\* A bulb claimed by a session: whose it is then, and its value
LEMMA StartedLight ==
  ASSUME NEW e, LightOK(e), NEW rule \in Rules, slot \in Slots
  PROVE  /\ LightOK(LightStarted(e, rule))
         /\ Mode[rule] = "OnOnly" => LightStarted(e, rule).target.owner # "Motion"
         /\ Mode[rule] = "OffOnly" => LightStarted(e, rule).target.owner = "Motion"
         /\ Mode[rule] # "OffOnly" => LightStarted(e, rule).target.value = "On"
<1> DEFINE divergent == /\ e.target.value # None /\ e.actual # None
                        /\ ~Matches(e.target, e.level, e.actual, e.seen)
           t == Claimed(e.target, e.actual, divergent)
           n == IF t.phase = e.target.phase THEN e.level ELSE 0
           c == Commanded("On", OwnerOfOn(rule))
<1>1. Sound(e.target) /\ e.level \in Levels /\ 0 \in Levels
  BY LightFields DEF Levels
<1>2. Sound(t) /\ t.owner = "Motion"
  <2>1. divergent \in BOOLEAN
    OBVIOUS
  <2> HIDE DEF divergent
  <2> QED
    BY <1>1, <2>1, ClaimedTarget
<1>3. OwnerOfOn(rule) \in Owners /\ "On" \in Switch
      /\ (Mode[rule] = "OnOnly" => OwnerOfOn(rule) # "Motion")
  BY DEF OwnerOfOn, Owners, Switch
<1>4. Sound(c) /\ c.owner = OwnerOfOn(rule) /\ c.value = "On"
  BY <1>3, NewTargets
<1>5. LightStarted(e, rule) = IF Mode[rule] = "OffOnly" THEN LightSet(e, t, n)
                              ELSE LightSet(e, c, MotionScene[rule][slot])
  BY DEF LightStarted
<1>6. n \in Levels /\ MotionScene[rule][slot] \in Levels
  BY <1>1, RuleTargets
<1> HIDE DEF t, n, c
<1>7. LightOK(LightSet(e, t, n)) /\ LightSet(e, t, n).target = t
  BY <1>2, <1>6, LightFields
<1>8. /\ LightOK(LightSet(e, c, MotionScene[rule][slot]))
      /\ LightSet(e, c, MotionScene[rule][slot]).target = c
  BY <1>4, <1>6, LightFields
<1> QED
  BY <1>2, <1>3, <1>4, <1>5, <1>7, <1>8

\* The group of a session keeps its cursor, and the ON of a step is never
\* confirmed by a session.
LEMMA StartedZone ==
  ASSUME NEW z, ZoneOK(z), NEW rule \in Rules, slot \in Slots
  PROVE  /\ ZoneOK(ZoneStarted(z, rule)) /\ ZoneStarted(z, rule).cycle = z.cycle
         /\ ZoneStarted(z, rule).target.phase # "Unset"
         /\ /\ z.target.value = "On" /\ ZoneStarted(z, rule).target.value = "On"
            /\ ZoneStarted(z, rule).target.phase = "Confirmed"
            => z.target.phase = "Confirmed"
<1> DEFINE divergent == (z.target.value = "On") # (z.actual = "On")
           t == Claimed(z.target, z.actual, divergent)
           c == Commanded("On", OwnerOfOn(rule))
<1>1. Sound(z.target) /\ 0 \in Levels /\ 0 \in Nat
  BY ZoneFields DEF Levels
<1>2. /\ Sound(t) /\ t.phase # "Unset"
      /\ t.phase = "Confirmed" =>
           \/ z.target.phase \in {"Confirmed", "Unset"}
           \/ divergent /\ (z.actual # "On" => t.value = "Off")
  <2>1. divergent \in BOOLEAN
    OBVIOUS
  <2> HIDE DEF divergent
  <2> QED
    BY <1>1, <2>1, ClaimedTarget
<1>3. z.target.phase = "Unset" => z.target.value = None
  BY <1>1, TargetFields
<1>4. z.target.value = "On" /\ t.value = "On" /\ t.phase = "Confirmed"
        => z.target.phase = "Confirmed"
  <2> HIDE DEF t
  <2> QED
    BY <1>2, <1>3 DEF None
<1>5. OwnerOfOn(rule) \in Owners /\ "On" \in Switch
  BY DEF OwnerOfOn, Owners, Switch
<1>6. Sound(c) /\ c.phase = "Commanded"
  BY <1>5, NewTargets
<1>7. ZoneStarted(z, rule) =
        IF Mode[rule] = "OffOnly"
          THEN IF t.phase = z.target.phase THEN [z EXCEPT !.target = t] ELSE ZoneSet(z, t, 0, 0)
          ELSE ZoneSet(z, c, MotionScene[rule][slot], 0)
  BY DEF ZoneStarted
<1>8. MotionScene[rule][slot] \in Levels
  BY RuleTargets
<1> HIDE DEF t, c
<1>9. /\ ZoneOK([z EXCEPT !.target = t]) /\ [z EXCEPT !.target = t].cycle = z.cycle
      /\ [z EXCEPT !.target = t].target = t
      /\ ZoneOK(ZoneSet(z, t, 0, 0)) /\ ZoneSet(z, t, 0, 0).cycle = z.cycle
      /\ ZoneSet(z, t, 0, 0).target = t
  BY <1>1, <1>2, ZoneFields
<1>10. LET y == ZoneSet(z, c, MotionScene[rule][slot], 0)
       IN  ZoneOK(y) /\ y.cycle = z.cycle /\ y.target = c
  BY <1>1, <1>6, <1>8, ZoneFields
<1> QED
  BY <1>2, <1>4, <1>6, <1>7, <1>9, <1>10

-----------------------------------------------------------------------------
(* Sessions start, finish, are released and reset *)

\* The bulbs and rooms a handler starts from: the tick marks targets stale
\* first, and changes no owner, value or cursor.
SameHouse(ls, zs) ==
  /\ \A l \in LightIds : /\ LightOK(ls[l])
                         /\ ls[l].target.owner = light[l].target.owner
                         /\ ls[l].target.value = light[l].target.value
  /\ \A r \in Rooms : /\ ZoneOK(zs[r])
                      /\ zs[r].cycle = zone[r].cycle
                      /\ zs[r].target.value = zone[r].target.value
                      /\ zs[r].target.phase = "Unset" <=> zone[r].target.phase = "Unset"
                      /\ zs[r].target.phase = "Confirmed" <=> zone[r].target.phase = "Confirmed"

\* What a handler may do to bulb l
LEMMA BulbOutcome ==
  ASSUME TypeOK, NEW ls, NEW zs, NEW plan, SameHouse(ls, zs), PlanOK(plan),
         SessionStep(ls, zs, plan), NEW l \in LightIds
  PROVE  /\ LightOK(light'[l])
         /\ \/ \E rule \in Rules :
                 /\ Starting(plan, l, rule)
                 /\ Mode[rule] = "OnOnly" => light'[l].target.owner # "Motion"
                 /\ Mode[rule] = "OffOnly" => light'[l].target.owner = "Motion"
                 /\ Mode[rule] # "OffOnly" => light'[l].target.value = "On"
            \/ /\ \A rule \in Rules : ~Starting(plan, l, rule)
               /\ \E rule \in Rules : Switching(plan, l, rule)
               /\ light'[l].target.value = "Off"
            \/ /\ \A rule \in Rules : ~Starting(plan, l, rule) /\ ~Switching(plan, l, rule)
               /\ \E rule \in Rules : Freeing(plan, l, rule)
               /\ light'[l].target.owner # "Motion"
            \/ /\ \A rule \in Rules : /\ ~Starting(plan, l, rule) /\ ~Switching(plan, l, rule)
                                      /\ ~Freeing(plan, l, rule)
               /\ light'[l] = ls[l]
               /\ light'[l].target.owner = light[l].target.owner
               /\ light'[l].target.value = light[l].target.value
<1>1. /\ LightOK(ls[l]) /\ ls[l].target.owner = light[l].target.owner
      /\ ls[l].target.value = light[l].target.value
  BY DEF SameHouse
<1>2. Sound(ls[l].target)
  BY <1>1, LightFields
<1>3. LightOK(Released(ls[l])) /\ Released(ls[l]).target.owner # "Motion"
  BY <1>1, <1>2, ReleasedEntity
<1>4. slot \in Slots
  BY DEF TypeOK
<1>5. \/ \E rule \in Rules : /\ Starting(plan, l, rule)
                             /\ \E e \in {ls[l], Released(ls[l])} :
                                  light'[l] = LightStarted(e, rule)
      \/ /\ \A rule \in Rules : ~Starting(plan, l, rule)
         /\ \E rule \in Rules : Switching(plan, l, rule)
         /\ light'[l] = LightSet(ls[l], Commanded("Off", plan.owner), 0)
      \/ /\ \A rule \in Rules : ~Starting(plan, l, rule) /\ ~Switching(plan, l, rule)
         /\ light'[l] = IF \E rule \in Rules : Freeing(plan, l, rule)
                          THEN Released(ls[l]) ELSE ls[l]
  BY StepLights
<1>6. ASSUME NEW rule \in Rules, Starting(plan, l, rule),
             NEW e \in {ls[l], Released(ls[l])}, light'[l] = LightStarted(e, rule)
      PROVE  /\ LightOK(light'[l])
             /\ Mode[rule] = "OnOnly" => light'[l].target.owner # "Motion"
             /\ Mode[rule] = "OffOnly" => light'[l].target.owner = "Motion"
             /\ Mode[rule] # "OffOnly" => light'[l].target.value = "On"
  <2>1. LightOK(e)
    BY <1>1, <1>3, <1>6
  <2> QED
    BY <2>1, <1>4, <1>6, StartedLight
<1>7. ASSUME light'[l] = LightSet(ls[l], Commanded("Off", plan.owner), 0)
      PROVE  LightOK(light'[l]) /\ light'[l].target.value = "Off"
  <2>1. plan.owner \in Owners /\ "Off" \in Switch /\ 0 \in Levels
    BY DEF PlanOK, Owners, Switch, Levels
  <2>2. Sound(Commanded("Off", plan.owner)) /\ Commanded("Off", plan.owner).value = "Off"
    BY <2>1, NewTargets
  <2> QED
    BY <1>1, <1>7, <2>1, <2>2, LightFields
<1>8. CASE \E rule \in Rules : /\ Starting(plan, l, rule)
                               /\ \E e \in {ls[l], Released(ls[l])} :
                                    light'[l] = LightStarted(e, rule)
  BY <1>6, <1>8
<1>9. CASE /\ \A rule \in Rules : ~Starting(plan, l, rule)
           /\ \E rule \in Rules : Switching(plan, l, rule)
           /\ light'[l] = LightSet(ls[l], Commanded("Off", plan.owner), 0)
  BY <1>7, <1>9
<1>10. CASE /\ \A rule \in Rules : ~Starting(plan, l, rule) /\ ~Switching(plan, l, rule)
            /\ light'[l] = IF \E rule \in Rules : Freeing(plan, l, rule)
                             THEN Released(ls[l]) ELSE ls[l]
  BY <1>1, <1>3, <1>10
<1> QED
  BY <1>5, <1>8, <1>9, <1>10

\* A rule acts on its own bulbs, and never on those of a disabled room.
LEMMA OwnBulbs ==
  ASSUME ClaimsInside, slot \in Slots, NEW plan, NEW rule \in Rules, NEW l
  PROVE  /\ Starting(plan, l, rule) \/ Switching(plan, l, rule) =>
              l \in RuleLights(rule) /\ MotionAllowed(l)
         /\ Freeing(plan, l, rule) => l \in RuleLights(rule)
         /\ l \in session[rule].claimed =>
              l \in session[rule].lights /\ l \in RuleLights(rule) /\ session[rule] # NoSession
<1>1. Starting(plan, l, rule) => l \in RuleLights(rule) /\ MotionAllowed(l)
  BY ClaimableLights, RuleTargets DEF Starting
<1>2. Switching(plan, l, rule) => l \in RuleLights(rule) /\ MotionAllowed(l)
  BY DEF Switching, ResetLights, Eligible, ClaimsInside
<1>3. Freeing(plan, l, rule) => l \in RuleLights(rule)
  BY DEF Freeing, ClaimsInside
<1>4. l \in session[rule].claimed =>
        l \in session[rule].lights /\ l \in RuleLights(rule) /\ session[rule] # NoSession
  BY DEF ClaimsInside, NoSession
<1> QED
  BY <1>1, <1>2, <1>3, <1>4

\* What becomes of a session, by what it claims
LEMMA SessionOutcome ==
  ASSUME TypeOK, ClaimsInside, NEW ls, NEW zs, NEW plan, SessionStep(ls, zs, plan)
  PROVE  /\ session' \in [Rules -> [group : Rooms \cup {None}, lights : SUBSET LightIds,
                                    claimed : SUBSET LightIds]]
         /\ ClaimsInside'
         /\ \A rule \in Rules :
              \/ /\ rule \in plan.start /\ Claimable(rule, plan.lux) # {}
                 /\ session'[rule].claimed = Claimable(rule, plan.lux)
              \/ /\ ~(rule \in plan.start /\ Claimable(rule, plan.lux) # {})
                 /\ rule \in plan.finish \cup plan.ended /\ session'[rule].claimed = {}
              \/ /\ ~(rule \in plan.start /\ Claimable(rule, plan.lux) # {})
                 /\ rule \notin plan.finish \cup plan.ended /\ session'[rule] = session[rule]
<1> DEFINE new(rule) == [group |-> TargetsBySlot[rule][slot].group,
                         lights |-> TargetsBySlot[rule][slot].lights,
                         claimed |-> Claimable(rule, plan.lux)]
           S == [group : Rooms \cup {None}, lights : SUBSET LightIds, claimed : SUBSET LightIds]
<1>1. /\ session' = [rule \in Rules |-> session'[rule]]
      /\ \A rule \in Rules :
           \/ /\ rule \in plan.start /\ Claimable(rule, plan.lux) # {}
              /\ session'[rule] = new(rule)
           \/ /\ ~(rule \in plan.start /\ Claimable(rule, plan.lux) # {})
              /\ rule \in plan.finish \cup plan.ended /\ session'[rule] = NoSession
           \/ /\ ~(rule \in plan.start /\ Claimable(rule, plan.lux) # {})
              /\ rule \notin plan.finish \cup plan.ended /\ session'[rule] = session[rule]
  BY StepSessions
<1>2. ASSUME NEW rule \in Rules
      PROVE  /\ new(rule) \in S /\ new(rule).claimed = Claimable(rule, plan.lux)
             /\ new(rule).claimed \subseteq new(rule).lights
             /\ new(rule).lights \subseteq RuleLights(rule)
  BY RuleTargets, ClaimableLights DEF TypeOK
<1>3. NoSession \in S /\ NoSession.claimed = {} /\ NoSession.lights = {}
  BY DEF NoSession
<1>4. \A rule \in Rules : session[rule] \in S
  BY DEF TypeOK
<1> HIDE DEF new
<1>5. \A rule \in Rules : /\ session'[rule] \in S
                          /\ session'[rule].claimed \subseteq session'[rule].lights
                          /\ session'[rule].lights \subseteq RuleLights(rule)
  BY <1>1, <1>2, <1>3, <1>4 DEF ClaimsInside
<1>6. session' \in [Rules -> S]
  BY <1>1, <1>5
<1>7. ClaimsInside'
  BY <1>5 DEF ClaimsInside, RuleLights
<1> QED
  BY <1>1, <1>2, <1>3, <1>6, <1>7

\* A session step moves no cursor and confirms no step.
LEMMA ZoneOutcome ==
  ASSUME TypeOK, NEW ls, NEW zs, NEW plan, SameHouse(ls, zs), PlanOK(plan),
         SessionStep(ls, zs, plan), schedule' = schedule, NEW r \in Rooms
  PROVE  ZoneStep(r)
<1>1. /\ ZoneOK(zs[r]) /\ zs[r].cycle = zone[r].cycle
      /\ zs[r].target.value = zone[r].target.value
      /\ zs[r].target.phase = "Unset" <=> zone[r].target.phase = "Unset"
      /\ zs[r].target.phase = "Confirmed" <=> zone[r].target.phase = "Confirmed"
  BY DEF SameHouse
<1>2. Sound(zs[r].target)
  BY <1>1, ZoneFields
<1>3. /\ ZoneOK(Released(zs[r])) /\ Released(zs[r]).cycle = zs[r].cycle
      /\ Released(zs[r]).target.value = zs[r].target.value
      /\ Released(zs[r]).target.phase = zs[r].target.phase
  BY <1>1, <1>2, ReleasedEntity
<1>4. slot \in Slots
  BY DEF TypeOK
<1>5. PICK e \in {zs[r], Released(zs[r])} :
        \/ zone'[r] = e
        \/ \E rule \in Rules : zone'[r] = ZoneStarted(e, rule)
        \/ zone'[r] = ZoneSet(zs[r], Commanded("Off", plan.owner), 0, 0)
  BY StepZones
<1>6. /\ ZoneOK(e) /\ e.cycle = zone[r].cycle /\ e.target.value = zone[r].target.value
      /\ e.target.phase = "Unset" <=> zone[r].target.phase = "Unset"
      /\ e.target.phase = "Confirmed" <=> zone[r].target.phase = "Confirmed"
  BY <1>1, <1>3
<1>7. CASE zone'[r] = e
  BY <1>6, <1>7 DEF ZoneStep, CursorStep, ConfirmedNow
<1>8. ASSUME NEW rule \in Rules, zone'[r] = ZoneStarted(e, rule) PROVE ZoneStep(r)
  <2>1. /\ ZoneOK(zone'[r]) /\ zone'[r].cycle = e.cycle
        /\ zone'[r].target.phase # "Unset"
        /\ e.target.value = "On" /\ zone'[r].target.value = "On"
             /\ zone'[r].target.phase = "Confirmed" => e.target.phase = "Confirmed"
    BY <1>4, <1>6, <1>8, StartedZone
  <2> QED
    BY <2>1, <1>6 DEF ZoneStep, CursorStep, ConfirmedNow
<1>9. CASE zone'[r] = ZoneSet(zs[r], Commanded("Off", plan.owner), 0, 0)
  <2>1. plan.owner \in Owners /\ "Off" \in Switch /\ 0 \in Levels /\ 0 \in Nat
    BY DEF PlanOK, Owners, Switch, Levels
  <2>2. Sound(Commanded("Off", plan.owner)) /\ Commanded("Off", plan.owner).phase = "Commanded"
    BY <2>1, NewTargets
  <2>3. /\ ZoneOK(zone'[r]) /\ zone'[r].cycle = zs[r].cycle
        /\ zone'[r].target = Commanded("Off", plan.owner)
    BY <1>1, <1>9, <2>1, <2>2, ZoneFields
  <2> QED
    BY <1>1, <2>2, <2>3 DEF ZoneStep, CursorStep, ConfirmedNow
<1> QED
  BY <1>5, <1>7, <1>8, <1>9

\* The cursors stay valid when every room takes a step.
LEMMA CursorsValid ==
  ASSUME CursorValid, \A r \in Rooms : CursorStep(r)
  PROVE  CursorValid'
  BY DEF CursorValid, CursorStep, HasSteps, StepsNow, NoCycle

\* Only rules that may turn their bulbs off take them for motion.
LEMMA StepMotionOwned ==
  ASSUME TypeOK, ClaimsInside, MotionOwned, NEW ls, NEW zs, NEW plan, SameHouse(ls, zs),
         PlanOK(plan), SessionStep(ls, zs, plan)
  PROVE  MotionOwned'
<1> SUFFICES ASSUME NEW l \in LightIds, light'[l].target.owner = "Motion"
             PROVE  \E rule \in Rules : Mode[rule] # "OnOnly" /\ l \in RuleLights(rule)
  BY DEF MotionOwned, RuleLights
<1>1. slot \in Slots
  BY DEF TypeOK
<1>2. CASE \E rule \in Rules : Starting(plan, l, rule) /\ Mode[rule] # "OnOnly"
  BY <1>1, <1>2, OwnBulbs
<1>3. CASE \E rule \in Rules : Switching(plan, l, rule)
  <2>1. PICK rule \in Rules : Switching(plan, l, rule)
    BY <1>3
  <2>2. Mode[rule] # "OnOnly"
    BY <2>1 DEF Switching, PlanOK
  <2> QED
    BY <1>1, <2>1, <2>2, OwnBulbs
<1>4. CASE light'[l].target.owner = light[l].target.owner
  BY <1>4 DEF MotionOwned
<1> QED
  BY <1>2, <1>3, <1>4, BulbOutcome

\* Vacancy, stale sensors and the startup reset leave live off-only claims alone.
LEMMA StepOffOnly ==
  ASSUME TypeOK, ClaimsInside, SessionOccupied, OffOnlyClaimHeld, NEW ls, NEW zs, NEW plan,
         SameHouse(ls, zs), PlanOK(plan), SessionStep(ls, zs, plan)
  PROVE  OffOnlyClaimHeld'
<1> SUFFICES ASSUME NEW l \in LightIds, NEW rule \in Rules, Mode[rule] = "OffOnly",
                    l \in session'[rule].claimed
             PROVE  light'[l].target.owner = "Motion"
  BY DEF OffOnlyClaimHeld, OffOnlyClaim
<1>1. slot \in Slots
  BY DEF TypeOK
<1>2. CASE /\ rule \in plan.start /\ session'[rule].claimed = Claimable(rule, plan.lux)
  <2>1. Starting(plan, l, rule)
    BY <1>2 DEF Starting
  <2>2. \A q \in Rules : Starting(plan, l, q) => q = rule
    BY <1>1, <2>1, OwnBulbs, OneRule
  <2> QED
    BY <2>1, <2>2, BulbOutcome
<1>3. CASE rule \notin plan.finish \cup plan.ended /\ session'[rule] = session[rule]
  <2>1. l \in session[rule].claimed /\ l \in RuleLights(rule) /\ session[rule] # NoSession
    BY <1>1, <1>3, OwnBulbs
  <2>2. light[l].target.owner = "Motion"
    BY <2>1 DEF SessionOccupied, OffOnlyClaimHeld, OffOnlyClaim
  <2>3. ASSUME NEW q \in Rules PROVE ~Switching(plan, l, q) /\ ~Freeing(plan, l, q)
    <3>1. Switching(plan, l, q) \/ Freeing(plan, l, q) => q = rule
      BY <1>1, <2>1, OwnBulbs, OneRule
    <3>2. ~Switching(plan, l, rule)
      BY <1>3, <2>1 DEF Switching, PlanOK
    <3>3. ~Freeing(plan, l, rule)
      BY <1>3 DEF Freeing, FoundOff
    <3> QED
      BY <3>1, <3>2, <3>3
  <2>4. \A q \in Rules : Starting(plan, l, q) => q = rule
    BY <1>1, <2>1, OwnBulbs, OneRule
  <2> QED
    BY <2>2, <2>3, <2>4, BulbOutcome
<1> QED
  BY <1>2, <1>3, SessionOutcome

\* A session that ends turns its bulbs off or gives them back.
LEMMA StepLit ==
  ASSUME TypeOK, ClaimsInside, MotionOwned, MotionLitIsClaimed, DisabledReleased,
         NEW ls, NEW zs, NEW plan, SameHouse(ls, zs), PlanOK(plan), SessionStep(ls, zs, plan)
  PROVE  MotionLitIsClaimed'
<1> SUFFICES ASSUME NEW l \in LightIds, light'[l].target.owner = "Motion",
                    light'[l].target.value = "On"
             PROVE  \E rule \in Rules :
                      \/ l \in session'[rule].claimed
                      \/ /\ Mode[rule] = "OffOnly" /\ l \in RuleLights(rule)
                         /\ \E s \in Slots : l \notin TargetsBySlot[rule][s].lights
  BY DEF MotionLitIsClaimed, RuleLights
<1>1. slot \in Slots
  BY DEF TypeOK
<1>2. CASE \E rule \in Rules : Starting(plan, l, rule)
  <2>1. PICK rule \in Rules : Starting(plan, l, rule)
    BY <1>2
  <2>2. session'[rule].claimed = Claimable(rule, plan.lux)
    BY <2>1, SessionOutcome DEF Starting
  <2> QED
    BY <2>1, <2>2 DEF Starting
<1>3. CASE /\ \A rule \in Rules : /\ ~Starting(plan, l, rule) /\ ~Switching(plan, l, rule)
                                  /\ ~Freeing(plan, l, rule)
           /\ light'[l].target.owner = light[l].target.owner
           /\ light'[l].target.value = light[l].target.value
  <2>1. PICK rule \in Rules :
          \/ l \in session[rule].claimed
          \/ /\ Mode[rule] = "OffOnly" /\ l \in RuleLights(rule)
             /\ \E s \in Slots : l \notin TargetsBySlot[rule][s].lights
    BY <1>3 DEF MotionLitIsClaimed
  <2>2. CASE l \notin session[rule].claimed
    BY <2>1, <2>2
  <2>3. CASE l \in session[rule].claimed
    <3>1. l \in session[rule].lights /\ l \in RuleLights(rule) /\ session[rule] # NoSession
      BY <1>1, <2>3, OwnBulbs
    <3>2. MotionAllowed(l)
      BY <2>3 DEF DisabledReleased, MotionAllowed
    <3>3. Mode[rule] # "OnOnly"
      BY <1>3, <3>1, OneRule DEF MotionOwned
    <3>4. rule \notin plan.ended /\ ~FoundOff(plan, rule)
      BY <1>3, <3>1 DEF Freeing
    <3>5. rule \notin plan.finish
      <4>1. l \in Eligible(rule) /\ l \in ResetLights(rule)
        BY <1>3, <2>3, <3>1, <3>2 DEF Eligible, ResetLights
      <4> QED
        BY <1>3, <3>3, <3>4, <4>1 DEF Switching
    <3>6. CASE rule \in plan.start /\ Claimable(rule, plan.lux) # {}
      <4>1. Mode[rule] = "OffOnly"
        BY <3>1, <3>4, <3>6 DEF PlanOK
      <4>2. l \notin Claimable(rule, plan.lux)
        BY <1>3, <3>6 DEF Starting
      <4>3. l \notin TargetsBySlot[rule][slot].lights
        BY <3>2, <3>6, <4>1, <4>2, ClaimableLights
      <4> QED
        BY <1>1, <3>1, <4>1, <4>3
    <3>7. CASE ~(rule \in plan.start /\ Claimable(rule, plan.lux) # {})
      BY <2>3, <3>4, <3>5, <3>7, SessionOutcome
    <3> QED
      BY <3>6, <3>7
  <2> QED
    BY <2>2, <2>3
<1> QED
  BY <1>2, <1>3, BulbOutcome

\* No handler touches a bulb of a disabled room.
LEMMA StepDisabled ==
  ASSUME TypeOK, ClaimsInside, DisabledReleased, NEW ls, NEW zs, NEW plan, SameHouse(ls, zs),
         PlanOK(plan), SessionStep(ls, zs, plan), disabled' = disabled
  PROVE  DisabledReleased'
<1> SUFFICES ASSUME NEW r \in disabled, NEW l \in Members[r]
             PROVE  /\ light'[l].target.owner # "Motion"
                    /\ \A rule \in Rules : l \notin session'[rule].claimed
  BY DEF DisabledReleased
<1>1. slot \in Slots /\ l \in LightIds /\ ~MotionAllowed(l)
  BY RoomSets DEF TypeOK, MotionAllowed
<1>2. /\ light[l].target.owner # "Motion"
      /\ \A rule \in Rules : l \notin session[rule].claimed
  BY DEF DisabledReleased
<1>3. \A rule \in Rules : ~Starting(plan, l, rule) /\ ~Switching(plan, l, rule)
  BY <1>1, OwnBulbs
<1>4. light'[l].target.owner # "Motion"
  BY <1>1, <1>2, <1>3, BulbOutcome
<1>5. ASSUME NEW rule \in Rules PROVE l \notin session'[rule].claimed
  BY <1>1, <1>2, SessionOutcome, ClaimableLights
<1> QED
  BY <1>4, <1>5

\* A session step takes a bulb commanded by hand for motion only where an
\* off-only rule starts.
LEMMA StepManual ==
  ASSUME TypeOK, ClaimsInside, ManualOwned, NEW ls, NEW zs, NEW plan, SameHouse(ls, zs),
         PlanOK(plan), SessionStep(ls, zs, plan), running => running'
  PROVE  ManualOwned'
<1> SUFFICES ASSUME NEW l \in LightIds, by'[l] = "Manual"
             PROVE  /\ running'
                    /\ light'[l].target.owner = "Motion" =>
                         \E rule \in Rules : Mode[rule] = "OffOnly" /\ l \in RuleLights(rule)
  BY DEF ManualOwned, RuleLights
<1>1. slot \in Slots /\ HouseOK
  BY TypeHouse DEF TypeOK
<1>2. \/ plan.seed /\ by'[l] = by[l]
      \/ /\ by'[l] = by[l]
         /\ \A rule \in Rules :
              ~Switching(plan, l, rule) /\ (Starting(plan, l, rule) => Mode[rule] = "OffOnly")
  BY <1>1, StepBy
<1>3. by[l] = "Manual" /\ running
  BY <1>2 DEF ManualOwned
<1>4. \A rule \in Rules :
        ~Switching(plan, l, rule) /\ (Starting(plan, l, rule) => Mode[rule] = "OffOnly")
  BY <1>2, <1>3 DEF PlanOK
<1>5. ASSUME light'[l].target.owner = "Motion"
      PROVE  \E rule \in Rules : Mode[rule] = "OffOnly" /\ l \in RuleLights(rule)
  <2>1. CASE \E rule \in Rules : Starting(plan, l, rule)
    BY <1>1, <1>4, <2>1, OwnBulbs
  <2>2. CASE light'[l].target.owner = light[l].target.owner
    BY <1>3, <1>5, <2>2 DEF ManualOwned
  <2> QED
    BY <1>4, <1>5, <2>1, <2>2, BulbOutcome
<1> QED
  BY <1>3, <1>5

\* A handler that works on sessions keeps the invariant.
LEMMA SessionStepInv ==
  ASSUME MotionInv, NEW ls, NEW zs, NEW plan, SameHouse(ls, zs), PlanOK(plan),
         SessionStep(ls, zs, plan), UNCHANGED <<schedule, slot, disabled>>,
         running' \in BOOLEAN, running => running', SessionInv'
  PROVE  MotionInv'
<1> USE DEF MotionInv
<1>1. HouseOK
  BY TypeHouse
<1>2. \A l \in LightIds : LightOK(light'[l])
  BY BulbOutcome
<1>3. \A r \in Rooms : ZoneStep(r)
  BY ZoneOutcome
<1>4. /\ after' \in [LightIds -> SUBSET Targets]
      /\ by' \in [LightIds -> {"Manual", "Motion", "AllOff", None}]
  BY <1>1, StepBy
<1>5. light' \in [LightIds -> LightEntity] /\ zone' \in [Rooms -> ZoneEntity]
  <2>1. light' = [l \in LightIds |-> light'[l]] /\ zone' = [r \in Rooms |-> zone'[r]]
    BY StepLights, StepZones
  <2>2. /\ \A l \in LightIds : light'[l] \in LightEntity
        /\ \A r \in Rooms : zone'[r] \in ZoneEntity
    BY <1>2, <1>3 DEF LightOK, ZoneStep, ZoneOK
  <2> QED
    BY <2>1, <2>2
<1>6. lastOff' \in [Rules -> Ages \cup {NoOff}]
  BY StepLastOff DEF TypeOK
<1>7. /\ session' \in [Rules -> [group : Rooms \cup {None}, lights : SUBSET LightIds,
                                 claimed : SUBSET LightIds]]
      /\ ClaimsInside'
  BY SessionOutcome
<1>8. TypeOK'
  <2>1. /\ \A l \in LightIds : TargetOwned(light'[l].target)
        /\ \A r \in Rooms : TargetOwned(zone'[r].target)
    BY <1>2, <1>3 DEF LightOK, ZoneStep, ZoneOK
  <2> QED
    BY <2>1, <1>4, <1>5, <1>6, <1>7 DEF TypeOK, SessionInv, Readings, TargetOwned
<1>9. CursorValid'
  BY <1>3, CursorsValid DEF ZoneStep
<1>10. MotionOwned' /\ OffOnlyClaimHeld' /\ MotionLitIsClaimed'
  BY StepMotionOwned, StepOffOnly, StepLit
<1>11. DisabledReleased' /\ ManualOwned'
  BY StepDisabled, StepManual
<1> QED
  BY <1>7, <1>8, <1>9, <1>10, <1>11 DEF SessionInv

\* The handlers other than the tick start from the state as it is.
LEMMA SameHouseNow ==
  ASSUME TypeOK PROVE SameHouse(light, zone)
  BY TypeHouse, HouseEntities DEF SameHouse

\* The tick marks targets stale and changes no owner, value or cursor.
LEMMA SameHouseAged ==
  ASSUME TypeOK
  PROVE  SameHouse([l \in LightIds |-> Aged(light[l])], [r \in Rooms |-> Aged(zone[r])])
<1>1. LightStale \in Nat
  BY LightsAssumption, MaxAgeAssumption, SMT DEF LightsAssumption
<1>2. ASSUME NEW l \in LightIds
      PROVE  /\ LightOK(Aged(light[l]))
             /\ Aged(light[l]).target.owner = light[l].target.owner
             /\ Aged(light[l]).target.value = light[l].target.value
  <2> DEFINE t == TargetAged(light[l].target, LightStale)
  <2>1. LightOK(light[l]) /\ Sound(light[l].target)
    BY TypeHouse, HouseEntities, LightFields
  <2>2. Sound(t) /\ t.owner = light[l].target.owner /\ t.value = light[l].target.value
    BY <1>1, <2>1, AgedTarget
  <2>3. Aged(light[l]) = [light[l] EXCEPT !.target = t]
    BY DEF Aged
  <2> HIDE DEF t
  <2>4. LightOK(Aged(light[l])) /\ Aged(light[l]).target = t
    BY <2>1, <2>2, <2>3 DEF LightOK, LightEntity, Sound
  <2> QED
    BY <2>2, <2>4
<1>3. ASSUME NEW r \in Rooms
      PROVE  /\ ZoneOK(Aged(zone[r])) /\ Aged(zone[r]).cycle = zone[r].cycle
             /\ Aged(zone[r]).target.value = zone[r].target.value
             /\ Aged(zone[r]).target.phase = "Unset" <=> zone[r].target.phase = "Unset"
             /\ Aged(zone[r]).target.phase = "Confirmed" <=> zone[r].target.phase = "Confirmed"
  <2> DEFINE t == TargetAged(zone[r].target, LightStale)
  <2>1. ZoneOK(zone[r]) /\ Sound(zone[r].target)
    BY TypeHouse, HouseEntities, ZoneFields
  <2>2. /\ Sound(t) /\ t.value = zone[r].target.value
        /\ t.phase = "Unset" <=> zone[r].target.phase = "Unset"
        /\ t.phase = "Confirmed" <=> zone[r].target.phase = "Confirmed"
    BY <1>1, <2>1, AgedTarget
  <2>3. Aged(zone[r]) = [zone[r] EXCEPT !.target = t]
    BY DEF Aged
  <2> HIDE DEF t
  <2>4. ZoneOK(Aged(zone[r])) /\ Aged(zone[r]).target = t /\ Aged(zone[r]).cycle = zone[r].cycle
    BY <2>1, <2>2, <2>3, ZoneFields
  <2> QED
    BY <2>2, <2>4
<1> QED
  BY <1>2, <1>3 DEF SameHouse

\* The invariant is more than the occupancy of the sessions.
LEMMA InvSessions == MotionInv => SessionInv
  BY DEF MotionInv, TypeOK, SessionInv, Readings

\* handle_occupancy: what it asks of the session step
LEMMA OccupancyPlan ==
  ASSUME NEW s, NEW value, NEW lux, Occupancy(s, value, lux)
  PROVE  \E plan : /\ PlanOK(plan) /\ plan.reset = {}
                   /\ SessionStep(light, zone, plan)
<1> DEFINE sns    == [sensor EXCEPT ![s] = Observed(value)]
           repeat == IF value = "occupied" THEN SensorOccupied(sensor[s])
                                           ELSE sensor[s].value = "clear"
           mine   == {rule \in Rules : s \in SensorsOf[rule]}
           ended  == {rule \in mine : /\ session[rule] # NoSession /\ ~RuleOccupied(rule)
                                      /\ TargetIsOff(session[rule])}
           fresh  == {rule \in mine : session[rule] = NoSession} \cup ended
           plan   == IF value = "occupied"
                       THEN [NoPlan EXCEPT !.start = fresh, !.ended = ended, !.lux = lux,
                                           !.seed = ~running]
                       ELSE [NoPlan EXCEPT !.finish = FinishedBy(s, sns), !.seed = ~running]
           used   == IF repeat THEN NoPlan ELSE plan
<1>1. SessionStep(light, zone, used)
  BY Zenon DEF Occupancy
<1>2. FinishedBy(s, sns) \subseteq Rules
  BY DEF FinishedBy
<1>3. PlanOK(NoPlan) /\ NoPlan.reset = {}
  BY DEF PlanOK, NoPlan
<1>4. PlanOK(plan) /\ plan.reset = {}
  BY <1>2 DEF PlanOK, NoPlan
<1>5. PlanOK(used) /\ used.reset = {}
  <2> HIDE DEF plan
  <2> QED
    BY <1>3, <1>4
<1> HIDE DEF used
<1> QED
  BY <1>1, <1>5

\* evaluate_actual_staleness: what it asks of the session step
LEMMA TickPlan ==
  ASSUME Tick
  PROVE  \E plan : /\ PlanOK(plan) /\ plan.reset = {}
                   /\ SessionStep([l \in LightIds |-> Aged(light[l])],
                                  [r \in Rooms |-> Aged(zone[r])], plan)
<1> DEFINE sns  == [s \in Sensors |-> ActualAged(sensor[s], SensorStale)]
           plan == [NoPlan EXCEPT !.finish = FinishedByTick(sns), !.owner = "System"]
<1>1. SessionStep([l \in LightIds |-> Aged(light[l])], [r \in Rooms |-> Aged(zone[r])], plan)
  BY Zenon DEF Tick
<1>2. FinishedByTick(sns) \subseteq Rules
  BY DEF FinishedByTick
<1>3. PlanOK(plan) /\ plan.reset = {}
  <2> HIDE DEF sns
  <2> QED
    BY <1>2 DEF PlanOK, NoPlan
<1> HIDE DEF plan
<1> QED
  BY <1>1, <1>3

\* startup_turn_off_motion_zones: an occupied off-only rule is adopted, never
\* reset, so the sessions the seed has started for off-only rules survive.
LEMMA StartupPlan ==
  ASSUME SessionOccupied, EnterEventLoop
  PROVE  \E plan : /\ PlanOK(plan) /\ plan.finish = {} /\ plan.ended = {}
                   /\ SessionStep(light, zone, plan)
<1> DEFINE lit   == {rule \in Rules : Mode[rule] # "OnOnly" /\ ObservedOn(rule)}
           adopt == {rule \in lit : Mode[rule] = "OffOnly" /\ RuleOccupied(rule)}
           plan  == [NoPlan EXCEPT !.start = adopt, !.reset = lit \ adopt, !.owner = "System"]
<1>1. SessionStep(light, zone, plan) /\ ~running
  BY Zenon DEF EnterEventLoop
<1>2. /\ plan.start = adopt /\ plan.reset = lit \ adopt /\ plan.owner = "System"
      /\ plan.finish = {} /\ plan.ended = {} /\ plan.seed = FALSE
  BY DEF NoPlan
<1>3. /\ \A rule \in lit \ adopt :
           Mode[rule] # "OnOnly" /\ (Mode[rule] = "OffOnly" => session[rule] = NoSession)
      /\ \A rule \in adopt : Mode[rule] = "OffOnly"
  BY DEF SessionOccupied
<1> HIDE DEF plan, lit, adopt
<1>4. PlanOK(plan)
  BY <1>1, <1>2, <1>3 DEF PlanOK
<1> QED
  BY <1>1, <1>2, <1>4

\* handle_occupancy keeps the invariant.
LEMMA OccupancyInv ==
  ASSUME MotionInv, NEW s \in Sensors, NEW value \in {"occupied", "clear"}, NEW lux,
         Occupancy(s, value, lux)
  PROVE  MotionInv'
<1>1. SessionInv'
  BY InvSessions, OccupancySessions
<1>2. /\ UNCHANGED <<schedule, slot, disabled>> /\ running' = running
  BY DEF Occupancy
<1>3. SameHouse(light, zone) /\ running \in BOOLEAN
  BY SameHouseNow DEF MotionInv, TypeOK
<1>4. PICK plan : PlanOK(plan) /\ SessionStep(light, zone, plan)
  BY OccupancyPlan
<1> QED
  BY <1>1, <1>2, <1>3, <1>4, SessionStepInv

\* handle_tick keeps the invariant.
LEMMA TickInv ==
  ASSUME MotionInv, Tick PROVE MotionInv'
<1> DEFINE ls == [l \in LightIds |-> Aged(light[l])]
           zs == [r \in Rooms |-> Aged(zone[r])]
<1>1. SessionInv'
  BY InvSessions, TickSessions
<1>2. /\ UNCHANGED <<schedule, slot, disabled>> /\ running' = running
  BY DEF Tick
<1>3. SameHouse(ls, zs) /\ running \in BOOLEAN
  BY SameHouseAged DEF MotionInv, TypeOK
<1>4. PICK plan : PlanOK(plan) /\ SessionStep(ls, zs, plan)
  BY TickPlan
<1> HIDE DEF ls, zs
<1> QED
  BY <1>1, <1>2, <1>3, <1>4, SessionStepInv

\* startup_turn_off_motion_zones keeps the invariant.
LEMMA StartupInv ==
  ASSUME MotionInv, EnterEventLoop PROVE MotionInv'
<1>1. SessionInv'
  BY InvSessions, StartupSessions
<1>2. UNCHANGED <<schedule, slot, disabled>> /\ running'
  BY DEF EnterEventLoop
<1>3. SameHouse(light, zone) /\ running' \in BOOLEAN /\ SessionOccupied
  BY SameHouseNow DEF MotionInv, EnterEventLoop
<1>4. PICK plan : PlanOK(plan) /\ SessionStep(light, zone, plan)
  BY <1>3, StartupPlan
<1> QED
  BY <1>1, <1>2, <1>3, <1>4, SessionStepInv

\* Whoever is not motion gets a bulb only where no off-only session claims it.
LEMMA OwnerStep ==
  ASSUME NEW l, LightStep(l)
  PROVE  /\ light'[l].target.owner = "Motion" =>
              \/ /\ light[l].target.owner = "Motion"
                 /\ light'[l].target.value = light[l].target.value
              \/ OffOnlyClaim(l)
         /\ OffOnlyClaim(l) /\ light[l].target.owner = "Motion" =>
              light'[l].target.owner = "Motion"
  BY DEF LightStep, CommandOwned, LightOwner, Others

\* No manual command, report or slot change touches sensors or sessions, or
\* starts or stops the process.
LEMMA LightsApart ==
  ASSUME LightsNext
  PROVE  /\ UNCHANGED <<sensor, session, running>>
         /\ schedule \in [Rooms -> Schedules] /\ slot \in Slots =>
              schedule' \in [Rooms -> Schedules] /\ slot' \in Slots
<1>1. UNCHANGED <<sensor, session, running>>
  BY DEF LightsNext, SceneCycle, GroupSceneCycle, SceneToggle, SceneToggleCycle,
     SceneStepDown, TurnOffRoom, Brightness, TurnOffAllZones, WebRecallScene,
     WebSetRoomOff, ApplyRoomOverride, LightState, GroupState, EnterSlot, Apart
<1>2. \/ UNCHANGED <<schedule, slot>>
      \/ \E r \in Rooms, s \in Schedules : schedule' = [schedule EXCEPT ![r] = s] /\ slot' = slot
      \/ \E s \in Slots : slot' = s /\ schedule' = schedule
  BY DEF LightsNext, SceneCycle, GroupSceneCycle, SceneToggle, SceneToggleCycle,
     SceneStepDown, TurnOffRoom, Brightness, TurnOffAllZones, WebRecallScene,
     WebSetRoomOff, ApplyRoomOverride, LightState, GroupState, EnterSlot, Apart
<1> QED
  BY <1>1, <1>2

\* Buttons, the dashboard, reports, overrides and slot changes keep the invariant.
LEMMA LightsInv ==
  ASSUME MotionInv, LightsNext, UNCHANGED <<lastOff, disabled>>
  PROVE  MotionInv'
<1> USE DEF MotionInv
<1>1. HouseOK /\ schedule \in [Rooms -> Schedules] /\ slot \in Slots
  BY TypeHouse DEF TypeOK
<1>2. Envelope
  BY <1>1, LightsEnvelope
<1>3. /\ UNCHANGED <<sensor, session, running>>
      /\ schedule' \in [Rooms -> Schedules] /\ slot' \in Slots
  BY <1>1, LightsApart
<1>4. \A l \in LightIds : LightStep(l) /\ ByStep(l)
  BY <1>2 DEF Envelope
<1>5. ASSUME NEW l \in LightIds, OffOnlyClaim(l)
      PROVE  \E rule \in Rules : /\ Mode[rule] = "OffOnly" /\ l \in RuleLights(rule)
                                 /\ l \in session[rule].claimed
  BY <1>5 DEF OffOnlyClaim, ClaimsInside
<1>6. TypeOK'
  <2>1. /\ \A l \in LightIds : TargetOwned(light'[l].target)
        /\ \A r \in Rooms : TargetOwned(zone'[r].target)
    BY <1>2 DEF Envelope, LightStep, LightOK, ZoneStep, ZoneOK
  <2> QED
    BY <2>1, <1>2, <1>3 DEF TypeOK, Envelope, TargetOwned
<1>7. ClaimsInside' /\ SessionOccupied'
  BY <1>3 DEF ClaimsInside, SessionOccupied, RuleOccupied, OccupiedIn, RuleLights
<1>8. MotionOwned'
  <2> SUFFICES ASSUME NEW l \in LightIds, light'[l].target.owner = "Motion"
               PROVE  \E rule \in Rules : Mode[rule] # "OnOnly" /\ l \in RuleLights(rule)
    BY DEF MotionOwned, RuleLights
  <2>1. light[l].target.owner = "Motion" \/ OffOnlyClaim(l)
    BY <1>4, OwnerStep
  <2> QED
    BY <1>5, <2>1 DEF MotionOwned
<1>9. ManualOwned'
  <2> SUFFICES ASSUME NEW l \in LightIds, by'[l] = "Manual"
               PROVE  /\ running
                      /\ light'[l].target.owner = "Motion" =>
                           \E rule \in Rules : Mode[rule] = "OffOnly" /\ l \in RuleLights(rule)
    BY <1>3 DEF ManualOwned, RuleLights
  <2>1. CASE by'[l] = by[l]
    <3>1. light'[l].target.owner = "Motion" =>
            light[l].target.owner = "Motion" \/ OffOnlyClaim(l)
      BY <1>4, OwnerStep
    <3> QED
      BY <2>1, <3>1, <1>5 DEF ManualOwned
  <2>2. CASE running /\ (CommandOwned(l) \/ light'[l].target.owner = None)
    <3>1. light'[l].target.owner = "Motion" => OffOnlyClaim(l)
      BY <2>2 DEF CommandOwned, LightOwner, Others, None
    <3> QED
      BY <2>2, <3>1, <1>5
  <2> QED
    BY <1>4, <2>1, <2>2 DEF ByStep
<1>10. OffOnlyClaimHeld'
  <2>1. \A l \in LightIds : OffOnlyClaim(l)' <=> OffOnlyClaim(l)
    BY <1>3 DEF OffOnlyClaim, RuleOccupied, OccupiedIn
  <2> QED
    BY <1>4, <2>1, OwnerStep DEF OffOnlyClaimHeld
<1>11. MotionLitIsClaimed'
  <2> SUFFICES ASSUME NEW l \in LightIds, light'[l].target.owner = "Motion",
                      light'[l].target.value = "On"
               PROVE  \E rule \in Rules :
                        \/ l \in session[rule].claimed
                        \/ /\ Mode[rule] = "OffOnly" /\ l \in RuleLights(rule)
                           /\ \E s \in Slots : l \notin TargetsBySlot[rule][s].lights
    BY <1>3 DEF MotionLitIsClaimed, RuleLights
  <2>1. CASE OffOnlyClaim(l)
    BY <1>5, <2>1
  <2>2. CASE light[l].target.owner = "Motion" /\ light[l].target.value = "On"
    BY <2>2 DEF MotionLitIsClaimed
  <2> QED
    BY <1>4, <2>1, <2>2, OwnerStep
<1>12. DisabledReleased'
  <2> SUFFICES ASSUME NEW r \in disabled, NEW l \in Members[r]
               PROVE  /\ light'[l].target.owner # "Motion"
                      /\ \A rule \in Rules : l \notin session[rule].claimed
    BY <1>3 DEF DisabledReleased
  <2>1. l \in LightIds
    BY RoomSets DEF TypeOK
  <2>2. /\ light[l].target.owner # "Motion"
        /\ \A rule \in Rules : l \notin session[rule].claimed
    BY DEF DisabledReleased
  <2> QED
    BY <1>4, <2>1, <2>2, OwnerStep DEF OffOnlyClaim
<1>13. CursorValid'
  BY <1>2, CursorsValid DEF Envelope, ZoneStep
<1> QED
  BY <1>6, <1>7, <1>8, <1>9, <1>10, <1>11, <1>12, <1>13

\* What set_motion_enabled(room, false) does to a room: the cursor, the value
\* and the phase stay.
LEMMA DisableZones ==
  ASSUME TypeOK, NEW r \in Rooms, DisableMotion(r)
  PROVE  /\ zone' \in [Rooms -> ZoneEntity]
         /\ \A q \in Rooms : ZoneStep(q)
<1>1. /\ schedule' = schedule
      /\ zone' = [q \in Rooms |->
                    IF \E rule \in Rules : /\ session[rule].group = q
                                           /\ session[rule].lights \cap Members[r] # {}
                      THEN Released(zone[q]) ELSE zone[q]]
  BY DEF DisableMotion
<1>2. ASSUME NEW q \in Rooms PROVE ZoneStep(q)
  <2>1. ZoneOK(zone[q]) /\ Sound(zone[q].target)
    BY TypeHouse, HouseEntities, ZoneFields
  <2>2. /\ ZoneOK(Released(zone[q])) /\ Released(zone[q]).cycle = zone[q].cycle
        /\ Released(zone[q]).target.phase = zone[q].target.phase
    BY <2>1, ReleasedEntity
  <2>3. zone'[q] = Released(zone[q]) \/ zone'[q] = zone[q]
    BY <1>1
  <2> QED
    BY <1>1, <2>1, <2>2, <2>3, CursorKept
<1>3. \A q \in Rooms : zone'[q] \in ZoneEntity
  BY <1>2 DEF ZoneStep, ZoneOK
<1> QED
  BY <1>1, <1>2, <1>3

\* set_motion_enabled(room, false) takes the room's bulbs out of every session
\* and out of motion's hands.
LEMMA DisableInv ==
  ASSUME MotionInv, NEW r \in Rooms, DisableMotion(r)
  PROVE  MotionInv'
<1> USE DEF MotionInv
<1>1. /\ UNCHANGED <<schedule, slot, sensor, running, by, lastOff>>
      /\ disabled' = disabled \cup {r}
      /\ light' = [l \in LightIds |-> IF l \in Members[r] THEN Released(light[l]) ELSE light[l]]
      /\ session' = [rule \in Rules |->
                       IF session[rule].claimed \subseteq Members[r] THEN NoSession
                       ELSE [session[rule] EXCEPT !.claimed = @ \ Members[r]]]
  BY DEF DisableMotion
<1>2. zone' \in [Rooms -> ZoneEntity] /\ \A q \in Rooms : ZoneStep(q)
  BY DisableZones
<1>3. after' \in [LightIds -> SUBSET Targets]
  BY TypeHouse, StampTyped DEF DisableMotion
<1>4. ASSUME NEW l \in LightIds
      PROVE  /\ LightOK(light'[l])
             /\ l \in Members[r] => light'[l].target.owner # "Motion"
             /\ l \notin Members[r] => light'[l] = light[l]
             /\ light'[l].target.owner = "Motion" => light'[l] = light[l]
  <2>1. LightOK(light[l]) /\ Sound(light[l].target)
    BY TypeHouse, HouseEntities, LightFields
  <2>2. LightOK(Released(light[l])) /\ Released(light[l]).target.owner # "Motion"
    BY <2>1, ReleasedEntity
  <2> QED
    BY <1>1, <2>1, <2>2
<1>5. ASSUME NEW rule \in Rules
      PROVE  /\ session'[rule] \in [group : Rooms \cup {None}, lights : SUBSET LightIds,
                                    claimed : SUBSET LightIds]
             /\ session'[rule].claimed = session[rule].claimed \ Members[r]
             /\ session'[rule].lights \subseteq session[rule].lights
             /\ session'[rule].claimed \subseteq session'[rule].lights
             /\ session'[rule] # NoSession => session[rule] # NoSession
  <2>1. /\ session[rule] \in [group : Rooms \cup {None}, lights : SUBSET LightIds,
                              claimed : SUBSET LightIds]
        /\ session[rule].claimed \subseteq session[rule].lights
    BY DEF TypeOK, ClaimsInside
  <2>2. CASE session[rule].claimed \subseteq Members[r]
    <3>1. session'[rule] = NoSession
      BY <1>1, <2>2
    <3> QED
      BY <2>1, <2>2, <3>1 DEF NoSession
  <2>3. CASE ~(session[rule].claimed \subseteq Members[r])
    <3>1. session'[rule] = [session[rule] EXCEPT !.claimed = @ \ Members[r]]
      BY <1>1, <2>3
    <3>2. session[rule] # NoSession
      BY <2>3 DEF NoSession
    <3> QED
      BY <2>1, <3>1, <3>2
  <2> QED
    BY <2>2, <2>3
<1>6. TypeOK'
  <2>1. /\ \A l \in LightIds : TargetOwned(light'[l].target) /\ light'[l] \in LightEntity
        /\ \A q \in Rooms : TargetOwned(zone'[q].target)
    BY <1>2, <1>4 DEF LightOK, ZoneStep, ZoneOK
  <2>2. light' \in [LightIds -> LightEntity]
    BY <1>1, <2>1
  <2>3. session' \in [Rules -> [group : Rooms \cup {None}, lights : SUBSET LightIds,
                                claimed : SUBSET LightIds]]
    <3>1. session' = [rule \in Rules |-> session'[rule]]
      BY <1>1
    <3> QED
      BY <3>1, <1>5
  <2> QED
    BY <1>1, <1>2, <1>3, <2>1, <2>2, <2>3 DEF TypeOK, TargetOwned
<1>7. ClaimsInside' /\ SessionOccupied'
  <2>1. \A rule \in Rules : /\ session'[rule].claimed \subseteq session'[rule].lights
                            /\ session'[rule].lights \subseteq RuleLights(rule)
    BY <1>5 DEF ClaimsInside
  <2>2. ClaimsInside'
    BY <2>1 DEF ClaimsInside, RuleLights
  <2>3. SessionOccupied'
    BY <1>1, <1>5 DEF SessionOccupied, RuleOccupied, OccupiedIn
  <2> QED
    BY <2>2, <2>3
<1>8. MotionOwned'
  BY <1>4 DEF MotionOwned, RuleLights
<1>9. ManualOwned'
  BY <1>1, <1>4 DEF ManualOwned, RuleLights
<1>10. OffOnlyClaimHeld'
  <2>1. ASSUME NEW l \in LightIds, OffOnlyClaim(l)' PROVE OffOnlyClaim(l) /\ l \notin Members[r]
    BY <1>1, <1>5, <2>1 DEF OffOnlyClaim, RuleOccupied, OccupiedIn
  <2> QED
    BY <1>4, <2>1 DEF OffOnlyClaimHeld
<1>11. MotionLitIsClaimed'
  <2> SUFFICES ASSUME NEW l \in LightIds, light'[l].target.owner = "Motion",
                      light'[l].target.value = "On"
               PROVE  \E rule \in Rules :
                        \/ l \in session'[rule].claimed
                        \/ /\ Mode[rule] = "OffOnly" /\ l \in RuleLights(rule)
                           /\ \E s \in Slots : l \notin TargetsBySlot[rule][s].lights
    BY DEF MotionLitIsClaimed, RuleLights
  <2>1. light'[l] = light[l] /\ l \notin Members[r]
    BY <1>4
  <2>2. \E rule \in Rules :
          \/ l \in session[rule].claimed
          \/ /\ Mode[rule] = "OffOnly" /\ l \in RuleLights(rule)
             /\ \E s \in Slots : l \notin TargetsBySlot[rule][s].lights
    BY <2>1 DEF MotionLitIsClaimed
  <2> QED
    BY <1>5, <2>1, <2>2
<1>12. DisabledReleased'
  <2> SUFFICES ASSUME NEW q \in disabled', NEW l \in Members[q]
               PROVE  /\ light'[l].target.owner # "Motion"
                      /\ \A rule \in Rules : l \notin session'[rule].claimed
    BY DEF DisabledReleased
  <2>1. l \in LightIds
    BY <1>1, RoomSets DEF TypeOK
  <2>2. CASE l \in Members[r]
    BY <1>4, <1>5, <2>1, <2>2
  <2>3. CASE l \notin Members[r]
    <3>1. q \in disabled
      BY <1>1, <2>3
    <3>2. /\ light[l].target.owner # "Motion"
          /\ \A rule \in Rules : l \notin session[rule].claimed
      BY <3>1 DEF DisabledReleased
    <3> QED
      BY <1>4, <1>5, <2>1, <2>3, <3>2
  <2> QED
    BY <2>2, <2>3
<1>13. CursorValid'
  BY <1>2, CursorsValid DEF ZoneStep
<1> QED
  BY <1>6, <1>7, <1>8, <1>9, <1>10, <1>11, <1>12, <1>13

\* The clock changes ages only.
LEMMA AdvanceEntities ==
  ASSUME TypeOK, Advance
  PROVE  /\ light' \in [LightIds -> LightEntity]
         /\ zone' \in [Rooms -> ZoneEntity]
         /\ lastOff' \in [Rules -> Ages \cup {NoOff}]
         /\ \A l \in LightIds : /\ LightOK(light'[l])
                                /\ light'[l].target.owner = light[l].target.owner
                                /\ light'[l].target.value = light[l].target.value
         /\ \A r \in Rooms : ZoneStep(r)
<1>1. /\ light' = [l \in LightIds |-> InFlightOlder(light[l])]
      /\ zone' = [r \in Rooms |-> [InFlightOlder(zone[r]) EXCEPT !.press = ElapsedOlder(@)]]
      /\ lastOff' = [rule \in Rules |-> ElapsedOlder(lastOff[rule])]
      /\ schedule' = schedule
  BY DEF Advance
<1>2. ASSUME NEW l \in LightIds
      PROVE  /\ LightOK(light'[l]) /\ light'[l].target.owner = light[l].target.owner
             /\ light'[l].target.value = light[l].target.value
  <2> DEFINE t == TargetOlder(light[l].target)
  <2>1. LightOK(light[l]) /\ Sound(light[l].target)
    BY TypeHouse, HouseEntities, LightFields
  <2>2. Sound(t) /\ t.owner = light[l].target.owner /\ t.value = light[l].target.value
    BY <2>1, OlderTarget
  <2>3. light'[l] = light[l] \/ light'[l] = [light[l] EXCEPT !.target = t]
    BY <1>1 DEF InFlightOlder
  <2> HIDE DEF t
  <2>4. /\ LightOK([light[l] EXCEPT !.target = t]) /\ [light[l] EXCEPT !.target = t].target = t
    BY <2>1, <2>2 DEF LightOK, LightEntity, Sound
  <2> QED
    BY <2>1, <2>2, <2>3, <2>4
<1>3. \A a \in Ages \cup {-1} : ElapsedOlder(a) \in Ages \cup {-1}
  BY OlderType DEF ElapsedOlder
<1>4. ASSUME NEW r \in Rooms PROVE ZoneStep(r)
  <2> DEFINE t == TargetOlder(zone[r].target)
             z == InFlightOlder(zone[r])
  <2>1. ZoneOK(zone[r]) /\ Sound(zone[r].target)
    BY TypeHouse, HouseEntities, ZoneFields
  <2>2. Sound(t) /\ t.phase = zone[r].target.phase
    BY <2>1, OlderTarget
  <2>3. z = zone[r] \/ z = [zone[r] EXCEPT !.target = t]
    BY DEF InFlightOlder
  <2>4. zone'[r] = [z EXCEPT !.press = ElapsedOlder(z.press)]
    BY <1>1
  <2> HIDE DEF t, z
  <2>5. /\ ZoneOK([zone[r] EXCEPT !.target = t]) /\ [zone[r] EXCEPT !.target = t].target = t
        /\ [zone[r] EXCEPT !.target = t].cycle = zone[r].cycle
    BY <2>1, <2>2, ZoneFields
  <2>6. ZoneOK(z) /\ z.cycle = zone[r].cycle /\ z.target.phase = zone[r].target.phase
    BY <2>1, <2>2, <2>3, <2>5
  <2>7. z.press \in Ages \cup {-1}
    BY <2>6 DEF ZoneOK, ZoneEntity, NoPress
  <2>8. ZoneOK(zone'[r]) /\ zone'[r].cycle = z.cycle /\ zone'[r].target = z.target
    BY <1>3, <2>4, <2>6, <2>7 DEF ZoneOK, ZoneEntity, NoPress
  <2> QED
    BY <1>1, <2>6, <2>8, CursorKept
<1>5. light' \in [LightIds -> LightEntity]
  <2>1. \A l \in LightIds : light'[l] \in LightEntity
    BY <1>2 DEF LightOK
  <2> QED
    BY <1>1, <2>1
<1>6. zone' \in [Rooms -> ZoneEntity]
  <2>1. \A r \in Rooms : zone'[r] \in ZoneEntity
    BY <1>4 DEF ZoneStep, ZoneOK
  <2>2. zone' = [r \in Rooms |-> zone'[r]]
    BY <1>1
  <2> QED
    BY <2>1, <2>2
<1>7. lastOff' \in [Rules -> Ages \cup {NoOff}]
  BY <1>1, <1>3 DEF TypeOK, NoOff
<1> QED
  BY <1>2, <1>4, <1>5, <1>6, <1>7

\* The clock keeps the invariant.
LEMMA AdvanceInv ==
  ASSUME MotionInv, Advance PROVE MotionInv'
<1> USE DEF MotionInv
<1>1. /\ UNCHANGED <<after, schedule, slot, session, running, by, disabled>>
  BY DEF Advance
<1>2. SessionInv'
  BY InvSessions, AdvanceSessions
<1>3. /\ light' \in [LightIds -> LightEntity]
      /\ zone' \in [Rooms -> ZoneEntity]
      /\ lastOff' \in [Rules -> Ages \cup {NoOff}]
      /\ \A l \in LightIds : /\ LightOK(light'[l])
                             /\ light'[l].target.owner = light[l].target.owner
                             /\ light'[l].target.value = light[l].target.value
      /\ \A r \in Rooms : ZoneStep(r)
  BY AdvanceEntities
<1>4. TypeOK'
  <2>1. /\ \A l \in LightIds : TargetOwned(light'[l].target)
        /\ \A r \in Rooms : TargetOwned(zone'[r].target)
    BY <1>3 DEF LightOK, ZoneStep, ZoneOK
  <2> QED
    BY <1>1, <1>2, <1>3, <2>1 DEF TypeOK, SessionInv, Readings, TargetOwned
<1>5. ClaimsInside' /\ SessionOccupied'
  BY <1>1, <1>2 DEF ClaimsInside, RuleLights, SessionInv
<1>6. MotionOwned' /\ ManualOwned'
  BY <1>1, <1>3 DEF MotionOwned, ManualOwned, RuleLights
<1>7. OffOnlyClaimHeld'
  <2>1. ASSUME NEW l \in LightIds, OffOnlyClaim(l)' PROVE OffOnlyClaim(l)
    <3>1. PICK rule \in Rules : Mode[rule] = "OffOnly" /\ l \in session[rule].claimed
      BY <1>1, <2>1 DEF OffOnlyClaim
    <3>2. session[rule] # NoSession
      BY <3>1 DEF NoSession
    <3> QED
      BY <3>1, <3>2 DEF SessionOccupied, OffOnlyClaim
  <2> QED
    BY <1>3, <2>1 DEF OffOnlyClaimHeld
<1>8. MotionLitIsClaimed'
  BY <1>1, <1>3 DEF MotionLitIsClaimed, RuleLights
<1>9. DisabledReleased'
  <2>1. \A r \in disabled : Members[r] \subseteq LightIds
    BY RoomSets DEF TypeOK
  <2> QED
    BY <1>1, <1>3, <2>1 DEF DisabledReleased
<1>10. CursorValid'
  BY <1>3, CursorsValid DEF ZoneStep
<1> QED
  BY <1>4, <1>5, <1>6, <1>7, <1>8, <1>9, <1>10

\* A fresh process: no target, no session, no cursor; the settings survive.
FreshStart ==
  FreshState /\ schedule \in [Rooms -> Schedules] /\ slot \in Slots /\ disabled \subseteq Rooms

\* A fresh process satisfies the invariant.
LEMMA FreshInv == FreshStart => MotionInv
<1> SUFFICES ASSUME FreshStart PROVE MotionInv
  OBVIOUS
<1> USE DEF FreshStart, FreshState
<1>1. Sound(UnsetTarget)
  BY NewTargets
<1>2. NewLight \in LightEntity /\ TargetOwned(NewLight.target)
      /\ NewLight.target.owner = None
  BY <1>1, RoomSets DEF NewLight, LightEntity, Sound, UnsetTarget
<1>3. NewZone \in ZoneEntity /\ TargetOwned(NewZone.target) /\ NewZone.cycle = NoCycle
  BY <1>1, RoomSets DEF NewZone, ZoneEntity, Sound
<1>4. UnknownActual(None) \in TassActual({"occupied", "clear", None})
  BY ActualOps
<1>5. /\ NoSession \in [group : Rooms \cup {None}, lights : SUBSET LightIds,
                        claimed : SUBSET LightIds]
      /\ NoSession.claimed = {} /\ NoSession.lights = {}
  BY DEF NoSession
<1>6. TypeOK
  BY <1>2, <1>3, <1>4, <1>5 DEF TypeOK
<1>7. \A l \in LightIds : light[l].target.owner = None /\ by[l] = None
  BY <1>2
<1>8. \A rule \in Rules : session[rule] = NoSession
  OBVIOUS
<1>9. ClaimsInside /\ SessionOccupied
  BY <1>5, <1>8 DEF ClaimsInside, SessionOccupied
<1>10. MotionOwned /\ ManualOwned /\ MotionLitIsClaimed
  BY <1>7 DEF MotionOwned, ManualOwned, MotionLitIsClaimed, None
<1>11. OffOnlyClaimHeld
  BY <1>5, <1>8 DEF OffOnlyClaimHeld, OffOnlyClaim
<1>12. DisabledReleased
  <2>1. \A r \in disabled : Members[r] \subseteq LightIds
    BY RoomSets
  <2> QED
    BY <1>5, <1>7, <1>8, <2>1 DEF DisabledReleased, None
<1>13. CursorValid
  BY <1>3 DEF CursorValid
<1> QED
  BY <1>6, <1>9, <1>10, <1>11, <1>12, <1>13 DEF MotionInv

\* A restart keeps the invariant.
LEMMA RestartInv ==
  ASSUME MotionInv, Restart PROVE MotionInv'
<1>1. FreshStart'
  BY DEF Restart, FreshStart, FreshState, MotionInv, TypeOK
<1> QED
  BY <1>1, FreshInv, PTL

\* set_motion_enabled(room, true) keeps the invariant.
LEMMA EnableInv ==
  ASSUME MotionInv, NEW r \in Rooms, EnableMotion(r) PROVE MotionInv'
<1>1. /\ UNCHANGED <<light, zone, after, schedule, slot, sensor, session, running, by, lastOff>>
      /\ disabled' = disabled \ {r}
  BY DEF EnableMotion
<1>2. TypeOK' /\ DisabledReleased'
  BY <1>1 DEF MotionInv, TypeOK, DisabledReleased, TargetOwned
<1>3. CursorValid'
  BY <1>1 DEF MotionInv, CursorValid
<1>4. ClaimsInside' /\ SessionOccupied'
  BY <1>1 DEF MotionInv, ClaimsInside, SessionOccupied, RuleOccupied, OccupiedIn, RuleLights
<1>5. MotionOwned' /\ ManualOwned' /\ MotionLitIsClaimed'
  BY <1>1 DEF MotionInv, MotionOwned, ManualOwned, MotionLitIsClaimed, RuleLights
<1>6. OffOnlyClaimHeld'
  BY <1>1 DEF MotionInv, OffOnlyClaimHeld, OffOnlyClaim, RuleOccupied, OccupiedIn
<1> QED
  BY <1>2, <1>3, <1>4, <1>5, <1>6 DEF MotionInv

\* A stuttering step keeps the invariant.
LEMMA StutterInv ==
  ASSUME MotionInv, UNCHANGED vars PROVE MotionInv'
<1> USE DEF MotionInv, vars
<1>1. TypeOK'
  BY DEF TypeOK, TargetOwned
<1>2. CursorValid' /\ DisabledReleased'
  BY DEF CursorValid, DisabledReleased
<1>3. ClaimsInside' /\ SessionOccupied'
  BY DEF ClaimsInside, SessionOccupied, RuleOccupied, OccupiedIn, RuleLights
<1>4. MotionOwned' /\ ManualOwned' /\ MotionLitIsClaimed'
  BY DEF MotionOwned, ManualOwned, MotionLitIsClaimed, RuleLights
<1>5. OffOnlyClaimHeld'
  BY DEF OffOnlyClaimHeld, OffOnlyClaim, RuleOccupied, OccupiedIn
<1> QED
  BY <1>1, <1>2, <1>3, <1>4, <1>5

\* The invariant holds initially.
LEMMA MotionInvInit == Init => MotionInv
<1>1. Init => FreshStart
  BY LightsAssumption DEF Init, FreshStart, LightsAssumption
<1> QED
  BY <1>1, FreshInv

\* Every step keeps the invariant.
LEMMA MotionInvNext == MotionInv /\ [Next]_vars => MotionInv'
<1> SUFFICES ASSUME MotionInv, [Next]_vars PROVE MotionInv'
  OBVIOUS
<1>1. CASE LightsNext /\ UNCHANGED <<lastOff, disabled>>
  BY <1>1, LightsInv
<1>2. ASSUME NEW s \in Sensors, NEW lux, Occupancy(s, "occupied", lux) PROVE MotionInv'
  BY <1>2, OccupancyInv
<1>3. ASSUME NEW s \in Sensors, Occupancy(s, "clear", "dark") PROVE MotionInv'
  BY <1>3, OccupancyInv
<1>4. ASSUME NEW r \in Rooms, DisableMotion(r) PROVE MotionInv'
  BY <1>4, DisableInv
<1>5. ASSUME NEW r \in Rooms, EnableMotion(r) PROVE MotionInv'
  BY <1>5, EnableInv
<1>6. CASE Tick
  BY <1>6, TickInv
<1>7. CASE EnterEventLoop
  BY <1>7, StartupInv
<1>8. CASE Restart
  BY <1>8, RestartInv
<1>9. CASE Advance
  BY <1>9, AdvanceInv
<1>10. CASE UNCHANGED vars
  BY <1>10, StutterInv
<1> QED
  BY <1>1, <1>2, <1>3, <1>4, <1>5, <1>6, <1>7, <1>8, <1>9, <1>10 DEF Next

-----------------------------------------------------------------------------
(* Theorems *)

\* The inductive invariant holds in every house: any rooms, overlapping or
\* nested, any bulbs, rules with disjoint bulbs, schedules and sensors.
THEOREM MotionInvariant == Spec => []MotionInv
  BY MotionInvInit, MotionInvNext, PTL DEF Spec

\* Every target, cursor, session and setting keeps its type, and a target has an
\* owner exactly when it has a value, through every handler of lights.rs,
\* switch_steps.rs and motion.rs.
THEOREM MotionTypeCorrect == Spec => []TypeOK
<1>1. MotionInv => TypeOK
  BY DEF MotionInv
<1> QED
  BY <1>1, MotionInvariant, PTL

\* A bulb of a live off-only session stays with motion whatever is pressed,
\* echoed, reported, overridden or disabled elsewhere (light_has_off_only_claim).
THEOREM OffOnlyClaimsAreHeld == Spec => []OffOnlyClaimHeld
<1>1. MotionInv => OffOnlyClaimHeld
  BY DEF MotionInv
<1> QED
  BY <1>1, MotionInvariant, PTL

\* No zombie claims: a bulb that motion holds lit belongs to a session that will
\* turn it off or give it back (finish_motion_session, release_motion_session),
\* save where startup_turn_off_motion_zones drops an earlier slot's target.
THEOREM NoZombieClaims == Spec => []MotionLitIsClaimed
<1>1. MotionInv => MotionLitIsClaimed
  BY DEF MotionInv
<1> QED
  BY <1>1, MotionInvariant, PTL

\* The bulbs of a room whose motion is disabled are in no session and in no
\* motion hands, also where rooms overlap (set_motion_enabled,
\* motion_allowed_for_light).
THEOREM DisabledRoomsAreReleased == Spec => []DisabledReleased
<1>1. MotionInv => DisabledReleased
  BY DEF MotionInv
<1> QED
  BY <1>1, MotionInvariant, PTL

\* No handler indexes the switch steps outside their list: the cursor is valid
\* across overrides, slot changes, brightness, echoes and sessions.
THEOREM CursorsAreValid == Spec => []CursorValid
<1>1. MotionInv => CursorValid
  BY DEF MotionInv
<1> QED
  BY <1>1, MotionInvariant, PTL

\* Manual commands cannot be undone by vacancy, stale sensors or startup, save
\* by an off-only rule (finish_motion_session, the owner check of the eligible
\* bulbs).
THEOREM ManualIsSpared == Spec => VacancySparesManual
<1> DEFINE Spared == \A l \in LightIds :
             (by[l] = "Manual" /\ by'[l] = "Motion" /\ light'[l].target.value = "Off")
               => \E rule \in Rules : Mode[rule] = "OffOnly" /\ l \in RuleLights(rule)
<1>1. ASSUME MotionInv, NEW ls, NEW zs, NEW plan, SameHouse(ls, zs), PlanOK(plan),
             SessionStep(ls, zs, plan)
      PROVE  Spared
  <2> USE <1>1 DEF MotionInv
  <2> SUFFICES ASSUME NEW l \in LightIds, by[l] = "Manual", by'[l] = "Motion",
                      light'[l].target.value = "Off"
               PROVE  \E rule \in Rules : Mode[rule] = "OffOnly" /\ l \in RuleLights(rule)
    OBVIOUS
  <2>1. slot \in Slots /\ HouseOK
    BY TypeHouse DEF TypeOK
  <2>2. \E rule \in Rules : \/ Switching(plan, l, rule)
                            \/ Starting(plan, l, rule) /\ Mode[rule] # "OffOnly"
    BY <2>1, StepBy
  <2>3. running
    BY DEF ManualOwned
  <2>4. ASSUME NEW rule \in Rules, Switching(plan, l, rule)
        PROVE  light[l].target.owner = "Motion"
    BY <2>3, <2>4 DEF Switching, PlanOK, Eligible
  <2>5. ASSUME NEW rule \in Rules, Starting(plan, l, rule), Mode[rule] # "OffOnly"
        PROVE  FALSE
    <3>1. \A q \in Rules : Starting(plan, l, q) => q = rule
      BY <2>1, <2>5, OwnBulbs, OneRule
    <3> QED
      BY <2>5, <3>1, BulbOutcome
  <2> QED
    BY <2>2, <2>4, <2>5 DEF ManualOwned
<1>2. ASSUME MotionInv, [Next]_vars PROVE Spared
  <2>1. CASE \A l \in LightIds : by'[l] = by[l] \/ by'[l] # "Motion"
    BY <2>1
  <2>2. CASE LightsNext
    <3>1. HouseOK /\ schedule \in [Rooms -> Schedules] /\ slot \in Slots
      BY <1>2, TypeHouse DEF MotionInv, TypeOK
    <3>2. Envelope
      BY <2>2, <3>1, LightsEnvelope
    <3> QED
      BY <2>1, <3>2 DEF Envelope, ByStep
  <2>3. ASSUME NEW s, NEW value, NEW lux, Occupancy(s, value, lux) PROVE Spared
    <3> HIDE DEF Spared
    <3> QED
      BY <1>1, <1>2, <2>3, OccupancyPlan, SameHouseNow DEF MotionInv
  <2>4. CASE Tick
    <3> HIDE DEF Spared
    <3> QED
      BY <1>1, <1>2, <2>4, TickPlan, SameHouseAged DEF MotionInv
  <2>5. CASE EnterEventLoop
    <3> HIDE DEF Spared
    <3> QED
      BY <1>1, <1>2, <2>5, StartupPlan, SameHouseNow DEF MotionInv
  <2>6. CASE \E r \in Rooms : DisableMotion(r) \/ EnableMotion(r)
    BY <2>1, <2>6 DEF DisableMotion, EnableMotion
  <2>7. CASE Restart
    BY <2>1, <2>7 DEF Restart, None
  <2>8. CASE Advance
    BY <2>1, <2>8 DEF Advance
  <2>9. CASE UNCHANGED vars
    BY <2>1, <2>9 DEF vars
  <2> QED
    BY <1>2, <2>2, <2>3, <2>4, <2>5, <2>6, <2>7, <2>8, <2>9 DEF Next
<1>3. MotionInv /\ [Next]_vars => [Spared]_vars
  BY <1>2
<1> QED
  BY <1>3, MotionInvariant, PTL DEF Spec, VacancySparesManual

\* The startup reset neither turns off nor adopts a bulb of a disabled room
\* (startup_turn_off_motion_zones).
THEOREM DisabledRoomsAreSparedAtStartup == Spec => StartupSparesDisabled
<1> DEFINE Spared == (~running /\ running') =>
             \A r \in disabled : \A l \in Members[r] : light'[l] = light[l]
<1>1. ASSUME MotionInv, [Next]_vars PROVE Spared
  <2>1. CASE running' = running \/ ~running'
    BY <2>1
  <2>2. CASE LightsNext
    BY <2>1, <2>2, LightsApart
  <2>3. CASE EnterEventLoop
    <3> SUFFICES ASSUME NEW r \in disabled, NEW l \in Members[r] PROVE light'[l] = light[l]
      OBVIOUS
    <3>1. /\ slot \in Slots /\ l \in LightIds /\ ~MotionAllowed(l) /\ ClaimsInside
          /\ SessionOccupied /\ SameHouse(light, zone)
      BY <1>1, RoomSets, SameHouseNow DEF MotionInv, TypeOK, MotionAllowed
    <3>2. PICK plan : /\ PlanOK(plan) /\ plan.finish = {} /\ plan.ended = {}
                      /\ SessionStep(light, zone, plan)
      BY <2>3, <3>1, StartupPlan
    <3>3. \A rule \in Rules : /\ ~Starting(plan, l, rule) /\ ~Switching(plan, l, rule)
                              /\ ~Freeing(plan, l, rule)
      BY <3>1, <3>2, OwnBulbs DEF Freeing, FoundOff
    <3> QED
      BY <3>1, <3>2, <3>3, StepLights
  <2> QED
    BY <1>1, <2>1, <2>2, <2>3 DEF Next, Occupancy, DisableMotion, EnableMotion, Tick,
       Restart, Advance, vars
<1>2. MotionInv /\ [Next]_vars => [Spared]_vars
  BY <1>1
<1> QED
  BY <1>2, MotionInvariant, PTL DEF Spec, StartupSparesDisabled

\* A step's ON is confirmed by the reports of every member of the room, selected
\* or not, and by nothing else: no group echo, session or tick
\* (switch_step_is_confirmed).
THEOREM StepsAreConfirmedByReports == Spec => StepConfirmedByReports
<1> DEFINE Shown == \A r \in Rooms :
             (/\ zone'[r].cycle # NoCycle /\ zone'[r].target.phase = "Confirmed"
              /\ zone[r].target.phase # "Confirmed"
              /\ zone[r].target.value = "On" /\ zone'[r].target.value = "On")
               => \A m \in Members[r] : light'[m].actual = IF m \in StepAt(r).lights
                                                             THEN "On" ELSE "Off"
<1>1. ASSUME MotionInv, [Next]_vars PROVE Shown
  <2>1. CASE \A r \in Rooms : ZoneStep(r)
    BY <2>1 DEF ZoneStep, ConfirmedNow, StepShown
  <2> HIDE DEF Shown
  <2>2. HouseOK /\ TypeOK /\ SessionOccupied /\ slot \in Slots
        /\ schedule \in [Rooms -> Schedules]
    BY <1>1, TypeHouse DEF MotionInv, TypeOK
  <2>3. CASE LightsNext
    BY <2>1, <2>2, <2>3, LightsEnvelope DEF Envelope
  <2>4. ASSUME NEW s, NEW value, NEW lux, Occupancy(s, value, lux) PROVE Shown
    <3>1. schedule' = schedule
      BY <2>4 DEF Occupancy
    <3> QED
      BY <2>1, <2>2, <2>4, <3>1, OccupancyPlan, SameHouseNow, ZoneOutcome
  <2>5. CASE Tick
    <3>1. schedule' = schedule
      BY <2>5 DEF Tick
    <3> QED
      BY <2>1, <2>2, <2>5, <3>1, TickPlan, SameHouseAged, ZoneOutcome
  <2>6. CASE EnterEventLoop
    <3>1. schedule' = schedule
      BY <2>6 DEF EnterEventLoop
    <3> QED
      BY <2>1, <2>2, <2>6, <3>1, StartupPlan, SameHouseNow, ZoneOutcome
  <2>7. ASSUME NEW r \in Rooms, DisableMotion(r) PROVE Shown
    BY <2>1, <2>2, <2>7, DisableZones
  <2>8. CASE Advance
    BY <2>1, <2>2, <2>8, AdvanceEntities
  <2>9. CASE zone' = zone
    BY <2>9 DEF Shown
  <2>10. CASE Restart
    BY <2>10 DEF Restart, Shown, NewZone
  <2> QED
    BY <1>1, <2>3, <2>4, <2>5, <2>6, <2>7, <2>8, <2>9, <2>10 DEF Next, EnableMotion, vars
<1>2. MotionInv /\ [Next]_vars => [Shown]_vars
  BY <1>1
<1> QED
  BY <1>2, MotionInvariant, PTL DEF Spec, StepConfirmedByReports
=============================================================================
