------------------------------- MODULE Motion -------------------------------
(***************************************************************************)
(* Occupancy sessions on top of Lights: motion rules, their claims on      *)
(* bulbs, the dashboard's motion switch, stale sensors, the startup seed   *)
(* and reset (logic/motion.rs, entities/motion_rule.rs,                    *)
(* entities/motion_sensor.rs, the tick of logic/mod.rs, daemon.rs and      *)
(* daemon/z2m_seed.rs).                                                    *)
(*                                                                         *)
(* Topology validation makes the rules' bulbs disjoint, so the groups two  *)
(* rules command are disjoint as well and a handler that loops over rules  *)
(* acts on each independently: the loops are written as functions over     *)
(* rules.                                                                  *)
(***************************************************************************)
EXTENDS Lights

CONSTANTS TargetsBySlot,   \* rule -> slot -> [group, lights]
          MotionScene,     \* rule -> slot -> first scene of the slot
          Cooldown,        \* off_cooldown_seconds
          SensorStale      \* MOTION_SENSOR_STALE_THRESHOLD

NoOff == -1

RuleLights(rule) == UNION {TargetsBySlot[rule][s].lights : s \in Slots}

ASSUME MotionAssumption ==
  /\ TargetsBySlot \in [Rules -> [Slots -> [group : Rooms \cup {None},
                                             lights : (SUBSET LightIds) \ {{}}]]]
  /\ \A rule \in Rules, s \in Slots :
       TargetsBySlot[rule][s].group # None =>
         TargetsBySlot[rule][s].lights = Members[TargetsBySlot[rule][s].group]
  /\ \A p, q \in Rules : p # q => RuleLights(p) \cap RuleLights(q) = {}
  /\ MotionScene \in [Rules -> [Slots -> Scenes]]
  /\ Cooldown \in 0 .. MaxAge /\ SensorStale \in 1 .. MaxAge

VARIABLES lastOff,    \* rule -> age of its last motion-driven OFF
          disabled    \* settings.disabled_zones, persisted

vars == <<light, zone, after, schedule, slot, sensor, session, running, by,
          lastOff, disabled>>

-----------------------------------------------------------------------------
(* Observers *)

\* motion_allowed_for_light
MotionAllowed(l) == \A r \in disabled : l \notin Members[r]

\* motion_target_is_off
TargetIsOff(t) ==
  LET groupOff == /\ t.group # None
                  /\ zone[t.group].actual = "Off"
                  /\ zone[t.group].target.value # "On"
  IN  \A l \in t.lights : /\ light[l].known
                          /\ light[l].target.value # "On"
                          /\ groupOff \/ light[l].actual = "Off"

\* start_motion_session: the bulbs a new session claims, {} when it is
\* suppressed by light, cooldown or a room already on
Claimable(rule, lux) ==
  LET t       == TargetsBySlot[rule][slot]
      allowed == {l \in t.lights : MotionAllowed(l)}
      cooling == lastOff[rule] # NoOff /\ lastOff[rule] < Cooldown
  IN  IF \/ lux = "bright"
         \/ cooling
         \/ /\ Mode[rule] # "OffOnly" /\ allowed = t.lights
            /\ t.group # None /\ IsOn(zone[t.group])
        THEN {}
      ELSE IF Mode[rule] = "OffOnly" THEN allowed
      ELSE {l \in allowed : ~IsOn(light[l])}

\* start_motion_session and adopt_off_only_group, on a target t whose reading
\* is `on`: take the owner, and the reading when the target means nothing
Claimed(t, on, divergent) ==
  IF t.phase = "Unset" \/ (t.phase = "Stale" /\ divergent)
    THEN Adopted(IF on = "On" THEN "On" ELSE "Off", "Motion")
  ELSE IF t.owner # "Motion" THEN Reassigned(t, "Motion") ELSE t

OwnerOfOn(rule) == IF Mode[rule] = "OnOnly" THEN "User" ELSE "Motion"

\* start_motion_session, a claimed bulb e
LightStarted(e, rule) ==
  LET divergent == /\ e.target.value # None /\ e.actual # None
                   /\ ~Matches(e.target, e.level, e.actual, e.seen)
      t == Claimed(e.target, e.actual, divergent)
  IN  IF Mode[rule] = "OffOnly"
        THEN LightSet(e, t, IF t.phase = e.target.phase THEN e.level ELSE 0)
        ELSE LightSet(e, Commanded("On", OwnerOfOn(rule)), MotionScene[rule][slot])

\* start_motion_session, the group z of a fully claimed target
ZoneStarted(z, rule) ==
  LET t == Claimed(z.target, z.actual, (z.target.value = "On") # (z.actual = "On"))
  IN  IF Mode[rule] = "OffOnly"
        THEN IF t.phase = z.target.phase THEN [z EXCEPT !.target = t] ELSE ZoneSet(z, t, 0, 0)
        ELSE ZoneSet(z, Commanded("On", OwnerOfOn(rule)), MotionScene[rule][slot], 0)

\* A mutant: only bulbs seen on are switched off.
EligibleSeenOn(rule) ==
  {l \in session[rule].claimed \cap session[rule].lights :
     MotionAllowed(l) /\ light[l].target.owner = "Motion" /\ light[l].actual = "On"}

\* finish_motion_session: the bulbs vacancy turns off
Eligible(rule) ==
  {l \in session[rule].claimed \cap session[rule].lights :
     MotionAllowed(l) /\ light[l].target.owner = "Motion"}

-----------------------------------------------------------------------------
(* Sessions *)

\* The group of the target t, when the bulbs L are all of t
WholeGroup(t, L) == IF L = t.lights THEN t.group ELSE None

\* release_motion_session, a bulb or a group
Released(e) ==
  IF e.target.owner = "Motion" THEN [e EXCEPT !.target = Reassigned(@, "System")] ELSE e

\* startup_turn_off_motion_zones: the union of a rule's targets
ResetTarget(rule) ==
  LET whole == {s \in Slots : /\ TargetsBySlot[rule][s].group # None
                              /\ TargetsBySlot[rule][s].lights = RuleLights(rule)}
  IN  [group |-> IF whole = {} THEN None
                 ELSE TargetsBySlot[rule][CHOOSE s \in whole : TRUE].group,
       lights |-> RuleLights(rule)]

\* A mutant: disabled rooms are not asked.
ResetLightsAll(rule) == RuleLights(rule)

\* startup_turn_off_motion_zones: the bulbs it may turn off
ResetLights(rule) == {l \in RuleLights(rule) : MotionAllowed(l)}

NoPlan == [start |-> {}, lux |-> "dark", ended |-> {}, finish |-> {}, reset |-> {},
           owner |-> "Motion", seed |-> FALSE]

\* One handler's work on the bulbs ls and rooms zs: the sessions of plan.ended
\* are released, those of plan.start start (start_motion_session), those of
\* plan.finish finish (finish_motion_session) and the bulbs of plan.reset are
\* turned off (turn_off_motion_lights).  The seed runs at one Instant and its
\* effects are not dispatched.
SessionStep(ls, zs, plan) ==
  LET claim   == [rule \in Rules |-> IF rule \in plan.start THEN Claimable(rule, plan.lux) ELSE {}]
      starts  == {rule \in Rules : claim[rule] # {}}
      dark    == {rule \in plan.finish : session[rule] # NoSession /\ TargetIsOff(session[rule])}
      release == plan.ended \cup dark
      off     == [rule \in Rules |->
                    IF rule \in plan.reset THEN ResetLights(rule)
                    ELSE IF rule \in plan.finish \ dark /\ Mode[rule] # "OnOnly"
                      THEN Eligible(rule) ELSE {}]
      onGroup(rule)  == WholeGroup(TargetsBySlot[rule][slot], claim[rule])
      offGroup(rule) == WholeGroup(IF rule \in plan.reset THEN ResetTarget(rule)
                                                          ELSE session[rule], off[rule])
      lights1 == [l \in LightIds |->
                    IF \E rule \in release : l \in session[rule].lights
                      THEN Released(ls[l]) ELSE ls[l]]
      zones1  == [r \in Rooms |->
                    IF \E rule \in release : r = session[rule].group
                      THEN Released(zs[r]) ELSE zs[r]]
      lights2 == [l \in LightIds |->
                    IF \E rule \in starts : l \in claim[rule]
                      THEN LightStarted(lights1[l], CHOOSE rule \in starts : l \in claim[rule])
                    ELSE IF \E rule \in Rules : l \in off[rule]
                      THEN LightSet(ls[l], Commanded("Off", plan.owner), 0)
                    ELSE lights1[l]]
      zones2  == [r \in Rooms |->
                    IF \E rule \in starts : r = onGroup(rule)
                      THEN ZoneStarted(zones1[r], CHOOSE rule \in starts : r = onGroup(rule))
                    ELSE IF \E rule \in Rules : r = offGroup(rule)
                      THEN ZoneSet(zs[r], Commanded("Off", plan.owner), 0, 0)
                    ELSE zones1[r]]
      sent    == (UNION {off[rule] : rule \in Rules})
                 \cup (UNION {claim[rule] : rule \in {q \in starts : Mode[q] # "OffOnly"}})
      groups  == {offGroup(rule) : rule \in Rules}
                 \cup {onGroup(rule) : rule \in {q \in starts : Mode[q] # "OffOnly"}}
      handed(old, new) == new # old /\ ~IsActionable(old)
  IN  /\ light' = lights2
      /\ zone' = zones2
      /\ IF plan.seed THEN UNCHANGED <<after, by>>
         ELSE /\ Stamp(sent \cup groups
                       \cup {l \in LightIds : handed(ls[l].target, lights1[l].target)
                                              \/ handed(lights1[l].target, lights2[l].target)}
                       \cup {r \in Rooms : handed(zs[r].target, zones1[r].target)
                                           \/ handed(zones1[r].target, zones2[r].target)})
              /\ Publish(sent, "Motion")
      /\ session' = [rule \in Rules |->
                       IF rule \in starts
                         THEN [group |-> TargetsBySlot[rule][slot].group,
                               lights |-> TargetsBySlot[rule][slot].lights,
                               claimed |-> claim[rule]]
                       ELSE IF rule \in plan.finish \cup plan.ended THEN NoSession
                       ELSE session[rule]]
      /\ lastOff' = [rule \in Rules |->
                       IF rule \in plan.finish /\ off[rule] # {} THEN 0 ELSE lastOff[rule]]

\* A mutant: occupancy is looked up before the report is recorded.
FinishedByBefore(s, sns) == {rule \in Rules : s \in SensorsOf[rule] /\ ~RuleOccupied(rule)}

\* handle_occupancy: a clear report ends a session once no sensor is occupied.
FinishedBy(s, sns) == {rule \in Rules : s \in SensorsOf[rule] /\ ~OccupiedIn(sns, rule)}

\* handle_occupancy
Occupancy(s, value, lux) ==
  LET sns    == [sensor EXCEPT ![s] = Observed(value)]
      repeat == IF value = "occupied" THEN SensorOccupied(sensor[s])
                                      ELSE sensor[s].value = "clear"
      mine   == {rule \in Rules : s \in SensorsOf[rule]}
      ended  == {rule \in mine : /\ session[rule] # NoSession /\ ~RuleOccupied(rule)
                                 /\ TargetIsOff(session[rule])}
      fresh  == {rule \in mine : session[rule] = NoSession} \cup ended
      plan   == IF value = "occupied"
                  THEN [NoPlan EXCEPT !.start = fresh, !.ended = ended, !.lux = lux,
                                      !.seed = ~running]
                  ELSE [NoPlan EXCEPT !.finish = FinishedBy(s, sns), !.seed = ~running]
  IN  /\ sensor' = sns
      /\ SessionStep(light, zone, IF repeat THEN NoPlan ELSE plan)
      /\ UNCHANGED <<schedule, slot, running, disabled>>

\* validate_motion_zone and ResolvedRoom::has_motion_sensor
HasMotionSensor(r) ==
  \E rule \in Rules : SensorsOf[rule] # {} /\ RuleLights(rule) \cap Members[r] # {}

\* A mutant: the claims of the sessions survive.
DisableKeepsClaims(r) ==
  /\ running /\ "enable" \in Inputs /\ HasMotionSensor(r)
  /\ disabled' = disabled \cup {r}
  /\ light' = [l \in LightIds |-> IF l \in Members[r] THEN Released(light[l]) ELSE light[l]]
  /\ UNCHANGED <<zone, after, schedule, slot, sensor, session, running, by, lastOff>>

\* set_motion_enabled(room, false): claims on the room's bulbs are released.
DisableMotion(r) ==
  /\ running /\ "enable" \in Inputs /\ HasMotionSensor(r)
  /\ disabled' = disabled \cup {r}
  /\ light' = [l \in LightIds |-> IF l \in Members[r] THEN Released(light[l]) ELSE light[l]]
  /\ zone' = [q \in Rooms |->
                IF \E rule \in Rules : /\ session[rule].group = q
                                       /\ session[rule].lights \cap Members[r] # {}
                  THEN Released(zone[q]) ELSE zone[q]]
  /\ session' = [rule \in Rules |->
                   IF session[rule].claimed \subseteq Members[r] THEN NoSession
                   ELSE [session[rule] EXCEPT !.claimed = @ \ Members[r]]]
  /\ Stamp({l \in LightIds : light'[l] # light[l] /\ ~IsActionable(light[l].target)}
           \cup {q \in Rooms : zone'[q] # zone[q] /\ ~IsActionable(zone[q].target)})
  /\ UNCHANGED <<schedule, slot, sensor, running, by, lastOff>>

\* set_motion_enabled(room, true)
EnableMotion(r) ==
  /\ running /\ "enable" \in Inputs /\ HasMotionSensor(r)
  /\ disabled' = disabled \ {r}
  /\ UNCHANGED <<light, zone, after, schedule, slot, sensor, session, running, by, lastOff>>

-----------------------------------------------------------------------------
(* Clock, startup, restart *)

Aged(e) == [e EXCEPT !.target = TargetAged(@, LightStale)]

\* A mutant: a stale sensor ends no session.
FinishedByNoTick(sns) == {}

\* evaluate_actual_staleness: rules whose last occupied sensor went stale
FinishedByTick(sns) ==
  {rule \in Rules : /\ \E s \in SensorsOf[rule] : sns[s] # sensor[s]
                    /\ ~OccupiedIn(sns, rule)}

\* handle_tick: target staleness, then sensor staleness
Tick ==
  LET sns == [s \in Sensors |-> ActualAged(sensor[s], SensorStale)]
  IN  /\ running
      /\ sensor' = sns
      /\ SessionStep([l \in LightIds |-> Aged(light[l])], [r \in Rooms |-> Aged(zone[r])],
                     [NoPlan EXCEPT !.finish = FinishedByTick(sns), !.owner = "System"])
      /\ UNCHANGED <<schedule, slot, running, disabled>>

\* startup_turn_off_motion_zones: a rule some bulb or group of which is on
ObservedOn(rule) ==
  \/ \E l \in RuleLights(rule) : light[l].actual = "On"
  \/ \E s \in Slots : /\ TargetsBySlot[rule][s].group # None
                      /\ zone[TargetsBySlot[rule][s].group].actual = "On"

\* startup_turn_off_motion_zones, then run_event_loop
EnterEventLoop ==
  LET lit   == {rule \in Rules : Mode[rule] # "OnOnly" /\ ObservedOn(rule)}
      adopt == {rule \in lit : Mode[rule] = "OffOnly" /\ RuleOccupied(rule)}
  IN  /\ ~running
      /\ running' = TRUE
      /\ SessionStep(light, zone, [NoPlan EXCEPT !.start = adopt, !.reset = lit \ adopt,
                                                 !.owner = "System"])
      /\ UNCHANGED <<schedule, slot, sensor, disabled>>

\* A fresh process; settings survive a restart.
FreshState ==
  /\ light = [l \in LightIds |-> NewLight]
  /\ zone = [r \in Rooms |-> NewZone]
  /\ after = [l \in LightIds |-> {}]
  /\ sensor = [s \in Sensors |-> UnknownActual(None)]
  /\ session = [rule \in Rules |-> NoSession]
  /\ lastOff = [rule \in Rules |-> NoOff]
  /\ running = FALSE
  /\ by = [l \in LightIds |-> None]

Init ==
  /\ FreshState
  /\ schedule = Deployed
  /\ slot \in Slots
  /\ disabled = {}

Restart ==
  /\ "restart" \in Inputs
  /\ light' = [l \in LightIds |-> NewLight]
  /\ zone' = [r \in Rooms |-> NewZone]
  /\ after' = [l \in LightIds |-> {}]
  /\ sensor' = [s \in Sensors |-> UnknownActual(None)]
  /\ session' = [rule \in Rules |-> NoSession]
  /\ lastOff' = [rule \in Rules |-> NoOff]
  /\ running' = FALSE
  /\ by' = [l \in LightIds |-> None]
  /\ UNCHANGED <<schedule, slot, disabled>>

\* Only the age of a commanded target is ever looked at.
InFlightOlder(e) ==
  IF e.target.phase = "Commanded" THEN [e EXCEPT !.target = TargetOlder(@)] ELSE e

ElapsedOlder(age) == IF age = -1 THEN age ELSE Older(age)

\* The clock; the seed and the startup reset follow each other at once.
Advance ==
  /\ running
  /\ light' = [l \in LightIds |-> InFlightOlder(light[l])]
  /\ zone' = [r \in Rooms |-> [InFlightOlder(zone[r]) EXCEPT !.press = ElapsedOlder(@)]]
  /\ sensor' = [s \in Sensors |-> IF sensor[s].freshness = "Fresh" THEN ActualOlder(sensor[s])
                                                                   ELSE sensor[s]]
  /\ lastOff' = [rule \in Rules |-> ElapsedOlder(lastOff[rule])]
  /\ UNCHANGED <<after, schedule, slot, session, running, by, disabled>>

Next ==
  \/ LightsNext /\ UNCHANGED <<lastOff, disabled>>
  \/ \E s \in Sensors : Occupancy(s, "occupied", "dark")
  \/ \E s \in Sensors : "bright" \in Inputs /\ Occupancy(s, "occupied", "bright")
  \/ \E s \in Sensors : Occupancy(s, "clear", "dark")
  \/ \E r \in Rooms : DisableMotion(r)
  \/ \E r \in Rooms : EnableMotion(r)
  \/ Tick
  \/ EnterEventLoop
  \/ Restart
  \/ Advance

Spec == Init /\ [][Next]_vars

\* Startup completes, the interval timer keeps ticking and time passes.
FairSpec == Spec /\ WF_vars(EnterEventLoop) /\ WF_vars(Tick) /\ WF_vars(Advance)

-----------------------------------------------------------------------------
(* Properties *)

\* A target has an owner exactly when it has a value.
TargetOwned(t) == (t.phase = "Unset" <=> t.owner = None) /\ (t.owner = None <=> t.value = None)

\* Every variable has its type and no target lacks its owner.
TypeOK ==
  /\ \A l \in LightIds : TargetOwned(light[l].target)
  /\ \A r \in Rooms : TargetOwned(zone[r].target)
  /\ light \in [LightIds -> LightEntity]
  /\ zone \in [Rooms -> ZoneEntity]
  /\ after \in [LightIds -> SUBSET Targets]
  /\ schedule \in [Rooms -> Schedules]
  /\ slot \in Slots
  /\ sensor \in [Sensors -> TassActual({"occupied", "clear", None})]
  /\ session \in [Rules -> [group : Rooms \cup {None}, lights : SUBSET LightIds,
                            claimed : SUBSET LightIds]]
  /\ lastOff \in [Rules -> Ages \cup {NoOff}]
  /\ disabled \subseteq Rooms
  /\ running \in BOOLEAN
  /\ by \in [LightIds -> {"Manual", "Motion", "AllOff", None}]

\* A session never outlives the occupancy that started it: while one exists,
\* some sensor of its rule is fresh and occupied (handle_occupancy and
\* evaluate_actual_staleness end it in the very handler that ends occupancy).
SessionOccupied ==
  \A rule \in Rules : session[rule] # NoSession => RuleOccupied(rule)

\* While an off-only session is live, its bulbs stay with motion whatever is
\* pressed, echoed, reported or switched by schedule, so that vacancy will turn
\* them off (light_has_off_only_claim).
OffOnlyClaimHeld ==
  \A l \in LightIds : OffOnlyClaim(l) => light[l].target.owner = "Motion"

\* No zombie claims: a bulb that motion has lit, or holds lit, belongs to a
\* session that will release it or turn it off.  There is one exception: the
\* startup reset replaces the session that the seed has started for an off-only
\* rule, and when the slot has changed in between, the bulbs that only the
\* earlier target has stay with motion (startup_turn_off_motion_zones).
MotionLitIsClaimed ==
  \A l \in LightIds :
    (light[l].target.owner = "Motion" /\ light[l].target.value = "On")
      => \E rule \in Rules :
           \/ l \in session[rule].claimed
           \/ /\ Mode[rule] = "OffOnly" /\ l \in RuleLights(rule)
              /\ \E s \in Slots : l \notin TargetsBySlot[rule][s].lights

\* docs/motion.md: vacancy never turns off bulbs that manual commands took
\* over.  An automatic OFF to a bulb last commanded by hand is only sent for an
\* off-only rule, whose claim manual commands do not end.
VacancySparesManual ==
  [][\A l \in LightIds :
       (by[l] = "Manual" /\ by'[l] = "Motion" /\ light'[l].target.value = "Off")
         => \E rule \in Rules : Mode[rule] = "OffOnly" /\ l \in RuleLights(rule)]_vars

\* A disabled room's bulbs belong to no session and to no motion owner, in
\* every rule and every overlapping room (set_motion_enabled,
\* motion_allowed_for_light), hence no vacancy or stale sensor commands them.
DisabledReleased ==
  \A r \in disabled : \A l \in Members[r] :
    /\ light[l].target.owner # "Motion"
    /\ \A rule \in Rules : l \notin session[rule].claimed

\* Neither does the startup reset, and it never adopts them.
StartupSparesDisabled ==
  [][(~running /\ running') =>
       \A r \in disabled : \A l \in Members[r] : light'[l] = light[l]]_vars

\* The cursor of a room always stands on a step of its effective schedule,
\* although overrides replace the steps, slots change and handlers index the
\* steps without a check (switch_step_is_confirmed, switch_step_is_off,
\* execute_switch_brightness); and its room has a target.
CursorValid ==
  \A r \in Rooms : zone[r].cycle # NoCycle =>
    /\ zone[r].cycle.slot \in DOMAIN schedule[r].steps
    /\ zone[r].cycle.step < Len(schedule[r].steps[zone[r].cycle.slot])
    /\ zone[r].target.phase # "Unset"

\* docs/switches.md: the ON of a step is confirmed only by reports that show
\* every selected bulb on and every excluded one off.  (A stale target that the
\* group's reading contradicts may be replaced by an off-only session while the
\* cursor stays; that confirms another target, not the step's.)
StepConfirmedByReports ==
  [][\A r \in Rooms :
       (/\ zone'[r].cycle # NoCycle /\ zone'[r].target.phase = "Confirmed"
        /\ zone[r].target.phase # "Confirmed"
        /\ zone[r].target.value = "On" /\ zone'[r].target.value = "On")
         => \A m \in Members[r] : light'[m].actual = IF m \in StepAt(r).lights
                                                       THEN "On" ELSE "Off"]_vars

\* A report of sensor s is handled and changes its reading.
HeardFrom(s) ==
  /\ sensor'[s].freshness = "Fresh"
  /\ \/ sensor'[s].value # sensor[s].value
     \/ sensor[s].freshness # "Fresh"
     \/ sensor'[s].age < sensor[s].age

\* A session cannot live on silence: only a rule whose sensors keep reporting
\* has a session again and again.
SessionsEnd ==
  \A rule \in Rules :
    []<>(session[rule] # NoSession) => []<><<\E s \in SensorsOf[rule] : HeardFrom(s)>>_vars
=============================================================================
