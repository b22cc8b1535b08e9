------------------------------- MODULE Lights -------------------------------
(***************************************************************************)
(* Rooms (Zigbee groups) and their bulbs: scene cycles, toggles, switch    *)
(* steps, brightness, group echoes, bulb reports and dashboard commands    *)
(* (logic/lights.rs, logic/switch_steps.rs, entities/light.rs,             *)
(* entities/light_zone.rs, the room commands of logic/mod.rs and           *)
(* TurnOffAllZones of logic/buttons.rs).  Motion extends this module with  *)
(* the occupancy sessions that share the targets modelled here.            *)
(*                                                                         *)
(* A scene stands for the brightness and colour it sets.  The code orders  *)
(* reports and commands by their Instants; `after` keeps exactly the order *)
(* it asks about.  last_off_at and the zone's last_motion_off_at are only  *)
(* displayed and are left out.  All schedules name the same slots and      *)
(* change slot together.                                                   *)
(***************************************************************************)
EXTENDS Tass, Sequences

CONSTANTS LightIds,      \* bulbs
          Rooms,
          Members,       \* room -> bulbs: light_members
          Descendants,   \* room -> rooms: descendants_of
          Scenes,        \* scene ids of the rooms
          Slots,         \* names of the schedule slots
          Schedules,     \* room schedules: the deployed one and overrides
          Deployed,      \* room -> its deployed schedule
          Rules,         \* motion rules
          Mode,          \* rule -> "OnOff" | "OnOnly" | "OffOnly"
          Sensors,
          SensorsOf,     \* rule -> sensors
          CycleWindow,   \* cycle_window_seconds
          LightStale,    \* TARGET_STALE_THRESHOLD
          Inputs         \* bound: the inputs a run explores

Selections == (SUBSET LightIds) \ {{}}

\* A schedule: the scenes of each slot and, for some slots, switch steps.
ASSUME LightsAssumption ==
  /\ Members \in [Rooms -> SUBSET LightIds]
  /\ Descendants \in [Rooms -> SUBSET Rooms]
  /\ Scenes \subseteq Nat \ {0}
  /\ None \notin Rooms \cup Slots
  /\ \A s \in Schedules :
       /\ s.scenes \in [Slots -> Seq(Scenes)]
       /\ DOMAIN s.steps \subseteq Slots
       /\ \A t \in DOMAIN s.steps :
            /\ s.steps[t] \in Seq([scene : Scenes, lights : Selections])
            /\ s.steps[t] # <<>>
  /\ Deployed \in [Rooms -> Schedules]
  /\ Mode \in [Rules -> {"OnOff", "OnOnly", "OffOnly"}]
  /\ SensorsOf \in [Rules -> SUBSET Sensors]
  /\ CycleWindow \in 1 .. MaxAge /\ LightStale \in 1 .. MaxAge

VARIABLES light,      \* world.lights
          zone,       \* world.light_zones
          after,      \* bulb -> the targets its last report does not precede
          schedule,   \* room -> effective schedule; overrides are persisted
          slot,       \* the slot of the wall clock
          sensor,     \* world.motion_sensors
          session,    \* world.motion_rules: the occupancy session of a rule
          running,    \* the event loop has been entered
          by          \* history: who last published a command to a bulb

NoPress   == -1
NoCycle   == [slot |-> None, step |-> 0]
NoSession == [group |-> None, lights |-> {}, claimed |-> {}]

Switch  == {"On", "Off"}
Levels  == Scenes \cup {0}        \* 0: no brightness asked for or reported, or off
Targets == LightIds \cup Rooms    \* what carries a target

\* known: the entity exists in the map, where entities are created on use
LightEntity == [known : BOOLEAN, target : TassTarget(Switch), level : Levels,
                actual : Switch \cup {None}, seen : Levels]

ZoneEntity  == [target : TassTarget(Switch), scene : Levels, idx : Nat,
                actual : Switch \cup {None},
                cycle : [slot : Slots \cup {None}, step : Nat],
                press : Ages \cup {NoPress}]

NewLight == [known |-> FALSE, target |-> UnsetTarget, level |-> 0, actual |-> None,
             seen |-> 0]

NewZone == [target |-> UnsetTarget, scene |-> 0, idx |-> 0, actual |-> None,
            cycle |-> NoCycle, press |-> NoPress]

-----------------------------------------------------------------------------
(* Observers *)

\* LightEntity::is_on and LightZoneEntity::is_on, optimistic
IsOn(e) == e.target.value = "On" \/ e.actual = "On"

\* LightTarget::matches
Matches(t, level, on, seen) ==
  \/ t.value = "Off" /\ on = "Off"
  \/ t.value = "On" /\ on = "On" /\ level \in {0, seen}

RoomsOf(l) == {r \in Rooms : l \in Members[r]}

\* MotionSensorEntity::is_occupied: a stale reading does not count.
SensorOccupied(reading) ==
  reading.freshness = "Fresh" /\ reading.value = "occupied"

\* motion_rule_occupied, for the readings sns
OccupiedIn(sns, rule) == \E s \in SensorsOf[rule] : SensorOccupied(sns[s])

RuleOccupied(rule) == OccupiedIn(sensor, rule)

\* light_has_off_only_claim
OffOnlyClaim(l) ==
  \E rule \in Rules : /\ Mode[rule] = "OffOnly"
                      /\ RuleOccupied(rule)
                      /\ l \in session[rule].claimed

\* A mutant: the claim of a live off-only session is not looked up.
OwnerUnclaimed(l, who) == who

\* The owner of a command to a bulb, in record_group_light_command and in the
\* per-bulb commands
LightOwner(l, who) == IF OffOnlyClaim(l) THEN "Motion" ELSE who

\* off_only_session_live and resolve_zone_owner
ZoneOwner(r, who) ==
  IF Members[r] # {} /\ \A l \in Members[r] : OffOnlyClaim(l)
    THEN "Motion" ELSE who

ScenesNow(r) == schedule[r].scenes[slot]

\* active_switch_steps
HasSteps(r) == slot \in DOMAIN schedule[r].steps
StepsNow(r) == schedule[r].steps[slot]

\* The step the room's cursor stands on
StepAt(r) == schedule[r].steps[zone[r].cycle.slot][zone[r].cycle.step + 1]

-----------------------------------------------------------------------------
(* Commands *)

\* Targets stamped now are younger than every report so far.
Stamp(stamped) == after' = [l \in LightIds |-> after[l] \ stamped]

Publish(L, who) == by' = [l \in LightIds |-> IF l \in L THEN who ELSE by[l]]

LightSet(e, t, level) == [e EXCEPT !.known = TRUE, !.target = t, !.level = level]

\* record_group_light_command, and set_and_command on the bulbs of L
LightsCommanded(L, value, level, who) ==
  [l \in LightIds |->
     IF l \in L THEN LightSet(light[l], Commanded(value, LightOwner(l, who)), level)
                ELSE light[l]]

ZoneSet(z, t, scene, idx) ==
  [z EXCEPT !.target = t, !.scene = scene, !.idx = idx]

\* propagate_to_descendants, on the zones zs
Propagated(zs, r, on) ==
  [q \in Rooms |->
     IF q \in Descendants[r]
       THEN [ZoneSet(zs[q], Commanded(on, ZoneOwner(q, "System")), 0, 0) EXCEPT
               !.cycle = NoCycle, !.actual = on, !.press = NoPress]
       ELSE zs[q]]

\* write_after_on and propagate_to_descendants: a scene for the whole group
GroupOn(r, scene, idx, who) ==
  LET z == [ZoneSet(zone[r], Commanded("On", ZoneOwner(r, who)), scene, idx)
              EXCEPT !.press = 0, !.cycle = NoCycle]
  IN  /\ light' = LightsCommanded(Members[r], "On", scene, who)
      /\ zone' = Propagated([zone EXCEPT ![r] = z], r, "On")
      /\ Stamp(Members[r] \cup {r} \cup Descendants[r])
      /\ Publish(Members[r], "Manual")

\* publish_off: write_after_off and propagate_to_descendants
GroupOff(r, who) ==
  LET z == [ZoneSet(zone[r], Commanded("Off", ZoneOwner(r, who)), 0, 0)
              EXCEPT !.press = 0, !.cycle = NoCycle]
  IN  /\ light' = LightsCommanded(Members[r], "Off", 0, who)
      /\ zone' = Propagated([zone EXCEPT ![r] = z], r, "Off")
      /\ Stamp(Members[r] \cup {r} \cup Descendants[r])
      /\ Publish(Members[r], "Manual")

Nothing == UNCHANGED <<light, zone, after, by>>

\* What no manual command touches
Apart == UNCHANGED <<schedule, slot, sensor, session, running>>

WithinWindow(r) == zone[r].press # NoPress /\ zone[r].press < CycleWindow

-----------------------------------------------------------------------------
(* Switch steps *)

\* execute_switch_steps, the selected step: every member gets a command.
ApplyStep(r, index) ==
  LET step == StepsNow(r)[index + 1]
      on(l) == l \in step.lights
  IN  /\ light' = [l \in LightIds |->
                     IF l \in Members[r]
                       THEN LightSet(light[l],
                                     Commanded(IF on(l) THEN "On" ELSE "Off",
                                               LightOwner(l, "User")),
                                     IF on(l) THEN step.scene ELSE 0)
                       ELSE light[l]]
      /\ zone' = [zone EXCEPT ![r] =
                    [ZoneSet(@, Commanded("On", ZoneOwner(r, "User")), step.scene, index)
                       EXCEPT !.cycle = [slot |-> slot, step |-> index],
                              !.press = 0]]
      /\ Stamp(Members[r] \cup {r})
      /\ Publish(Members[r], "Manual")

\* execute_switch_steps: a commanded OFF counts as off before it is observed.
SwitchSteps(r, action) ==
  LET z  == zone[r]
      on == IsOn(z) /\ ~(IsActionable(z.target) /\ z.target.value = "Off")
      turnOff == /\ on
                 /\ \/ action = "Toggle"
                    \/ action = "ToggleCycle" /\ ~WithinWindow(r)
      index == IF on /\ z.target.value = "On" /\ z.cycle.slot = slot
                 THEN (z.cycle.step + 1) % Len(StepsNow(r)) ELSE 0
  IN  IF turnOff THEN GroupOff(r, "User") ELSE ApplyStep(r, index)

\* light_is_effectively_on
EffectivelyOn(l) ==
  IF IsActionable(light[l].target) THEN light[l].target.value = "On"
                                   ELSE light[l].actual = "On"

\* switch_step_down_delta: the bulbs step i added, {} when step i is not a
\* lit same-scene expansion of the step before it (steps count from 0)
StepDelta(r, i) ==
  IF i < 1 \/ i >= Len(StepsNow(r)) THEN {}
  ELSE LET now   == StepsNow(r)[i + 1]
           prev  == StepsNow(r)[i]
           added == now.lights \ prev.lights
       IN  IF /\ now.scene = prev.scene
              /\ prev.lights \subseteq now.lights
              /\ \A l \in prev.lights : EffectivelyOn(l)
              /\ \E l \in added : EffectivelyOn(l)
             THEN added ELSE {}

\* execute_scene_step_down, the expansion i is undone
UndoStep(r, i, follows) ==
  LET z     == zone[r]
      owner == ZoneOwner(r, "User")
      prev  == StepsNow(r)[i]
      next  ==
        IF follows
          THEN [ZoneSet(z, Commanded("On", owner), prev.scene, i - 1)
                  EXCEPT !.cycle = [slot |-> slot, step |-> i - 1]]
        ELSE IF z.target.value = "On"
          THEN [z EXCEPT !.target = Reassigned(@, owner), !.cycle = NoCycle]
        ELSE [ZoneSet(z, Adopted("On", owner), 0, 0) EXCEPT !.cycle = NoCycle]
      restamped == ~(~follows /\ z.target.value = "On" /\ IsActionable(z.target))
  IN  /\ light' = LightsCommanded(StepDelta(r, i), "Off", 0, "User")
      /\ zone' = [zone EXCEPT ![r] = [next EXCEPT !.press = 0]]
      /\ Stamp(StepDelta(r, i) \cup (IF restamped THEN {r} ELSE {}))
      /\ Publish(StepDelta(r, i), "Manual")

\* execute_scene_step_down
SceneStepDown(r) ==
  /\ running /\ "step_down" \in Inputs
  /\ LET z       == zone[r]
         current == IF z.cycle.slot = slot THEN z.cycle.step ELSE 0
         found   == {i \in 1 .. Len(StepsNow(r)) - 1 : StepDelta(r, i) # {}}
         follows == current \in found
         i       == IF follows THEN current
                    ELSE CHOOSE j \in found : \A k \in found : j =< k
     IN  IF \/ ~HasSteps(r)
            \/ found = {}
            \/ ~follows /\ IsActionable(z.target) /\ z.target.value # "On"
           THEN GroupOff(r, "User")
           ELSE UndoStep(r, i, follows)
  /\ Apart

-----------------------------------------------------------------------------
(* Wall switches *)

\* execute_group_scene_cycle
GroupSceneCycleOf(r) ==
  LET z    == zone[r]
      s    == ScenesNow(r)
      here == {i \in 1 .. Len(s) : z.target.value = "On" /\ s[i] = z.scene}
      idx  == IF ~IsOn(z) THEN 0
              ELSE IF z.cycle = NoCycle THEN (z.idx + 1) % Len(s)
              ELSE IF here = {} THEN 0
              ELSE (CHOOSE i \in here : \A j \in here : i =< j) % Len(s)
  IN  IF s = <<>> THEN Nothing ELSE GroupOn(r, s[idx + 1], idx, "User")

GroupSceneCycle(r) ==
  /\ running /\ "group_cycle" \in Inputs
  /\ GroupSceneCycleOf(r)
  /\ Apart

\* execute_scene_cycle
SceneCycle(r) ==
  /\ running /\ "cycle" \in Inputs
  /\ IF HasSteps(r) THEN SwitchSteps(r, "Cycle") ELSE GroupSceneCycleOf(r)
  /\ Apart

\* execute_scene_toggle
SceneToggle(r) ==
  /\ running /\ "toggle" \in Inputs
  /\ IF HasSteps(r) THEN SwitchSteps(r, "Toggle")
     ELSE IF ScenesNow(r) = <<>> THEN Nothing
     ELSE IF ~IsOn(zone[r]) THEN GroupOn(r, ScenesNow(r)[1], 0, "User")
     ELSE GroupOff(r, "User")
  /\ Apart

\* execute_scene_toggle_cycle
SceneToggleCycle(r) ==
  /\ running /\ "toggle_cycle" \in Inputs
  /\ LET s   == ScenesNow(r)
         idx == IF IsOn(zone[r]) /\ zone[r].cycle = NoCycle
                  THEN (zone[r].idx + 1) % Len(s) ELSE 0
     IN  IF HasSteps(r) THEN SwitchSteps(r, "ToggleCycle")
         ELSE IF s = <<>> THEN Nothing
         ELSE IF ~IsOn(zone[r]) \/ WithinWindow(r)
                THEN GroupOn(r, s[idx + 1], idx, "User")
         ELSE GroupOff(r, "User")
  /\ Apart

\* execute_turn_off_room
TurnOffRoom(r) ==
  /\ running /\ "off" \in Inputs
  /\ GroupOff(r, "User")
  /\ Apart

\* A mutant: brightness leaves the owner of lit bulbs alone.
DimmedInPlace(l) ==
  IF IsOn(light[l])
    THEN LightSet(light[l], Commanded("On", IF light[l].target.owner = "Motion"
                                              THEN "Motion" ELSE "User"), 0)
  ELSE LightSet(light[l], Reassigned(light[l].target, LightOwner(l, "User")), light[l].level)

\* A mutant: a bulb without a target gets an owner.
DimmedUnset(l) ==
  IF IsOn(light[l]) THEN LightSet(light[l], Commanded("On", LightOwner(l, "User")), 0)
  ELSE [light[l] EXCEPT !.known = TRUE, !.target.owner = LightOwner(l, "User")]

\* take_over_group_brightness, one bulb
Dimmed(l) ==
  IF IsOn(light[l])
    THEN LightSet(light[l], Commanded("On", LightOwner(l, "User")), 0)
    ELSE LightSet(light[l], Reassigned(light[l].target, LightOwner(l, "User")), light[l].level)

\* execute_brightness_step, _move and _stop: they change state alike.  With a
\* cursor, execute_switch_brightness commands the step's bulbs.
Brightness(r) ==
  /\ running /\ "dim" \in Inputs
  /\ LET stepped == zone[r].cycle # NoCycle
         L       == IF stepped THEN StepAt(r).lights ELSE Members[r]
         kept    == {l \in L : ~stepped /\ ~IsOn(light[l]) /\ IsActionable(light[l].target)}
     IN  /\ light' = IF stepped THEN LightsCommanded(L, "On", 0, "User")
                     ELSE [l \in LightIds |-> IF l \in L THEN Dimmed(l) ELSE light[l]]
         /\ zone' = [zone EXCEPT ![r].target = Reassigned(@, ZoneOwner(r, "User"))]
         /\ Stamp((L \ kept) \cup (IF IsActionable(zone[r].target) THEN {} ELSE {r}))
         /\ Publish(L, "Manual")
  /\ Apart

\* ResolvedEffect::TurnOffAllZones: the bulbs' own targets are left alone.
TurnOffAllZones ==
  /\ running /\ "all_off" \in Inputs
  /\ LET lit == {r \in Rooms : IsOn(zone[r])}
     IN  /\ zone' = [r \in Rooms |->
                       IF r \in lit
                         THEN [ZoneSet(zone[r], Commanded("Off", ZoneOwner(r, "Schedule")), 0, 0)
                                 EXCEPT !.press = NoPress]
                         ELSE zone[r]]
         /\ Stamp(lit)
         /\ Publish(UNION {Members[r] : r \in lit}, "AllOff")
  /\ UNCHANGED light
  /\ Apart

-----------------------------------------------------------------------------
(* Dashboard *)

\* web_recall_scene
WebRecallScene(r, scene) ==
  /\ running /\ "recall" \in Inputs
  /\ LET s    == ScenesNow(r)
         here == {i \in 1 .. Len(s) : s[i] = scene}
         idx  == IF here = {} THEN 0
                 ELSE (CHOOSE i \in here : \A j \in here : i =< j) - 1
     IN  GroupOn(r, scene, idx, "WebUI")
  /\ Apart

\* web_set_room_off
WebSetRoomOff(r) ==
  /\ running /\ "web_off" \in Inputs
  /\ GroupOff(r, "WebUI")
  /\ Apart

\* A mutant: the cursor into the previous steps is kept.
ApplyRoomOverrideKeepsCursor(r, s) ==
  /\ running /\ "override" \in Inputs
  /\ schedule' = [schedule EXCEPT ![r] = s]
  /\ UNCHANGED <<light, zone, after, slot, sensor, session, running, by>>

\* apply_room_override
ApplyRoomOverride(r, s) ==
  /\ running /\ "override" \in Inputs
  /\ schedule' = [schedule EXCEPT ![r] = s]
  /\ zone' = [zone EXCEPT ![r].cycle = NoCycle]
  /\ UNCHANGED <<light, after, slot, sensor, session, running, by>>

-----------------------------------------------------------------------------
(* Reports.  Until the event loop runs they are the startup seed. *)

\* record_light_state
RecordedLight(l, on, seen) ==
  LET e  == light[l]
      t1 == TargetAged(e.target, LightStale)
      gone  == on = "Off" /\ t1.value = "On" /\ ~IsActionable(t1)
      t2    == IF gone THEN Adopted("Off", LightOwner(l, "System")) ELSE t1
      level == IF gone THEN 0 ELSE e.level
      t3 == IF Matches(t2, level, on, seen) /\ t2.phase \in {"Commanded", "Stale"}
              THEN Confirmed(t2) ELSE t2
  IN  [known |-> TRUE, target |-> t3, level |-> level, actual |-> on, seen |-> seen]

\* A mutant: a step counts as confirmed once its selected bulbs match.
StepConfirmedSelected(r, ls, aft) ==
  zone[r].cycle # NoCycle =>
    \A m \in StepAt(r).lights : /\ ls[m].target.value = "On"
                                /\ Matches(ls[m].target, ls[m].level, ls[m].actual, ls[m].seen)
                                /\ m \in aft[m]

\* switch_step_is_confirmed, for the bulbs ls and their report order aft
StepConfirmed(r, ls, aft) ==
  zone[r].cycle # NoCycle =>
    \A m \in Members[r] :
      /\ ls[m].target.value = IF m \in StepAt(r).lights THEN "On" ELSE "Off"
      /\ Matches(ls[m].target, ls[m].level, ls[m].actual, ls[m].seen)
      /\ m \in aft[m]

\* switch_step_is_off
StepIsOff(r, ls, aft) ==
  /\ zone[r].cycle # NoCycle
  /\ \A m \in StepAt(r).lights : ls[m].actual = "Off" /\ r \in aft[m]

\* handle_light_state, one room of the reporting bulb: one ON proves the room
\* on, OFF takes every member; the evidence keeps its own age.
ZoneFromLights(r, ls, aft) ==
  LET z   == zone[r]
      lit == {m \in Members[r] : ls[m].actual = "On"}
      on  == IF lit # {} THEN "On"
             ELSE IF \E m \in Members[r] : ls[m].actual = None THEN None ELSE "Off"
      follows == IF lit # {} THEN \E m \in lit : r \in aft[m]
                             ELSE \A m \in Members[r] : r \in aft[m]
      t1  == TargetAged(z.target, LightStale)
      gone == /\ on = "Off" /\ t1.value = "On" /\ ~IsActionable(t1)
              /\ follows \/ StepIsOff(r, ls, aft)
      z1  == IF gone
               THEN [ZoneSet(z, Adopted("Off", ZoneOwner(r, "System")), 0, 0)
                       EXCEPT !.cycle = NoCycle]
               ELSE [z EXCEPT !.target = t1]
      current == IF z1.cycle # NoCycle THEN StepConfirmed(r, ls, aft) ELSE follows
      t2  == IF /\ z1.target.value = on /\ current
                /\ z1.target.phase \in {"Commanded", "Stale"}
               THEN Confirmed(z1.target) ELSE z1.target
  IN  IF on = None THEN [z EXCEPT !.actual = None]
                   ELSE [z1 EXCEPT !.target = t2, !.actual = on]

\* The rooms whose target a report has stamped: it was adopted or confirmed.
Restamped(zs) ==
  {r \in Rooms : zs[r].target # zone[r].target /\ zs[r].target.phase = "Confirmed"}

\* The bulbs L report now: their reports follow every target.  All events of
\* the seed carry one Instant, so nothing it stamps is younger than its reports.
Reported(L, stamped) ==
  [l \in LightIds |-> IF l \in L THEN {l} \cup RoomsOf(l)
                      ELSE IF running THEN after[l] \ stamped ELSE after[l]]

\* handle_light_state
LightState(l, on, seen) ==
  LET ls  == [light EXCEPT ![l] = RecordedLight(l, on, seen)]
      aft == Reported({l}, {})
  IN  /\ "light_state" \in Inputs
      /\ light' = ls
      /\ zone' = [r \in Rooms |-> IF r \in RoomsOf(l) THEN ZoneFromLights(r, ls, aft)
                                                     ELSE zone[r]]
      /\ after' = Reported({l}, Restamped(zone'))
      /\ UNCHANGED by
      /\ Apart

\* handle_group_state, the room itself
ZoneEchoed(r, on) ==
  LET z  == [zone[r] EXCEPT !.actual = on]
      z1 == IF z.cycle # NoCycle THEN [z EXCEPT !.target = TargetAged(@, LightStale)] ELSE z
  IN  IF /\ on = "On" /\ z1.cycle = NoCycle /\ z1.target.value = "On"
         /\ z1.target.phase \in {"Commanded", "Stale"}
        THEN [z1 EXCEPT !.target = Confirmed(@)] ELSE z1

\* handle_group_state: a room whose bulbs all belong to a room seen off
ZoneDarkened(q) ==
  LET z == [zone[q] EXCEPT !.actual = "Off", !.cycle = NoCycle]
  IN  IF z.target.value = "On" THEN ZoneSet(z, Adopted("Off", ZoneOwner(q, "System")), 0, 0)
                               ELSE z

\* handle_group_state.  A group OFF does not cancel a step being applied.
GroupState(r, on) ==
  /\ "group_state" \in Inputs
  /\ LET echoed   == ZoneEchoed(r, on)
         applying == /\ echoed.cycle # NoCycle /\ on = "Off"
                     /\ echoed.target.value = "On" /\ IsActionable(echoed.target)
         wentOff  == on = "Off" /\ IsOn(zone[r]) /\ ~applying
         inside   == {q \in Rooms \ {r} : Members[q] # {} /\ Members[q] \subseteq Members[r]}
         off      == [ZoneSet(echoed, Adopted("Off", ZoneOwner(r, "System")), 0, 0)
                        EXCEPT !.cycle = NoCycle]
     IN  IF wentOff
           THEN /\ light' = [l \in LightIds |->
                               IF l \in Members[r] THEN RecordedLight(l, "Off", 0) ELSE light[l]]
                /\ zone' = [q \in Rooms |-> IF q = r THEN off
                                            ELSE IF q \in inside THEN ZoneDarkened(q)
                                            ELSE zone[q]]
                /\ after' = Reported(Members[r], {r} \cup Restamped(zone'))
           ELSE /\ zone' = [zone EXCEPT ![r] = echoed]
                /\ after' = Reported({}, Restamped(zone'))
                /\ UNCHANGED light
  /\ UNCHANGED by
  /\ Apart

\* The wall clock enters a slot.
EnterSlot(s) ==
  /\ "slot" \in Inputs
  /\ slot' = s
  /\ UNCHANGED <<light, zone, after, schedule, sensor, session, running, by>>

-----------------------------------------------------------------------------
(* Actions of this module; Motion adds the clock, sensors and startup. *)

LightsNext ==
  \/ \E r \in Rooms : SceneCycle(r)
  \/ \E r \in Rooms : GroupSceneCycle(r)
  \/ \E r \in Rooms : SceneToggle(r)
  \/ \E r \in Rooms : SceneToggleCycle(r)
  \/ \E r \in Rooms : SceneStepDown(r)
  \/ \E r \in Rooms : TurnOffRoom(r)
  \/ \E r \in Rooms : Brightness(r)
  \/ TurnOffAllZones
  \/ \E r \in Rooms, scene \in Scenes : WebRecallScene(r, scene)
  \/ \E r \in Rooms : WebSetRoomOff(r)
  \/ \E r \in Rooms, s \in Schedules : ApplyRoomOverride(r, s)
  \/ \E l \in LightIds : LightState(l, "Off", 0)
  \/ \E l \in LightIds, seen \in Levels : LightState(l, "On", seen)
  \/ \E r \in Rooms, on \in Switch : GroupState(r, on)
  \/ \E s \in Slots : EnterSlot(s)
=============================================================================
