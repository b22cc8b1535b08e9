------------------------------ MODULE Heating ------------------------------
(***************************************************************************)
(* The heating controller: one heat pump, one relay (wall thermostat) per  *)
(* zone, radiator valves (TRVs) in every zone (logic/heating.rs and        *)
(* logic/heating/{relay,telemetry,pressure,schedule,open_window,boost}.rs, *)
(* entities/{heating_zone,trv}.rs).                                        *)
(*                                                                         *)
(* The pump runs while some relay is on.  The controller starts and stops  *)
(* it through the relays, under two clocks: min_cycle (a started pump keeps*)
(* running) and min_pause (a stopped pump stays stopped).                  *)
(*                                                                         *)
(* Data: a setpoint is a name, a TRV report says whether the reported      *)
(* setpoint is the commanded one and whether the valve demands heat, and   *)
(* the verdict of the open-window detector is a choice.  Here the devices  *)
(* are an unconstrained environment: any report may arrive at any time     *)
(* (lost, late, repeated, reordered).  HeatingSystem closes the loop with  *)
(* real relays and a lossy network.                                        *)
(***************************************************************************)
EXTENDS Tass

CONSTANTS Zones,         \* zones, as their index in the configuration
          Trvs,          \* radiator valves
          ZoneOf,        \* valve -> zone
          Groups,        \* pressure groups: sets of valves of one zone
          Temps,         \* setpoints of schedules and boosts
          MinCycle,      \* min_cycle_seconds
          MinPause,      \* min_pause_seconds
          ZoneStale,     \* HEATING_TARGET_STALE_THRESHOLD
          Grace,         \* RELAY_ACTUATION_GRACE
          InhibitFor,    \* inhibit_minutes
          WindowTrvs,    \* bound: valves that may meet an open window
          SilentTrvs,    \* bound: valves that may stop reporting
          AdjustableTrvs \* bound: valves whose settings the dashboard changes

ASSUME HeatingAssumption ==
  /\ Zones \subseteq Nat
  /\ ZoneOf \in [Trvs -> Zones]
  /\ \A z \in Zones : \E t \in Trvs : ZoneOf[t] = z
  /\ Groups \subseteq SUBSET Trvs
  /\ \A g \in Groups : \A t, u \in g : ZoneOf[t] = ZoneOf[u]
  /\ \A g, h \in Groups : g # h => g \cap h = {}
  /\ \A t \in Temps : t \notin {None, "Placeholder", "Inhibited",
                                "PressureGroup", "MinCycle"}
  /\ MinCycle \in 1 .. MaxAge /\ MinPause \in 1 .. MaxAge
  /\ ZoneStale \in 1 .. MaxAge /\ Grace \in 1 .. MaxAge
  /\ InhibitFor \in Nat
  /\ WindowTrvs \subseteq Trvs /\ SilentTrvs \subseteq Trvs
  /\ AdjustableTrvs \subseteq Trvs

VARIABLES target,    \* HeatingZoneEntity.target
          relay,     \* HeatingZoneEntity.actual; Unknown until first contact
          valve,     \* TrvEntity.target, with the rest of an inhibition
          raw,       \* has_raw_demand of the last TRV readings
          silent,    \* valves not heard of for STALE_THRESHOLD
          enabled,   \* valves whose heat demand is not disabled (persisted)
          boost,     \* valve -> setpoint of its active boost (persisted)
          pumpOn,    \* pump_on_since, as an age
          pumpOff,   \* pump_off_since, as an age
          flip       \* history: age of the last observed pump start or stop

pumpVars == <<pumpOn, pumpOff, flip>>
vars == <<target, relay, valve, raw, silent, enabled, boost, pumpVars>>

NoTime == -1

ZoneTargets == {"Heating", "Off"}
Reports     == {"On", "Off"}
Forced      == {"PressureGroup", "MinCycle"}

\* TrvTarget.  Placeholder is Setpoint(0.0), which the schedule overwrites.
ValveTargets == Temps \cup Forced \cup {"Placeholder", "Inhibited"}

Valves == [value : ValveTargets \cup {None},
           phase : {"Unset", "Commanded", "Confirmed"},
           owner : {"Schedule", "WebUI", "Rule", None},
           left  : 0 .. InhibitFor]

UnsetValve ==
  [value |-> None, phase |-> "Unset", owner |-> None, left |-> 0]

ValveCommanded(v, who) ==
  [value |-> v, phase |-> "Commanded", owner |-> who, left |-> 0]

Placeholder(phase) ==
  [value |-> "Placeholder", phase |-> phase, owner |-> "Schedule", left |-> 0]

IsForcedOpen(v) == v.value \in Forced
IsInhibited(v)  == v.value = "Inhibited" /\ v.left > 0

ZoneTrvs(z) == {t \in Trvs : ZoneOf[t] = z}

\* relay_state_known
Known == {z \in Zones : relay[z] # "Unknown"}

\* active_relay_count and is_pump_running count these.
RelaysOn == {z \in Zones : relay[z] = "On"}

-----------------------------------------------------------------------------
(* Demand *)

\* effective_heat_demand_enabled
DemandEnabled(t) == t \in enabled \/ boost[t] # None

\* has_effective_demand
EffectiveDemand(v, t) ==
  /\ ~IsInhibited(v[t]) /\ ~IsForcedOpen(v[t])
  /\ v[t].phase # "Commanded"
  /\ t \notin silent
  /\ raw[t]

\* The zones with demand, in the snapshot of evaluate_relays
Demand(v) ==
  {z \in Zones : \E t \in ZoneTrvs(z) :
                    DemandEnabled(t) /\ EffectiveDemand(v, t)}

-----------------------------------------------------------------------------
(* The valve passes of a tick, each from valve targets to valve targets *)

\* expire_inhibitions: a confirmed placeholder for the schedule to overwrite
Expired(v) ==
  [t \in Trvs |->
     IF v[t].value = "Inhibited" /\ v[t].left = 0
       THEN Placeholder("Confirmed")
       ELSE v[t]]

\* enforce_pressure_groups: the zone relay is known off and not wanted on
GroupZoneOff(g) ==
  \E t \in g : relay[ZoneOf[t]] = "Off" /\ target[ZoneOf[t]].value # "Heating"

OrganicDemand(v, g) ==
  \E t \in g : /\ DemandEnabled(t)
               /\ ~IsForcedOpen(v[t]) /\ ~IsInhibited(v[t])
               /\ v[t].phase # "Commanded"
               /\ raw[t]

GroupActive(v, g) == OrganicDemand(v, g) /\ ~GroupZoneOff(g)

\* A mutant: the valves of a group that is no longer active stay forced.
PressurisedForEver(v) ==
  [t \in Trvs |->
     IF /\ \E g \in Groups : t \in g /\ GroupActive(v, g)
        /\ ~IsInhibited(v[t]) /\ ~IsForcedOpen(v[t]) /\ ~raw[t]
       THEN ValveCommanded("PressureGroup", "Rule") ELSE v[t]]

Pressurised(v) ==
  [t \in Trvs |->
     IF \E g \in Groups : t \in g /\ GroupActive(v, g)
       THEN IF ~IsInhibited(v[t]) /\ ~IsForcedOpen(v[t]) /\ ~raw[t]
              THEN ValveCommanded("PressureGroup", "Rule") ELSE v[t]
     ELSE IF v[t].value = "PressureGroup" /\ \E g \in Groups : t \in g
       THEN Placeholder("Commanded")
     ELSE v[t]]

\* evaluate_schedules: temp[t] is what the schedule of t says now; validated
\* schedules cover the whole week, so it always says something.
Scheduled(v, temp) ==
  [t \in Trvs |->
     LET want == IF boost[t] # None THEN boost[t] ELSE temp[t]
         who  == IF boost[t] # None THEN "WebUI" ELSE "Schedule"
     IN  IF \/ IsForcedOpen(v[t]) \/ IsInhibited(v[t])
            \/ /\ v[t].value = want /\ v[t].owner = who
               /\ v[t].phase = "Confirmed"
           THEN v[t] ELSE ValveCommanded(want, who)]

\* detect_open_windows: the valves it may examine and those it inhibits
WindowCandidates(v) ==
  {t \in WindowTrvs : relay[ZoneOf[t]] = "On" /\ EffectiveDemand(v, t)}

WithOpenWindows(v, open) ==
  [t \in Trvs |->
     IF t \in open
       THEN [ValveCommanded("Inhibited", "Rule") EXCEPT !.left = InhibitFor]
       ELSE v[t]]

\* A mutant: the schedule runs before the pressure groups.
ScheduledFirst(temp) == Pressurised(Scheduled(Expired(valve), temp))

ScheduledValves(temp) == Scheduled(Pressurised(Expired(valve)), temp)

-----------------------------------------------------------------------------
(* evaluate_relays, from the valve targets v left by the valve passes *)

Schedule(value) == Commanded(value, "Schedule")

\* effective_pump_on_since has reached min_cycle, or does not exist; `heating`
\* are the zones whose target is Heating, in any phase
CycleOver(tg, heating) ==
  \/ pumpOn = NoTime /\ heating = {}
  \/ pumpOn # NoTime /\ pumpOn >= MinCycle
  \/ \E z \in heating : tg[z].age >= MinCycle

HeatingIn(tg) == {z \in Zones : tg[z].value = "Heating"}

\* evaluate_target_staleness runs earlier in the same tick.
AgedTargets == [z \in Zones |-> TargetAged(target[z], ZoneStale)]

\* A mutant: only OFF commands in flight count, not the observed stop.
PauseOverForCommands ==
  \A z \in Zones : AgedTargets[z].value = "Off"
                      /\ AgedTargets[z].phase = "Commanded"
                      => AgedTargets[z].age >= MinPause

\* effective_pump_off_since has reached min_pause, or does not exist
PauseOver ==
  /\ pumpOff # NoTime => pumpOff >= MinPause
  /\ \A z \in Zones : AgedTargets[z].value = "Off"
                        /\ AgedTargets[z].phase = "Commanded"
                        => AgedTargets[z].age >= MinPause

\* The phases go from zone targets tg to zone targets; d is the set of zones
\* with demand.  First, zones without a target get one, confirmed, and no
\* command.
SeededZones == {z \in Known : target[z].phase = "Unset"}

Seeded(d) ==
  [z \in Zones |->
     IF z \in SeededZones
       THEN Adopted(IF z \in d \/ relay[z] = "On" THEN "Heating" ELSE "Off",
                    "Schedule")
       ELSE AgedTargets[z]]

\* Phase 1: zones with demand.  The first zone that starts only makes the
\* pause test easier for the next, so one test decides for all.
Starting(tg, d) ==
  IF RelaysOn # {} \/ PauseOver
    THEN {z \in Known \cap d : tg[z].value # "Heating"} ELSE {}

\* Phase 2: a relay that never came on is cancelled when its demand is gone.
\* Zones are visited in order and a cancelled one no longer counts as heating.
Cancelled(tg, d) ==
  LET idle == {z \in Known \ (d \cup RelaysOn) : tg[z].value = "Heating"}
  IN  {z \in idle : \A y \in {x \in idle : x =< z} :
         CycleOver(tg, HeatingIn(tg) \ {x \in idle : x < y})}

\* Phase 3: relays that are on without demand
WantOff(tg, d) == {z \in RelaysOn \ d : tg[z].value # "Off"}

Survivors(tg, d) == {z \in RelaysOn \ WantOff(tg, d) : tg[z].value # "Off"}

\* A mutant: an ON that has gone stale still keeps the pump bridged.
PendingOnEvenStale(tg) ==
  {z \in Known \ RelaysOn : tg[z].value = "Heating"}

PendingOn(tg) ==
  {z \in Known \ RelaysOn : /\ tg[z].value = "Heating"
                             /\ tg[z].phase = "Commanded"}

\* A mutant: no exception from min_cycle against overpressure.
FlowPathAssumed(v, zones) == FALSE

\* No valve of these zones is or can be forced open: all are inhibited.
NoFlowPath(v, zones) ==
  \A t \in Trvs : ZoneOf[t] \in zones => IsInhibited(v[t])

PumpMayStop(tg) == CycleOver(tg, HeatingIn(tg))

Stopping(tg, d, v) ==
  IF \/ Survivors(tg, d) # {}
     \/ /\ PendingOn(tg) = {}
        /\ PumpMayStop(tg) \/ NoFlowPath(v, WantOff(tg, d))
    THEN WantOff(tg, d) ELSE {}

\* min_cycle holds the pump: the zones whose valves are forced open
Held(tg, d, v) ==
  IF Survivors(tg, d) # {} \/ PendingOn(tg) # {} THEN {}
  ELSE WantOff(tg, d) \ Stopping(tg, d, v)

\* A mutant: the hold opens the valve of an open window, too.
HeldOpenAll(v, held) ==
  [t \in Trvs |->
     IF ZoneOf[t] \in held /\ ~IsForcedOpen(v[t])
       THEN ValveCommanded("MinCycle", "Rule") ELSE v[t]]

HeldOpen(v, held) ==
  [t \in Trvs |->
     IF ZoneOf[t] \in held /\ ~IsForcedOpen(v[t]) /\ ~IsInhibited(v[t])
       THEN ValveCommanded("MinCycle", "Rule") ELSE v[t]]

Retargeted(tg, zones, value) ==
  [z \in Zones |-> IF z \in zones THEN Schedule(value) ELSE tg[z]]

\* Mutants: lost OFFs are not repeated; a stale command is not repeated.
NeedsRetryOnOnly(t, on) ==
  t.value = "Heating" /\ ~on /\ t.phase \in {"Commanded", "Stale"}

NeedsRetryUntilStale(t, on) ==
  \/ (t.value = "Heating") # on /\ t.phase = "Commanded"
  \/ t.value = "Off" /\ ~on /\ t.phase = "Commanded"

\* reconcile_relays: unconfirmed commands of earlier ticks are repeated.
NeedsRetry(t, on) ==
  \/ (t.value = "Heating") # on /\ t.phase \in {"Commanded", "Stale"}
  \/ t.value = "Off" /\ ~on /\ t.phase = "Commanded"

\* The zone targets a tick leaves, the zones it holds, and what it publishes
\* to the relay of each zone
Decision(v) ==
  LET d       == Demand(v)
      seeded  == Seeded(d)
      on      == Starting(seeded, d)
      started == Retargeted(seeded, on, "Heating")
      cancel  == Cancelled(started, d)
      rest    == Retargeted(started, cancel, "Off")
      off     == Stopping(rest, d, v)
      final   == Retargeted(rest, off, "Off")
      repeat  == {z \in Zones \ (SeededZones \cup on \cup cancel \cup off) :
                    /\ final[z].phase # "Unset"
                    /\ NeedsRetry(final[z], z \in RelaysOn)}
  IN  [target |-> final,
       held   |-> Held(rest, d, v),
       told   |-> [z \in Zones |->
                     IF z \in on THEN "On"
                     ELSE IF z \in cancel \cup off THEN "Off"
                     ELSE IF z \notin repeat THEN None
                     ELSE IF final[z].value = "Heating" THEN "On" ELSE "Off"]]

-----------------------------------------------------------------------------
(* Actions *)

Fresh ==
  /\ target = [z \in Zones |-> UnsetTarget]
  /\ relay = [z \in Zones |-> "Unknown"]
  /\ valve = [t \in Trvs |-> UnsetValve]
  /\ raw = [t \in Trvs |-> FALSE]
  /\ silent = {}
  /\ pumpOn = NoTime /\ pumpOff = NoTime /\ flip = NoTime

Init == Fresh /\ enabled = Trvs /\ boost = [t \in Trvs |-> None]

\* The process restarts; the settings are persisted.
Restart ==
  /\ target' = [z \in Zones |-> UnsetTarget]
  /\ relay' = [z \in Zones |-> "Unknown"]
  /\ valve' = [t \in Trvs |-> UnsetValve]
  /\ raw' = [t \in Trvs |-> FALSE]
  /\ silent' = {}
  /\ pumpOn' = NoTime /\ pumpOff' = NoTime /\ flip' = NoTime
  /\ UNCHANGED <<enabled, boost>>

\* handle_heating_tick, preceded by evaluate_target_staleness
Tick(temp, open) ==
  LET v        == WithOpenWindows(ScheduledValves(temp), open)
      decision == Decision(v)
  IN  /\ UNCHANGED <<relay, raw, silent, enabled, boost, pumpVars>>
      /\ open \subseteq WindowCandidates(ScheduledValves(temp))
      /\ target' = decision.target
      /\ valve' = HeldOpen(v, decision.held)

\* handle_trv_state: the readings are merged, then the setpoint is compared.
TrvState(t, demand, setpoint) ==
  /\ ~(setpoint = "match" /\ valve[t].value \in {None, "Placeholder"})
  /\ raw' = [raw EXCEPT ![t] = demand]
  /\ silent' = silent \ {t}
  /\ valve' = [valve EXCEPT ![t].phase =
        IF setpoint = "match" /\ @ = "Commanded" THEN "Confirmed"
        ELSE IF setpoint = "differs" /\ @ = "Confirmed" THEN "Commanded"
        ELSE @]
  /\ UNCHANGED <<target, relay, enabled, boost, pumpVars>>

\* 30 minutes without a report
TrvSilent(t) ==
  /\ silent' = silent \cup {t}
  /\ UNCHANGED <<target, relay, valve, raw, enabled, boost, pumpVars>>

\* Mutants: a mismatch is ignored; the report is taken for the target.
RedirtiedNever(t, on) == t

RedirtiedToReport(t, on) ==
  IF t.phase = "Confirmed" /\ (t.value = "Heating") # (on = "On")
    THEN Commanded(on, t.owner) ELSE t

\* The last step of handle_wall_thermostat_state: a confirmed target that
\* the relay contradicts is commanded again.
Redirtied(t, on) ==
  IF t.phase = "Confirmed" /\ (t.value = "Heating") # (on = "On")
    THEN Commanded(t.value, t.owner) ELSE t

ConfirmedBy(t, value) ==
  IF t.value = value /\ IsActionable(t) THEN Confirmed(t) ELSE t

\* A mutant: every OFF report moves pump_off_since, not the first one only.
SameRelayRestartsPause(z, on) ==
  LET t         == target[z]
      failedOn  == on = "Off" /\ t.phase = "Commanded" /\ t.value = "Heating"
                     /\ t.age >= Grace
      offEcho   == on = "Off" /\ t.phase = "Commanded" /\ t.value = "Off"
      anyOff    == on = "Off" /\ RelaysOn = {}
  IN  /\ target' = [target EXCEPT ![z] = IF failedOn
                                           THEN Adopted("Off", "Schedule")
                                         ELSE IF offEcho THEN Confirmed(@)
                                         ELSE @]
      /\ pumpOff' = IF offEcho \/ anyOff THEN 0 ELSE pumpOff
      /\ pumpOn' = IF failedOn /\ RelaysOn = {} THEN NoTime ELSE pumpOn
      /\ UNCHANGED <<valve, flip>>

\* handle_wall_thermostat_state, report equal to the state already known
SameRelay(z, on) ==
  LET t         == target[z]
      failedOn  == on = "Off" /\ t.phase = "Commanded" /\ t.value = "Heating"
                     /\ t.age >= Grace
      offEcho   == on = "Off" /\ t.phase = "Commanded" /\ t.value = "Off"
      firstOff  == on = "Off" /\ relay[z] = "Unknown" /\ RelaysOn = {}
  IN  /\ target' = [target EXCEPT ![z] = IF failedOn
                                           THEN Adopted("Off", "Schedule")
                                         ELSE IF offEcho THEN Confirmed(@)
                                         ELSE @]
      /\ pumpOff' = IF offEcho \/ (failedOn /\ RelaysOn = {}) THEN 0
                    ELSE IF firstOff /\ pumpOff = NoTime THEN 0 ELSE pumpOff
      /\ pumpOn' = IF failedOn /\ RelaysOn = {} THEN NoTime ELSE pumpOn
      /\ UNCHANGED <<valve, flip>>

RelayTurnedOn(z) ==
  /\ target' = [target EXCEPT ![z] =
                  Redirtied(ConfirmedBy(@, "Heating"), "On")]
  /\ IF RelaysOn = {} THEN pumpOn' = 0 /\ pumpOff' = NoTime /\ flip' = 0
                      ELSE UNCHANGED pumpVars
  /\ UNCHANGED valve

\* Mutants: the valves of a held zone are not released; any relay that goes
\* off stops the pump clock.
RelayTurnedOffHolding(z) ==
  /\ target' = [target EXCEPT ![z] = Redirtied(ConfirmedBy(@, "Off"), "Off")]
  /\ IF RelaysOn = {z} THEN pumpOff' = 0 /\ pumpOn' = NoTime /\ flip' = 0
                       ELSE UNCHANGED pumpVars
  /\ UNCHANGED valve

RelayTurnedOffStopsPump(z) ==
  /\ target' = [target EXCEPT ![z] = Redirtied(ConfirmedBy(@, "Off"), "Off")]
  /\ valve' = [t \in Trvs |->
                 IF ZoneOf[t] = z /\ valve[t].value = "MinCycle"
                   THEN Placeholder("Commanded") ELSE valve[t]]
  /\ pumpOff' = 0 /\ pumpOn' = NoTime
  /\ flip' = IF RelaysOn = {z} THEN 0 ELSE flip

RelayTurnedOff(z) ==
  /\ target' = [target EXCEPT ![z] = Redirtied(ConfirmedBy(@, "Off"), "Off")]
  /\ valve' = [t \in Trvs |->
                 IF ZoneOf[t] = z /\ valve[t].value = "MinCycle"
                   THEN Placeholder("Commanded") ELSE valve[t]]
  /\ IF RelaysOn = {z} THEN pumpOff' = 0 /\ pumpOn' = NoTime /\ flip' = 0
                       ELSE UNCHANGED pumpVars

\* handle_wall_thermostat_state
WallThermostatState(z, on) ==
  /\ relay' = [relay EXCEPT ![z] = on]
  /\ IF (relay[z] = "On") = (on = "On") THEN SameRelay(z, on)
     ELSE IF on = "On" THEN RelayTurnedOn(z) ELSE RelayTurnedOff(z)
  /\ UNCHANGED <<raw, silent, enabled, boost>>

\* set_heat_demand_enabled
SetHeatDemand(t) ==
  /\ enabled' = IF t \in enabled THEN enabled \ {t} ELSE enabled \cup {t}
  /\ UNCHANGED <<target, relay, valve, raw, silent, boost, pumpVars>>

\* apply_valve_boost, and the moment a boost's deadline passes
SetBoost(t, b) ==
  /\ boost' = [boost EXCEPT ![t] = b]
  /\ UNCHANGED <<target, relay, valve, raw, silent, enabled, pumpVars>>

OlderTime(a) == IF a = NoTime THEN NoTime ELSE Older(a)

\* The clock
Advance ==
  /\ target' = [z \in Zones |-> TargetOlder(target[z])]
  /\ valve' = [t \in Trvs |-> [valve[t] EXCEPT !.left =
                                 IF @ = 0 THEN 0 ELSE @ - 1]]
  /\ pumpOn' = OlderTime(pumpOn)
  /\ pumpOff' = OlderTime(pumpOff)
  /\ flip' = OlderTime(flip)
  /\ UNCHANGED <<relay, raw, silent, enabled, boost>>

TickStep == \E temp \in [Trvs -> Temps], open \in SUBSET WindowTrvs :
              Tick(temp, open)

SetpointReports == {"match", "differs", None}

Next ==
  \/ TickStep
  \/ \E t \in Trvs, demand \in BOOLEAN, setpoint \in SetpointReports :
       TrvState(t, demand, setpoint)
  \/ \E t \in SilentTrvs : TrvSilent(t)
  \/ \E z \in Zones, on \in Reports : WallThermostatState(z, on)
  \/ \E t \in AdjustableTrvs :
       SetHeatDemand(t) \/ \E b \in Temps \cup {None} : SetBoost(t, b)
  \/ Advance
  \/ Restart

Spec == Init /\ [][Next]_vars

-----------------------------------------------------------------------------
(* Properties *)

\* Every variable has its type.
TypeOK ==
  /\ target \in [Zones -> TassTarget(ZoneTargets)]
  /\ relay \in [Zones -> Reports \cup {"Unknown"}]
  /\ valve \in [Trvs -> Valves]
  /\ raw \in [Trvs -> BOOLEAN]
  /\ silent \subseteq Trvs
  /\ enabled \subseteq Trvs
  /\ boost \in [Trvs -> Temps \cup {None}]
  /\ pumpOn \in Ages \cup {NoTime}
  /\ pumpOff \in Ages \cup {NoTime}
  /\ flip \in Ages \cup {NoTime}

\* The pump clocks agree with what the relays of all zones reported, in any
\* order of reports: pump_on_since exists exactly while some relay is on and
\* is the moment the first one came on; once the pump has stopped,
\* pump_off_since exists and is no earlier than the moment the last one went
\* off (handle_wall_thermostat_state counts relays_on_before).
PumpClocks ==
  /\ (pumpOn # NoTime) = (RelaysOn # {})
  /\ RelaysOn # {} => pumpOn = flip
  /\ RelaysOn = {} /\ flip # NoTime => pumpOff # NoTime /\ pumpOff =< flip

\* A tick gives a zone a new ON command only when the pump is running or has
\* been stopped for min_pause, counted from the last observed stop (phase 1
\* of evaluate_relays).
NewStart(z) == /\ target[z].value # "Heating"
               /\ target'[z] = Schedule("Heating")

StartRespectsPause ==
  [][\A z \in Zones : NewStart(z) /\ RelaysOn = {} =>
        flip = NoTime \/ flip >= MinPause]_vars

\* A valve forced open by the min_cycle hold belongs to a zone whose relay is
\* on: every way a relay goes off releases the valves the hold opened.
HoldReleased ==
  \A t \in Trvs : valve[t].value = "MinCycle" => relay[ZoneOf[t]] = "On"

\* A confirmed OFF is real: the relay of the zone is off.
ConfirmedOff ==
  \A z \in Zones : target[z].phase = "Confirmed" /\ target[z].value = "Off"
                     => relay[z] = "Off"

\* A tick never leaves the pump running against closed valves: relays that
\* are on without demand are told to go off, unless another zone that is on
\* demands heat, another zone's ON is in flight, or one of their valves is
\* forced open (phase 3 of evaluate_relays).
Idling == {z \in RelaysOn \ Demand(valve') : target'[z].value # "Off"}

HasFlowPath ==
  \/ \E z \in RelaysOn \cap Demand(valve') : target'[z].value # "Off"
  \/ \E z \in Zones \ RelaysOn : /\ target'[z].value = "Heating"
                                 /\ target'[z].phase = "Commanded"
  \/ \E t \in Trvs : ZoneOf[t] \in Idling /\ IsForcedOpen(valve'[t])

FlowPath == [][Idling # {} /\ ~HasFlowPath => ~TickStep]_vars

\* A valve forced open by its pressure group is in a group with a valve that
\* demands heat, right after the tick that decides it.
GroupDemands(g) == \E u \in g : raw[u] /\ valve'[u].value # "PressureGroup"

PressureJustified ==
  [][(\E g \in Groups : /\ \E t \in g : valve'[t].value = "PressureGroup"
                        /\ ~GroupDemands(g)) => ~TickStep]_vars

\* The 0.0 setpoint that marks a released valve never reaches a device:
\* whoever releases a valve, before the tick ends the schedule or another rule
\* has given it a real target, so reconcile_setpoints cannot repeat it.
PlaceholderReplaced ==
  [][(\E t \in Trvs : valve'[t].value = "Placeholder") => ~TickStep]_vars

\* An open window keeps its valve shut: until the inhibition expires or the
\* process restarts, no pass of a tick (pressure group, schedule, boost,
\* min_cycle hold) and no report gives the valve another target.
InhibitionLasts ==
  [][\A t \in Trvs : IsInhibited(valve[t]) =>
       valve'[t].value = "Inhibited" \/ Restart]_vars
=============================================================================
