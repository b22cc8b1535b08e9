# A TLA+ model of mqtt-controller

`mqtt-controller` is a home-automation daemon: one process that reads events
(Zigbee and Z-Wave state reports, button presses, ticks, dashboard commands)
from queues, changes an in-memory world, and publishes commands over MQTT.  The
handlers run one at a time; what is concurrent is the house around them:
devices, a lossy radio network, users, a dashboard and the clock.  This project
models the daemon's core logic, checks it with TLC and proves part of it with
TLAPS.  Paths below are relative to `src/crates/mqtt-controller/src/`.

## Inventory

| Component | State | Operations | What is hard |
|---|---|---|---|
| TASS (`tass.rs`) | target value, phase, owner, since; actual value, freshness, since | command, confirm, adopt, age | a target whose confirmation is late, lost or belongs to an older command |
| Plugs (`logic/plugs.rs`, `entities/plug.rs`) | target, relay, power, kill-switch rules | reports, toggles, dashboard commands, overrides, tick | holdoff clocks against late readings; suppression across off/on cycles |
| Heating (`logic/heating*.rs`, `entities/trv.rs`, `entities/heating_zone.rs`) | zone targets and relays, valve targets, pump clocks, settings | tick (eight passes), relay and valve reports, boosts, heat-demand setting | several zones share one pump; four rules write one valve; lost echoes; restarts |
| Lights (`logic/lights.rs`) | room targets, member lights, cycle position, last press | scene cycle, toggle, brightness, off, group and light reports | echoes of older commands; nested groups |
| Motion (`logic/motion.rs`) | sensors, sessions, cooldowns, ownership | occupancy, session start and end, enable, startup | sensors, users and timers in any order |
| Switch steps (`logic/switch_steps.rs`) | cursor (slot, step) | step up and down, brightness on a step | a cursor that outlives its schedule, slot or OFF; reports of the previous step |
| Buttons (`logic/buttons.rs`) | event queue, pending presses, last double tap | press, hardware and soft double tap, flush | a deferred press against a second press, a late delivery and the flush |
| Timed bindings (`logic/schedule.rs`) | last firing | tick | many ticks in one minute, edits, steps of the wall clock |
| Settings and overrides (`settings*.rs`, `logic/automation_overrides.rs`) | database, processor's copy, boost deadlines | open, migrate, load, restore, validate, save, apply | failure and crash between any two steps; two clocks |
| Daemon (`daemon/*.rs`) | queues | startup refresh, event loop, dashboard commands, broadcasts | reports queued during the refresh |
| MQTT bridge (`mqtt/*.rs`) | session, bounded event channel | parse, enqueue, subscribe, publish | a full channel, a lost session |
| Topology, configuration (`topology*.rs`, `config/*.rs`) | - | validation | rules over the whole configuration that others rely on |
| Web server (`web/server.rs`, `web/snapshot.rs`) | connections, broadcast ring, heartbeat | connect, snapshot, command, write, ping, close | slow readers, late pongs, replies and broadcasts that overtake each other |
| Dashboard (`src/frontend/src`) | connection, store | promote, resync, apply updates, send | updates that race a reconnect |
| Provisioning (`provision/*.rs`) | bridge's names, groups, members, scenes, options; topic cache | reconcile, phase by phase | partial failure, name swaps, stale reads, devices that are not paired or not configured |
| History, audit, event log | samples, queue | record, query | bounded queues that nothing in the controller reads |

The components interact through `EventProcessor` (`logic/mod.rs`): every event
is dispatched to one handler; the tick runs deferred presses, timed bindings,
kill switches, target staleness, actual staleness and heating, in this order.

## Modules

* `Tass`: target/actual records as pure operators.  The code stores Instants
  and only compares `now - since` with thresholds; the model stores the age,
  saturated at `MaxAge`.  Saturation is exact as long as no threshold exceeds
  `MaxAge` (every module assumes so), and it keeps the state space finite
  without a time horizon, so that liveness can be checked.
* `Plugs`: one plug.  Topology validation (`PowerBelowCrossTarget`) forbids a
  rule that watches one plug and switches another, so one plug is the whole
  component.  Actions: `SetPlugActual` and `EnterEventLoop` (startup),
  `PlugState` (`handle_plug_state`), `Toggle`, `TurnOn`, `TurnOff`
  (`execute_effect`), `WebSetPlugPower`, `ApplyPlugOverride`, `Tick`, `Advance`
  (time), `Restart`.  `quiet` is a history variable: the time since a reading
  at or above the threshold was evaluated.
* `Heating`: the heating controller.  `Tick` composes the passes of
  `handle_heating_tick` as functions on valve targets (`Expired`,
  `Pressurised`, `Scheduled`, `WithOpenWindows`, `HeldOpen`) and, for the relays,
  the phases of `evaluate_relays` (`Seeded`, `Starting`, `Cancelled`,
  `Stopping`, `Held`) and `reconcile_relays` (`NeedsRetry`), collected in
  `Decision`.  `TrvState` and `WallThermostatState` are the two report
  handlers; `SetHeatDemand` and `SetBoost` the dashboard's settings.  A
  setpoint is a name; a valve report says whether the reported setpoint is the
  commanded one and whether the valve demands heat.  The open-window detector's
  verdict is a choice among the valves it may examine.  `flip` is a history
  variable: the age of the last observed start or stop of the pump.
* `HeatingSystem`: `Heating` composed with the external relays and a network
  that loses commands and reports.  A relay obeys what reaches it, echoes it,
  answers the GETs of the tick, and may be switched by hand.
* `Lights`: rooms and bulbs.  `SceneCycle`, `GroupSceneCycle`, `SceneToggle`,
  `SceneToggleCycle`, `SceneStepDown`, `TurnOffRoom`, `Brightness` and
  `TurnOffAllZones` are the effects of bindings; `WebRecallScene`,
  `WebSetRoomOff` and `ApplyRoomOverride` the dashboard's commands; `LightState`
  and `GroupState` the two report handlers.  All whole-room commands go through
  `GroupOn` and `GroupOff`.  The code compares the Instant of a report with the
  Instant of a target; `after[l]` is the set of targets that the last report of
  bulb `l` does not precede, which is all the handlers ask.  A scene stands for
  the brightness and colour it sets.  `by` is a history variable: who last
  published to a bulb.
* `Motion` (extends `Lights`, whose targets it shares): `Occupancy`
  (`handle_occupancy`), `DisableMotion`/`EnableMotion`, `Tick`, the startup
  (seeded reports while `running` is false, then `EnterEventLoop`), `Restart`.
  A handler hands a plan (which sessions start, end, finish; which bulbs are
  reset) to `SessionStep`, which is start_motion_session,
  release_motion_session, finish_motion_session and turn_off_motion_lights; it
  treats the rules of a loop at once because validation makes their bulbs
  disjoint.  Rooms and rules share the slot names of one clock.
* `Buttons`: an MQTT event is stamped when it is parsed and handled when the
  loop gets to it, a tick is stamped when it is handled; `inbox` holds events
  with their age, so a press may be handled late.  `Handled` is
  handle_button_press with its three handlers (`Defer`, `SoftPress`,
  `DoubleTap`); `Tick` is flush_pending_presses, at the interval or at the next
  press deadline.  All the handlers ask of a room is whether it is known to be
  off.  `owed` and `tapped` are history variables.
* `Settings`: the tables, the processor's copy and one request at a time.
  `Copy` and `Drop` are the migration in `open`; `Start` loads and restores for
  a deployment, which may differ from the one before; `Ask`/`Reject`, `Save` or
  `SaveFails`, `Apply` are the steps of a request, and `Crash` may come between
  any two.  A value carries what a validator asks of it.
* `SettingRegister`: the abstract specification, a register per setting with
  requests that are stored and then answered.  `Settings` implements it under
  `value <- Migrated(db)`: until the old table is dropped, a rule's row is what
  the migration will make of it.
* `Automation` (extends `Settings` and, for what the process starts on,
  `Configuration`): valve boosts with their two deadlines and
  timed bindings with their marks, under a monotonic and a wall clock.  It uses
  the actions of `Settings`; `Applying` and `Starting` add what
  apply_valve_boost and restore_boost_deadlines do.  `asked`, `budget`, `setBack`,
  `extra` and `done` are history variables.
* `Configuration`: the validators of `config/heating.rs`, `config/scenes.rs`,
  `topology/build.rs`, `topology/motion.rs` and `topology/switch_steps.rs` as
  operators.  `AcceptedIsAssumed` says what they promise: days and slots tile
  the day, `parent` is acyclic and `Below` its closure, switch steps, valves,
  relays, pressure groups, motion rules and kill switches have the form that
  `LightsAssumption`, `HeatingAssumption`, `MotionAssumption` and the single plug
  of `Plugs` rely on.  A room's override may have other slots than the deployed
  schedule and brings its own steps (`RoomOverrideAccepted`); that a motion rule's
  override keeps the slot names is a comparison and not modelled here.
* `Provision`: a pass is a sequence of phases; each reads (or does not read) the
  group list, plans its requests from `snap`, and issues them one by one.  The
  bridge (`Possible`, `CarryOut`) is external.  `Deliver`, `FetchHit`,
  `FetchMiss`, `FetchWoken`, `FetchTimeout` are the topic cache of the client
  and its waiters.  `unseen` is a history variable: something went wrong that
  the pass has no way to see.  `DOMAIN names` is what is paired: some of the
  configured devices and any foreign ones, and it stays the same while passes
  run, as the code reads the device list once (`provision/mod.rs:164`).  A
  configured device that is not paired, or a node that is not in the network
  (`Joined`), is skipped, and the pass goes on; its options are written
  nevertheless, since they go by name.
* `Dashboard`: from a bulb to a screen.  `Publish`, `Subscribe`, `SessionLost`,
  `Fetch`, `Seed` are the bridge and the startup; `HandleReport`, `Tick`,
  `HandleAsk` the branches of run_event_loop with their broadcasts; `Connect`,
  `Work`, `TimeOut`, `Write`, `Lagged`, `Beat`, `Pong` one connection of the web
  server; `Promote`, `GoStale`, `Send`, `Leave` the page.  An entity is reduced to a
  revision; `excused`, `behind` and the number of pings in flight are history.
* `TassProofs`, `PlugsProofs`, `HeatingProofs` (with the closed loop),
  `MotionProofs`, `ButtonsProofs`, `SettingsProofs` (with Automation and
  Configuration), `ProvisionProofs`,
  `DashboardProofs`: the theorems.
* `MCPlugs`, `MCHeating`, `MCHeatingSystem`, `MCMotion`, `MCButtons`,
  `MCAutomation` (with `MCConfiguration`), `MCProvision`, `MCDashboard`:
  instances for TLC.

In `Plugs`, `Heating`, `Lights` and `Motion` the devices are unconstrained: any report may arrive at
any time, which covers loss, delay, duplication and reordering.

Operators that a comment calls a mutant are wrong variants of the definition
that follows them.  No action uses them; each one breaks the property it is
paired with in `PROJECT.json`, which shows that the property depends on the
code it is about.

## Runs

| Run | Question | Bounds |
|---|---|---|
| `plugs` | are kills earned, suppressions kept, rule maps complete, holdoffs resolved? | two deployed rules and an override rule that differ in threshold and holdoff, four readings (one negative), `MaxAge` 2 |
| `heating_relays` | pump clocks, pause, hold, flow path, confirmed OFF | two zones sharing the pump, one valve each, `MinCycle = MinPause = 2` |
| `heating_group` | which rule owns a valve? | one zone with a pressure group of two valves, open window, silence, boost and heat-demand setting |
| `heating_system` | does the pump stop, do commands land, is demand served? | one zone, one valve, closed loop |
| `motion` | do sessions end with their occupancy, and does vacancy spare manual commands? | an on-off rule with two sensors, one bulb; toggle, off, brightness, recall, all zones off, echoes, a bright reading, restarts |
| `motion_off_only` | does an off-only claim survive everything, and does its session end when the sensor falls silent? | an off-only rule with one sensor, one bulb; toggle, brightness, scene cycle, all zones off, echoes, reports, restarts |
| `motion_disable` | is a disabled room left alone? | two nested rooms, two bulbs, an on-off and an on-only rule that share a sensor, a target that is a group by day and a bulb by night; restarts |
| `switch_steps` | is the cursor valid and a step's confirmation earned? | one room, two bulbs, three schedules, two slots; all step and cycle commands, echoes, reports, overrides |
| `buttons` | is every press acted on once, in time, and never after its double tap? | a hardware and a soft double-tap button of one room, two events waiting, a lag of one, window 1, suppression 2 |
| `settings` | is the database a durable register and the processor's copy what a restart would restore; do boosts end and timed bindings fire once; does validation deliver what the modules assume? | a flag, a boost, a plug and a motion rule with a migrated row; two deployments; a day of two minutes; clocks up to 2; the configurations of `MCConfiguration` |
| `provision` | does success mean provisioned, when does a clean pass fail, do passes converge? | three configured lamps of which two or three are paired, a foreign device or none, names in any order, two rooms, five states of the groups, with and without prune, three faults |
| `dashboard` | is the drained controller current, does an open connection skip nothing, is a silent one closed, does the screen settle? | three reports, one change by tick or command, one fault, an event channel of 1, a ring of 2 |

Bounds: a threshold of 2 with `MaxAge` 2 distinguishes "just now", "not yet" and
"long enough"; thresholds of different size (1 and 2) let one clock expire
before another.  Two zones are enough for one zone to keep the pump running, to
bridge for another, or to be cancelled before another; two valves are enough
for one to force the other.  The two heating runs split the state: the first has
the shared pump, the second everything that writes a valve.  The first has no
open windows (`WindowTrvs` is empty), so the branch of a flow path that is kept
although every valve is inhibited (`logic/heating/relay.rs:209`) is left to the
theorem `FlowPathExists`.

In `buttons` a lag of one lets a press be stamped inside a window and handled
after it.  In `provision` three lamps allow a cycle of names as well as a chain;
a lamp that is missing is a room member (d1) or in no room (d3), and the foreign
device has a spare name, the name of a paired lamp or that of the missing one;
the groups start empty, with wrong or foreign members, with a drifted name, with a
drifted name and a foreign id, or with their names swapped; three faults can stop
three passes.  Its 272161 states contain successful passes without d3 and, with
the foreign device in its place, without d1, and passes refused for each of the
reasons below.
In `dashboard` a channel of one overflows, two messages fill the ring (a report
sends two), and pings are not bounded: the heartbeat closes the connection
before they grow.  The configurations of `MCConfiguration` are all day
lists of up to three ranges over a day of four minutes, slots that wrap, rooms
with every assignment of parents, and zones, groups, rules, steps and bindings
with one defect or none.  `StartsAsAssumed` is a statement about these, not about
steps, and is evaluated where the program starts.  Two ASSUMEs of
`MCConfiguration` are further checks by TLC, which no proof uses: accepted slots
add up to the day (`SpansAddUp`), and `Above`, the reference that the walk over
parents is compared with, is the library's transitive closure (`AboveIsClosure`).

`Inputs` names the handlers a light or motion run explores; each run leaves out
those that do not touch its question, and together they fire all of them.
Thresholds are 1 with `MaxAge` 1 there: a clock has either just started or has
run out.  Overlapping rooms occur in `motion_disable` only.

Fairness.  `run_event_loop` has an interval timer that ticks for ever, so ticks
and time are weakly fair; in `Motion` the startup is weakly fair too.  In `HeatingSystem`, "ticks for ever" is stated on
the parity `gen` of `heating_tick_gen`, because a tick is always enabled.
Relays answer GETs again and again (weak fairness of `Report`), and what is sent
infinitely often is delivered infinitely often (strong fairness of `Deliver`
and `HandleReport`); any finite number of messages may be lost.  The liveness
properties exclude for-ever repeated restarts and hand switching.
`tokio::select!` picks among ready branches at random, so in `Buttons` events
and ticks are both weakly fair.  In `Provision` the pass proceeds and the broker
delivers; a pass that failed is begun again, as the service does at every start;
the retries of the first group list (`fetch_attempts`) are not counted, the pass
may give up after any of them; the number of faults is bounded, which is the usual reading of "eventually
quiet".  In `Dashboard` ticks, the writer and its heartbeat are weakly fair and
nothing is assumed of devices, users and pages; changes are bounded so that
there is something to settle to.

## What the runs found

The first four were found as counterexamples to properties that the code's
comments suggest and that an earlier state of this project checked; no present
run reproduces them.  The properties that remain are the ones the code keeps,
with their exceptions named.

1. *A kill on a loaded plug.*  A dashboard OFF does not clear
   the rules, and readings of a plug that is off are ignored, so a holdoff clock
   survives; after a dashboard ON the next tick may kill a plug whose latest
   reading is above the threshold.
2. *min_cycle too short.*  The age of any Heating target,
   also one whose relay came on much later, counts as running time.
3. *A zone seeded warm.*  After a restart a zone with demand
   whose relay is off gets a confirmed Heating target; no phase of the tick ever
   commands that relay while the demand lasts.  `DemandServed` states the
   liveness that is left, with exactly this case as its exception.
4. *A command that was never sent.*  The seed drops the effects
   of its handlers, so a seeded occupied sensor starts a session whose bulbs are
   Commanded and stay dark until the sensor has cleared.
5. *A wait for nothing* (`CleanPassSucceeds`).  `fetch_retained` with
   `force_refresh` returns the cached payload (`provision/client.rs:294`) instead
   of subscribing again, which its comment promises (278-281), and empties the
   cache.  In a pass that renamed or removed groups and created none, the next
   read (`provision/groups.rs:149`) is not forced: it subscribes to nothing and
   waits for a group list that nobody publishes, and the pass fails; the next
   pass succeeds.  The property names exactly this case.
6. *A lost wakeup.*  The fetch registers its waiter after it looked at the cache,
   and `notify_waiters` (`provision/client.rs:665`) stores no permit, although
   the comment at 307-310 says so.  A delivery in between is a fault in the
   model; it costs a pass, never correctness.
7. *A late group list.*  If the list read after creating a group is
   older than the group, its members are skipped without an error; this is the
   exception `unseen` of `SuccessMeansProvisioned`.
8. *Group names that have to be swapped* (`Clash`, an exception of
   `CleanPassSucceeds` and `Converges`) end in a permanent collision that asks
   for a manual fix; lamps are swapped through temporary names, groups are not.
9. *Devices that are missing, and devices that are not configured* (`Unpaired`,
   `Taken`, `Impostors`).  reconcile_names skips a configured device that is not
   paired (`provision/names.rs:41-48`), and so do the descriptions and the node
   names (`descriptions.rs:38-45`, `zwave.rs:62-69`); if it is in no room, the pass
   succeeds without it.  If it is in a room, the member request is refused and
   every pass fails there, before scenes and options of any device are written,
   until it is paired.  A foreign device that bears the name of a paired
   configured one makes every pass fail too, as only devices of the plan give up
   their names (`names.rs:57-71`).  And a foreign device that bears the name of a
   configured one which is not paired takes its place: it is added to the rooms
   and gets the options; with prune one pass adds it and the next removes it.
   `SuccessMeansProvisioned`, `CleanPassSucceeds` and `Converges` speak of what is
   paired and name these exceptions.
10. *An older report after a newer seed* (the exception `excused` of
    `DrainedIsCurrent`).  If the event channel overflows (512) or the session is
    lost during the startup fetch, an older queued report overrides the newer
    seeded state until the device reports again; a publication between the fetch
    and the subscription is lost.
11. *Lights are not swept.*  `broadcast_state_updates` sends rooms, plugs and
    zones; the comment at `daemon/event_loop.rs:132` calls it a full broadcast.
    A light that a tick made stale, or whose snapshot was overtaken by a newer
    update, stays outdated on the screen, so `ScreenSettles` speaks of what is
    swept.  A GetState that timed out leaves the page waiting.
12. *Two nonces.*  `AnsweredKept` holds because the server remembers two nonces
    and `MAX_MISSED_PINGS` is 2; with 3 it would not.
13. *Timed bindings and boosts.*  A restart, or an edit away and back, within the
    minute fires a binding again.  A sun expression that is clamped to 1440 never
    fires.  A new boost that ends in the same millisecond as an expired one
    inherits its deadline.  apply_valve_boost (`logic/heating/boost.rs:41`) takes
    the monotonic deadline from the wall clock as it stands after the save: a
    clock that is set back while the start of a boost is being saved lengthens the
    boost by as much.  `BoostBounded` measures this (`extra`) and allows exactly
    it; without `extra` the run violates it.  Flags, boosts and valve schedules are not filtered at
    restore, overrides are.
14. *A zombie of the startup* (the exception of `MotionLitIsClaimed`).
    `startup_turn_off_motion_zones` (`logic/motion.rs:542`) starts an off-only
    session over the one that a seeded occupancy started.  If the slot changed in
    between and the rule's target with it, the bulbs that only the earlier slot
    has stay owned by motion and lit, and no session claims them: vacancy does
    not switch them off.
15. *A step confirmed by an adoption* (the condition on the target's value in
    `StepConfirmedByReports`).  `adopt_off_only_group` (`logic/motion.rs:310`)
    replaces a stale target that the reports contradict by a confirmed one and
    keeps `switch_cycle`, so a room can have a cursor and a confirmed target
    that its step never asked for.

The last two were found by the proofs of `Motion`: the properties as first
stated passed their runs, whose off-only instance has one slot, and the
inductive step failed; TLC then showed both on an off-only rule with two slots.

Three more follow from the model.  An OFF report of
a relay whose Heating target is confirmed re-dirties the target
(`logic/heating/telemetry.rs:321`), and the next tick's retry does not ask
`min_pause`.  Turning all zones off (`logic/buttons.rs:483`) leaves the bulbs'
own targets: a bulb whose ON was unconfirmed keeps it in spite of its OFF
report, and motion does not light it; and it leaves the cursor of the switch
steps until an echo arrives.

Validation leaves gaps on purpose or by omission: schedules with sun expressions
are not checked for coverage, and a kill switch whose effect is on a room
passes, because only plug effects are compared with the watched plug.

## Proofs

For every value of the constants that satisfies the assumptions:

* `PlugsProofs`: `TypeCorrect`, `HoldoffClocks`, `KillsAreEarned`,
  `SuppressionLasts`.  The inductive invariant is `TypeOK /\ RulesComplete /\
  IdleClockQuiet`.  `RulesComplete` is needed because a kill suppresses only the
  entries that exist, and `IdleClockQuiet` turns the age of a clock into the
  time since the last high reading, which is what the kill property speaks of.
* `HeatingProofs`: `TypeCorrect`, `PumpClocksCorrect`, `PauseRespected`,
  `ConfirmedOffCorrect`, `HoldReleasedCorrect`, `InhibitionRespected`,
  `PlaceholdersAreReplaced`, `PressureIsJustified`, `FlowPathExists`, and
  `LoopImplementsController`.  The inductive invariant is `TypeOK /\ PumpClocks
  /\ HoldReleased /\ ConfirmedOff`.
  `PumpClocks` relates `pump_on_since` and `pump_off_since` to the history of
  the relays; `PauseRespected` follows from it because phase 1 asks
  `effective_pump_off_since`.  `DecisionTarget` and `DecisionHeld` summarise
  what a tick may do to a zone, so that the other proofs need not open the
  phases.  The three properties of a whole tick follow the passes instead:
  `AfterSchedule` says what the schedule pass and those after it can leave in a
  valve, `HoldKeepsDemand` that the min_cycle hold opens only valves without
  demand and therefore changes none, and `DecisionFlow` goes through the cases
  of phase 3 (a survivor, a pending ON, a hold with some valve that is not
  inhibited).  The closed loop implements `Heating`: a relay report that is
  handled is one that was in flight, and everything else the network does is a
  stutter.
* `MotionProofs`: `SessionsAreOccupied`, `MotionTypeCorrect`,
  `OffOnlyClaimsAreHeld`, `NoZombieClaims`, `DisabledRoomsAreReleased`,
  `CursorsAreValid`, `ManualIsSpared`, `DisabledRoomsAreSparedAtStartup`,
  `StepsAreConfirmedByReports`: all safety properties of `Motion` and `Lights`,
  for any rooms (nested or overlapping), bulbs, sensors, schedules and rules.
  The inductive invariant `MotionInv` adds to the properties `ClaimsInside` (a
  session claims bulbs of its rule only), `MotionOwned` and `ManualOwned` (who
  owns a target and who published last agree).  Two summaries carry the proof.
  Every action of `Lights` stays in the `Envelope`: what it may do to one bulb
  (`LightStep`, `ByStep`) and to one room (`CursorStep`, `ZoneStep`).  Every
  handler of `Motion` goes through `SessionStep`, whose outcome for one bulb is
  a start, an OFF, a release or nothing (`Starting`, `Switching`, `Freeing`)
  under the conditions on the plan in `PlanOK`.  Disjoint bulbs make "one rule
  per bulb" exact, and `SessionOccupied` is what keeps a vacancy from meeting a
  session that it should have ended already.
* `ButtonsProofs`: `PressesNeverLost` and `DoubleTapSuppresses`, from the
  invariant `Typed /\ TapsKnown /\ PendingUnsuppressed /\ PressesAccounted`.
  `TapsKnown` ties last_double_tap to the double tap that was dispatched, and
  `PendingUnsuppressed` says that a press which waits was stamped outside the
  suppression window: a double tap takes the pending press with it, so a flush
  cannot follow it too soon.
* `SettingsProofs`: `TypeCorrect`, `RestartInvisible` and `Refinement`, from
  `TypeOK /\ Opened /\ Serving`.  `Opened` describes the steps of the migration; `Serving` relates the copy of the processor to
  the database while a request is half done.  The refinement maps each step to
  a step of `SettingRegister` or a stutter; `Copy` and `Drop` stutter because
  the abstract value already sees the migrated rows.
* In the same module, about `Automation`: `AutoRestartInvisible` and
  `AutoRefinement` carry these results over: under the clocks the settings take their own
  steps, except for a refused boost, which is a refusal of the register
  (`SettingsStep`).  `BoostsAreBounded` rests on `BoostInv`: the deadline of a
  boost is within its budget, and what it gained from a clock set back during the
  save of its start, or over (`BoostHeld`).  For the boost that is being saved
  (`BoostPending`), either it repeats the end of the one in memory, whose deadline
  it will keep whatever the clock does, or `now + ends - epoch`, which time that
  passes leaves alone, exceeds what was asked for by what the wall clock was set
  back so far.  `TimedBindingsFireOnce` rests on `TimedInv`: what is due and has
  fired in this minute is marked; an edit touches the bindings of its own
  setting only (`OthersStay`).
* In the same module, about `Configuration`, for configurations of any size:
  `SweepIsTiling`, `SlotsFollowEachOther`, `StepsAreFormed`, `RoomsAreForest`,
  `HeatingIsFormed`, `RulesAreFormed`, together `StartsValidated`.  A stable sort exists because an
  element's rank, the number of elements sooner than it, is a bijection
  (`SortExists`).  A sweep that succeeds leaves no gap: the first range in sorted
  order that ends after a minute holds it (`SweepTiles`); conversely a gap is a
  minute that no range holds and an overlap is a start that two hold
  (`TiledSweeps`).  A slot holds its first minute and the one before its end, and
  whatever holds a minute that is not its first holds the one before
  (`SlotArithmetic`, `SlotBefore`), so the slot that takes over at an end begins
  there.  The walk over parents stays in every closed set it enters
  (`WalkStays`); without repetition it is at the top after as many steps as there
  are rooms, by the pigeonhole principle (`ChainReachesTop`), and what it met is
  then closed, hence all that is above the room (`WalkIsAbove`); a repetition
  puts a room above itself (`RepeatIsCycle`).  The inductions are over least
  counterexamples, which also give the recursive `Ancestor` its solution
  (`AncestorIs`).
* `DashboardProofs`: `DrainedCurrent` (invariant `Ingested`: unless excused, the
  newest publication is the last in the queue, or what the seed read, or what the
  processor has), `StreamComplete` (`Streamed`: a connection that is not lagged
  is behind on nothing) and `AnsweringIsKept` (`Beating`: a pending ping is in
  flight, and when one was missed before it, so is that one and its nonce is
  still remembered; assumes MAX_MISSED_PINGS = 2, as in the code).
* `ProvisionProofs`: `SuccessProvisions`, from `PassInvariant`.  The invariant
  goes along the phases: while a phase issues its requests, what is configured of
  paired devices and of rooms is there or still among the requests (`Renaming`, `AttributesInv`, `PruneInv`,
  `CreateInv`, `MembersInv`, `ScenesInv`); once they are through it is there,
  and later phases leave it alone.  A plan is complete because the group list
  it is made from is the bridge's: `CacheInv` (a cached list is current, or a
  newer one is on its way) and `Fresh` (a phase that changed groups makes the
  next one read them again).  That plans have every request rests on `Listing`:
  a listing of a finite set has all its members.  Names come last-rename-wins:
  the request that gives a device its name is the last one about it.  Once the
  names fit, who bears a configured name is its device or an impostor
  (`KeysFit`), so a served member request changes nobody else's membership, and
  one that was served has found somebody, so a pass that got through has every
  room member named.
* `ProvisionProofs`, second half: `CleanPasses`, from `CleanInvariant`.  A pass
  without faults can fail at a refused request, at a missing room, at a collision
  and at a fetch.  A request is refused only for a name that a foreign device has
  or a member that is not paired (`HeadPossible`): a configured device that bears a
  wanted name has its temporary rename earlier in the list (`Unblocked`), and the
  group requests are otherwise possible now and take no name or id that another
  needs (`Ready`), which every served request preserves (`StaysAcceptable`).  Creating a
  room's group needs more: no other group has the room's id, because the renames
  before gave every such group the room's name (`IdsAgree`).  No room is missing
  since the scenes are planned from the bridge's own list.  A collision is a
  `Clash` of the bridge's groups, for the same reason.  And a fetch can wait in
  vain only for the members: `ListInv` follows the list through the cache, which
  only a "fresh" read empties, and a created group is published again.
* The assumptions: thresholds lie within `MaxAge`; rules are numbers; pressure
  groups are disjoint and inside one zone, and every zone has a valve; the bulbs
  of motion rules are disjoint (that validation delivers these is
  `StartsValidated`); lists of a configuration are sequences, maps are finite, hours
  and minutes are unsigned, and a room has a name (`DayShape`, `SlotShape`,
  `RoomShape`, `RuleShape`, `StepShape`: the types of `config/`); an event does not wait so long that `MaxAge` would hide a
  window; capacities are positive; the table of boosts can hold what a request
  starts or edits, and durations are positive; friendly names and addresses,
  room ids and room names are distinct, rooms list devices of the configuration,
  and the bridge has finitely many devices, configured ones or not, with different
  friendly names, and finitely many groups of them, whose ids and names are unique
  (`GroupsUnique`); no other device has, or is configured to get, the temporary name
  of a configured one (`TmpReserved`: `__tmp_swap_` and an address,
  `provision/names.rs:72`), or is configured to get the address of another as its
  name (`AddressesReserved`); nothing in the code rules such names out, but no user
  would choose them.  Names of devices and names of groups are taken to differ
  (zigbee2mqtt keeps both in one name space).

Every safety and action property that a run checks is proved.  Only
model-checked are the liveness properties (`HoldoffResolves`, `PumpStops`,
`OnCommandLands`, `DemandServed`, `SessionsEnd`, `PressResolves`, `Converges`,
`SilentIsClosed`, `ScreenSettles`): fairness is out of the prover's reach.  So is
the sum in `SpansAddUp`, an induction over a fold.

## Not modelled, and why

* Parts of heating: the clocks of the open-window detector (its verdict is left
  open, which covers them) and the merging of partial valve reports.
* Validation of option ranges, of Z-Wave node ids, of negative durations and of
  the need of a location; `Manual` stands for a device whose options pass.
* The fields of snapshots and payloads, their parsing and formatting, the event
  log, Home Assistant discovery: data that no property depends on.
* History, energy and audit: they record what happened; nothing reads them back
  into control.  The dashboard's reconnect timing and rendering.
* Provisioning's dry run, which issues no requests; a failing fetch of the device
  list or of the WebSocket states, which ends the pass before its first request or
  before the options; devices that join or leave while passes run.
* The MQTT client, the broker, zigbee2mqtt, Z-Wave JS UI and SQLite are external
  and modelled only by how the code uses them; Nix packaging is not modelled.
