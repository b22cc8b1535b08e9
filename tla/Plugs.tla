------------------------------- MODULE Plugs -------------------------------
(***************************************************************************)
(* One smart plug: its on/off target, its relay and meter readings, and    *)
(* the kill-switch rules (PowerBelow bindings) that watch it               *)
(* (logic/plugs.rs, entities/plug.rs, the plug effects of logic/buttons.rs,*)
(* web_set_plug_power and the tick of logic/mod.rs, apply_plug_override of *)
(* logic/automation_overrides.rs).                                         *)
(*                                                                         *)
(* Topology validation rejects a rule that watches one plug and turns off  *)
(* another (PowerBelowCrossTarget), so plugs do not interact and one plug  *)
(* is the whole component.  The device and the network are the environment:*)
(* a report may carry any relay state and any reading at any time, which   *)
(* covers lost, late, duplicated and reordered messages.                   *)
(***************************************************************************)
EXTENDS Tass

CONSTANTS DeployedRules,   \* the plug's configured rules, as binding indices
          OverrideRule,    \* the rule a dashboard schedule may define instead
          Watts,           \* rule -> threshold
          Holdoff,         \* rule -> time below the threshold before it fires
          Readings,        \* meter readings; meters report spurious negatives
          TargetStale,     \* TARGET_STALE_THRESHOLD
          PlugStale,       \* PLUG_ACTUAL_STALE_THRESHOLD
          ConfirmOff       \* confirm_off_seconds of the toggle binding

NoReading == -1
NoPending == -1

Rules == DeployedRules \cup {OverrideRule}

ASSUME PlugsAssumption ==
  /\ DeployedRules \subseteq Nat /\ OverrideRule \in Nat \ DeployedRules
  /\ Watts \in [Rules -> Nat]
  /\ Holdoff \in [Rules -> 1 .. MaxAge]
  /\ Readings \subseteq Int \ {NoReading}
  /\ TargetStale \in 1 .. MaxAge /\ PlugStale \in 1 .. MaxAge
  /\ ConfirmOff \in 0 .. (MaxAge - 1)

VARIABLES target,       \* PlugEntity.target
          actual,       \* PlugEntity.actual
          power,        \* PlugEntity.power
          rules,        \* PlugEntity.kill_switch_rules, a partial function
          override,     \* the dashboard's plug schedule, persisted
          confirmOff,   \* confirm_off_pending of the toggle binding
          running,      \* the event loop has been entered
          quiet         \* history: time since a reading at or above Watts[r]
                        \* was evaluated while the plug counted as on

vars == <<target, actual, power, rules, override, confirmOff, running, quiet>>


Switch == {"On", "Off"}

Inactive   == [state |-> "Inactive", age |-> 0]
Armed      == [state |-> "Armed", age |-> 0]
Suppressed == [state |-> "Suppressed", age |-> 0]
IdleNow    == [state |-> "Idle", age |-> 0]

NoRules    == [r \in {} |-> Inactive]

RuleStates == [state : {"Inactive", "Armed", "Idle", "Suppressed"}, age : Ages]

\* A mutant: the clamp of one of the ingestion paths is missing.
Unclamped(watts) == watts

\* The clamp in handle_plug_state and in observe
Clamped(watts) == IF watts < 0 THEN 0 ELSE watts

PowerReports == {Clamped(watts) : watts \in Readings} \cup {NoReading}

\* A plug schedule supersedes every deployed power_below rule of the plug.
Overrides == {"deployed", "with_kill_switch", "without_kill_switch"}

RulesUnder(o) == IF o = "deployed" THEN DeployedRules
                 ELSE IF o = "with_kill_switch" THEN {OverrideRule} ELSE {}

\* power_below_bindings
EffectiveRules == RulesUnder(override)

\* is_on: optimistic, the target or the last reading says so.
IsOn(t, a) == t.value = "On" \/ a.value = "On"

RuleState(ks, r) == IF r \in DOMAIN ks THEN ks[r] ELSE Inactive

IsIdle(r) == r \in DOMAIN rules /\ rules[r].state = "Idle"

-----------------------------------------------------------------------------
(* The rule state machine *)

\* A mutant: an off transition also ends a suppression.
ClearedWithSuppression(ks) == [r \in DOMAIN ks |-> Inactive]

\* on_off_clear_kill_switches
Cleared(ks) ==
  [r \in DOMAIN ks |-> IF ks[r].state = "Suppressed" THEN ks[r] ELSE Inactive]

\* suppress_all_kill_switches
AllSuppressed(ks) == [r \in DOMAIN ks |-> Suppressed]

\* arm_kill_switch_rules
ArmRules(ks, effective, seed) ==
  [r \in DOMAIN ks \cup effective |->
     IF r \notin effective \/ RuleState(ks, r).state \in {"Suppressed", "Armed"}
       THEN RuleState(ks, r)
     ELSE IF seed # NoReading /\ seed < Watts[r] THEN IdleNow ELSE Armed]

\* A mutant: a reading at or above the threshold leaves a running clock alone.
RuleStepKeepsIdle(s, r, watts) ==
  IF watts >= Watts[r] THEN IF s.state = "Idle" THEN s ELSE Armed
  ELSE IF s.state = "Armed" THEN IdleNow ELSE s

\* evaluate_kill_switch, one rule that does not fire
RuleStep(s, r, watts) ==
  IF watts >= Watts[r] THEN Armed
  ELSE IF s.state = "Armed" THEN IdleNow ELSE s

\* evaluate_kill_switch: the rules whose holdoff a low reading completes
FiredBy(ks, watts) ==
  {r \in EffectiveRules : /\ watts < Watts[r]
                          /\ RuleState(ks, r).state = "Idle"
                          /\ RuleState(ks, r).age >= Holdoff[r]}

\* evaluate_kill_switch, the loop: it stops at the first rule that fires,
\* and apply_kill_switch_fired then suppresses every rule of the plug.
Evaluated(ks, watts) ==
  LET fired == FiredBy(ks, watts)
      seen  == {r \in EffectiveRules : \A q \in fired : r =< q}
      next  == [r \in DOMAIN ks \cup seen |->
                  IF r \in seen THEN RuleStep(RuleState(ks, r), r, watts)
                                ELSE ks[r]]
  IN  IF fired = {} THEN next ELSE AllSuppressed(next)

\* maybe_confirm_plug_target
MaybeConfirm(t, a) ==
  IF t.phase \in {"Commanded", "Stale"} /\ t.value = a.value
    THEN Confirmed(t) ELSE t

-----------------------------------------------------------------------------
(* Operations *)

\* A fresh process; only the persisted override survives a restart.
FreshState ==
  /\ target = UnsetTarget
  /\ actual = UnknownActual(None)
  /\ power = UnknownActual(NoReading)
  /\ rules = NoRules
  /\ confirmOff = NoPending
  /\ running = FALSE
  /\ quiet = [r \in Rules |-> 0]

Init == FreshState /\ override \in Overrides

Restart ==
  /\ target' = UnsetTarget
  /\ actual' = UnknownActual(None)
  /\ power' = UnknownActual(NoReading)
  /\ rules' = NoRules
  /\ confirmOff' = NoPending
  /\ running' = FALSE
  /\ quiet' = [r \in Rules |-> 0]
  /\ UNCHANGED override

\* set_plug_actual: the startup seed of a bridge's cached state.
SetPlugActual(on, watts) ==
  /\ ~running
  /\ actual' = Observed(on)
  /\ power' = IF watts = NoReading THEN power ELSE Observed(watts)
  /\ UNCHANGED <<target, rules, override, confirmOff, running, quiet>>

\* arm_kill_switches_for_active_plugs, then run_event_loop
EnterEventLoop ==
  /\ ~running
  /\ running' = TRUE
  /\ rules' = IF actual.value = "On"
                THEN ArmRules(rules, EffectiveRules, power.value) ELSE rules
  /\ UNCHANGED <<target, actual, power, override, confirmOff, quiet>>

\* handle_plug_state, once the readings are merged into actual' and power'
PlugStateOff ==
  /\ rules' = Cleared(rules)
  /\ target' = MaybeConfirm(target, actual')

PlugStateOn(on, watts) ==
  LET rose  == on = "On" /\ (~IsOn(target, actual)
                              \/ actual.freshness = "Unknown")
      armed == IF rose THEN ArmRules(rules, EffectiveRules, watts) ELSE rules
      known == IF on = None THEN target ELSE MaybeConfirm(target, actual')
      last  == power'.value
  IN  IF last = NoReading
        THEN rules' = armed /\ target' = known
        ELSE /\ rules' = Evaluated(armed, last)
             /\ target' = IF FiredBy(armed, last) # {}
                            THEN Commanded("Off", "Rule") ELSE known

\* handle_plug_state
PlugState(on, watts) ==
  /\ running
  /\ actual' = IF on = None THEN actual ELSE Observed(on)
  /\ power' = IF watts = NoReading THEN power ELSE Observed(watts)
  /\ IF on = "Off" THEN PlugStateOff
     ELSE IF IsOn(target, actual') THEN PlugStateOn(on, watts)
     ELSE UNCHANGED <<target, rules>>
  /\ quiet' = [r \in Rules |->
                 IF IsOn(target, actual') /\ watts >= Watts[r] THEN 0
                 ELSE quiet[r]]
  /\ UNCHANGED <<override, confirmOff, running>>

\* ResolvedEffect::Toggle, from the binding that has confirm_off_seconds
\* (`confirm`), whose confirm_off_pending this is, or from one that has not
Toggle(confirm) ==
  /\ running
  /\ LET secondTap == confirmOff # NoPending /\ confirmOff =< ConfirmOff
         done      == IF confirm THEN NoPending ELSE confirmOff
     IN  IF ~IsOn(target, actual)
           THEN /\ target' = Commanded("On", "User")
                /\ confirmOff' = done
                /\ UNCHANGED rules
         ELSE IF confirm /\ ~secondTap
           THEN confirmOff' = 0 /\ UNCHANGED <<target, rules>>
         ELSE /\ target' = Commanded("Off", "User")
              /\ rules' = Cleared(rules)
              /\ confirmOff' = done
  /\ UNCHANGED <<actual, power, override, running, quiet>>

\* ResolvedEffect::TurnOn
TurnOn ==
  /\ running
  /\ target' = Commanded("On", "User")
  /\ UNCHANGED <<actual, power, rules, override, confirmOff, running, quiet>>

\* ResolvedEffect::TurnOff
TurnOff ==
  /\ running
  /\ target' = Commanded("Off", "User")
  /\ rules' = Cleared(rules)
  /\ UNCHANGED <<actual, power, override, confirmOff, running, quiet>>

\* web_set_plug_power: the rules are left as they are.
WebSetPlugPower(on) ==
  /\ running
  /\ target' = Commanded(on, "WebUI")
  /\ UNCHANGED <<actual, power, rules, override, confirmOff, running, quiet>>

\* A mutant: an override saved while the plug is off leaves the rules alone.
ApplyPlugOverrideLazily(o) ==
  /\ running
  /\ override' = o
  /\ rules' = IF IsOn(target, actual)
                THEN ArmRules(NoRules, RulesUnder(o), power.value) ELSE rules
  /\ UNCHANGED <<target, actual, power, confirmOff, running, quiet>>

\* apply_plug_override: rule state restarts from the current reading.
ApplyPlugOverride(o) ==
  /\ running
  /\ override' = o
  /\ rules' = IF IsOn(target, actual)
                THEN ArmRules(NoRules, RulesUnder(o), power.value) ELSE NoRules
  /\ UNCHANGED <<target, actual, power, confirmOff, running, quiet>>

\* Mutants: the tick does not compare the clock with the holdoff; the tick
\* trusts only a fresh reading.
FiredByTickEarly ==
  {r \in EffectiveRules : IsOn(target, actual) /\ IsIdle(r)}

FiredByTickIfFresh ==
  {r \in EffectiveRules : /\ IsOn(target, actual) /\ power.freshness = "Fresh"
                          /\ IsIdle(r) /\ rules[r].age >= Holdoff[r]}

\* evaluate_kill_switch_ticks: the rules whose holdoff is over
FiredByTick ==
  {r \in EffectiveRules : /\ IsOn(target, actual)
                          /\ IsIdle(r) /\ rules[r].age >= Holdoff[r]}

\* handle_tick: kill switches, then target and actual staleness
Tick ==
  /\ running
  /\ rules' = IF FiredByTick # {} THEN AllSuppressed(rules) ELSE rules
  /\ target' = TargetAged(IF FiredByTick # {} THEN Commanded("Off", "Rule")
                                              ELSE target, TargetStale)
  /\ actual' = ActualAged(actual, PlugStale)
  /\ power' = ActualAged(power, PlugStale)
  /\ UNCHANGED <<override, confirmOff, running, quiet>>

\* The clock.  Ticks are late when the loop is blocked, so time does not wait.
Advance ==
  /\ target' = TargetOlder(target)
  /\ actual' = ActualOlder(actual)
  /\ power' = ActualOlder(power)
  /\ rules' = [r \in DOMAIN rules |->
                 IF rules[r].state = "Idle"
                   THEN [rules[r] EXCEPT !.age = Older(@)] ELSE rules[r]]
  /\ confirmOff' = IF confirmOff = NoPending THEN NoPending
                                             ELSE Older(confirmOff)
  /\ quiet' = [r \in Rules |-> Older(quiet[r])]
  /\ UNCHANGED <<override, running>>

Next ==
  \/ \E on \in Switch, watts \in PowerReports :
       SetPlugActual(on, watts)
  \/ EnterEventLoop
  \/ \E on \in Switch \cup {None}, watts \in PowerReports :
       PlugState(on, watts)
  \/ \E confirm \in BOOLEAN : Toggle(confirm)
  \/ TurnOn
  \/ TurnOff
  \/ \E on \in Switch : WebSetPlugPower(on)
  \/ \E o \in Overrides : ApplyPlugOverride(o)
  \/ Tick
  \/ Advance
  \/ Restart

Spec == Init /\ [][Next]_vars

\* The interval timer of run_event_loop keeps ticking, and time passes.
FairSpec == Spec /\ WF_vars(Tick) /\ WF_vars(Advance)

-----------------------------------------------------------------------------
(* Properties *)

\* Every variable has its type; in particular rule state exists only for
\* rules known to the plug.
TypeOK ==
  /\ target \in TassTarget(Switch)
  /\ actual \in TassActual(Switch \cup {None})
  /\ power \in TassActual(Nat \cup {NoReading})
  /\ override \in Overrides
  /\ DOMAIN rules \subseteq Rules
  /\ rules \in [DOMAIN rules -> RuleStates]
  /\ confirmOff \in Ages \cup {NoPending}
  /\ running \in BOOLEAN
  /\ quiet \in [Rules -> Ages]

\* kill_switch_rules is created on demand, yet apply_kill_switch_fired only
\* suppresses the entries that exist: either no rule in force has an entry or
\* all have one, and no superseded rule has one (after any mix of arming,
\* evaluation and override changes).
RulesComplete == DOMAIN rules \in {{}, EffectiveRules}

\* A holdoff clock never runs across a reading at or above the threshold that
\* was evaluated while the plug counted as on: `Idle { since }` is younger
\* than the last such reading (evaluate_kill_switch, arm_kill_switch_rules).
IdleClockQuiet ==
  \A r \in DOMAIN rules : rules[r].state = "Idle" => rules[r].age =< quiet[r]

\* A kill switch turns the plug off only when some rule in force has seen no
\* such reading for its whole holdoff.
Fires == \E r \in DOMAIN rules \cap DOMAIN rules' :
           /\ rules[r].state # "Suppressed"
           /\ rules'[r].state = "Suppressed"

KillAfterHoldoff ==
  [][Fires => /\ target' = Commanded("Off", "Rule")
              /\ \E r \in EffectiveRules : quiet[r] >= Holdoff[r]]_vars

\* A fired rule cannot fire again on the same dip: its suppression survives
\* off/on cycles, commands and ticks, and ends only with a reading at or above
\* the threshold on a plug that is on, a new rule set, or a restart.
SuppressionHolds ==
  [][\A r \in DOMAIN rules :
        rules[r].state = "Suppressed" =>
          \/ r \in DOMAIN rules' /\ rules'[r].state = "Suppressed"
          \/ IsOn(target', actual') /\ power'.value >= Watts[r]
          \/ rules' = NoRules /\ ~running'
          \/ \E o \in Overrides : ApplyPlugOverride(o)]_vars

\* A holdoff clock that runs on a plug that counts as on is always resolved:
\* the plug is killed, the load recovers, or the plug is switched off.  Only
\* saving the plug schedule, which restarts the clock (apply_plug_override),
\* again and again can put that off for ever.
HoldoffResolves ==
  \A r \in Rules :
    <>[](IsIdle(r) /\ IsOn(target, actual))
      => []<><<\E o \in Overrides : ApplyPlugOverride(o)>>_vars
=============================================================================
