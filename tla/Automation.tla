----------------------------- MODULE Automation -----------------------------
(***************************************************************************)
(* The two clocked settings on top of Settings: valve boosts, which end at *)
(* the earlier of a monotonic and a wall-clock deadline                    *)
(* (logic/heating/boost.rs, settings/boost.rs), and timed bindings, which  *)
(* fire on the tick that finds the wall clock in their minute              *)
(* (logic/schedule.rs).  The wall clock may be stepped both ways; the      *)
(* monotonic one only runs.  One unit of time is a minute.  The process    *)
(* starts on a configuration that the validators of Configuration accept.  *)
(***************************************************************************)
EXTENDS Settings, Configuration

CONSTANTS Temps,       \* boost targets of the dashboard
          Durations,   \* BOOST_DURATIONS_MINUTES
          Deployed,    \* room or plug -> minute of its deployed timed binding
          Day,         \* minutes in a day
          MaxEpoch,    \* bound: wall-clock readings
          MaxNow       \* bound: monotonic readings

Boosted == {k \in Keys : Kind[k] = "boost"}
Timed   == {k \in Keys : Kind[k] \in {"time", "plug"}}

ASSUME AutomationAssumption ==
  /\ Temps \subseteq Nat /\ Durations \subseteq Nat \ {0}
  /\ Deployed \in [Timed -> 0 .. Day - 1]
  /\ Day \in Nat \ {0} /\ MaxEpoch \in Nat /\ MaxNow \in Nat
  \* the table can hold the boosts that requests start and edit
  /\ \A k \in Boosted, t \in Temps :
       /\ \A e \in 0 .. MaxEpoch, m \in Durations :
            [legal |-> TRUE, temp |-> t, ends |-> e + m] \in Options[k]
       /\ \A v \in Options[k] : [v EXCEPT !.temp = t] \in Options[k]

VARIABLES epoch,      \* clock.epoch_millis
          now,        \* clock.now
          deadline,   \* boost_deadlines: valve -> reading of `now`
          lastFired,  \* at_last_fired
          asked,      \* history: when the boost being saved was asked to end
          budget,     \* history: when the boost of a valve was asked to end
          setBack,    \* history: minutes the wall clock was set back, on balance,
                      \* since the start that is being saved was requested
          extra,      \* history: the same of the boost a valve has, when it was
                      \* applied
          done        \* history: bindings fired since the minute began, the
                      \* process started and their setting was edited

clocked == <<epoch, now, deadline, lastFired, asked, budget, setBack, extra, done>>
allVars == <<vars, clocked>>

Minute == epoch % Day

-----------------------------------------------------------------------------
(* Boosts *)

Active(k) == \E b \in mem[k] : now < deadline[k] /\ epoch < b.ends

\* The end of a boost on the monotonic clock (saturating_sub)
EndOf(row) == IF \E b \in row : b.ends > epoch
                THEN now + (CHOOSE b \in row : TRUE).ends - epoch ELSE now

\* The boosts carry their end: two rows with the same one differ in target.
Ends(row) == {b.ends : b \in row}

\* A mutant: every applied boost restarts the monotonic timer.
AppliedDeadlineAlways(k, row) == EndOf(row)

\* apply_valve_boost: an edit of the target keeps the monotonic deadline.
AppliedDeadline(k, row) == IF Ends(row) = Ends(mem[k]) THEN deadline[k] ELSE EndOf(row)

\* change_valve_boost
BoostStart(k, t, minutes) ==
  /\ ~Active(k)
  /\ Ask(k, {[legal |-> TRUE, temp |-> t, ends |-> epoch + minutes]})
  /\ asked' = now + minutes /\ setBack' = 0

BoostTarget(k, t) ==
  /\ Active(k)
  /\ \E b \in mem[k] : Ask(k, {[b EXCEPT !.temp = t]})
  /\ asked' = budget[k] /\ setBack' = extra[k]

BoostCancel(k) == Ask(k, {}) /\ asked' = 0 /\ setBack' = 0

\* "Boost is already active" and "Boost is no longer active"; an illegal
\* target or duration is refused the same way.
BoostRefused ==
  /\ proc = "running" /\ req = NoReq
  /\ answer' = "error"
  /\ UNCHANGED <<db, legacy, mem, dep, proc, req, asked, setBack>>

BoostRequest(k) ==
  /\ \/ \E t \in Temps, m \in Durations : BoostStart(k, t, m)
     \/ \E t \in Temps : BoostTarget(k, t)
     \/ BoostCancel(k)
     \/ BoostRefused
  /\ UNCHANGED <<epoch, now, deadline, lastFired, budget, extra, done>>

-----------------------------------------------------------------------------
(* Timed bindings, by name: <<owner, 0>> is a deployed one and <<plug, i>>   *)
(* the i-th action of the plug's override.                                 *)

\* effective_bindings, timed_action_time
Effective ==
  UNION {IF mem[k] = {} THEN {[name |-> <<k, 0>>, at |-> Deployed[k]]}
         ELSE UNION {{[name |-> <<k, IF Kind[k] = "time" THEN 0 ELSE i>>, at |-> v.at[i]]
                        : i \in DOMAIN v.at} : v \in mem[k]}
         : k \in Timed \cap dep.known}

DueBindings == {b \in Effective : b.at = Minute}

\* A mutant: the mark of a binding is cleared by the next tick.
MarkedOnce == DueBindings \ lastFired

\* evaluate_at_triggers: what at_last_fired holds after a tick
Marked == {f \in lastFired : \A b \in Effective : b.name # f.name} \cup DueBindings

\* The bindings whose effects a tick executes
Firing == DueBindings \ lastFired

Names(bs) == {b.name : b \in bs}

Tick ==
  /\ proc = "running" /\ req = NoReq
  /\ lastFired' = Marked
  /\ done' = done \cup Names(Firing)
  /\ UNCHANGED <<vars, epoch, now, deadline, asked, budget, setBack, extra>>

-----------------------------------------------------------------------------
AutoInit ==
  /\ Init
  /\ epoch = 0 /\ now = 0
  /\ deadline = [k \in Boosted |-> 0]
  /\ lastFired = {} /\ done = {}
  /\ asked = 0 /\ setBack = 0
  /\ budget = [k \in Boosted |-> 0] /\ extra = [k \in Boosted |-> 0]

Opening ==
  /\ Copy \/ Drop
  /\ UNCHANGED clocked

\* restore_settings ends with restore_boost_deadlines.
Starting ==
  /\ \E d \in Deployments : Start(d)
  /\ deadline' = [k \in Boosted |-> EndOf(mem'[k])]
  /\ budget' = deadline' /\ extra' = [k \in Boosted |-> 0]
  /\ UNCHANGED <<epoch, now, lastFired, asked, setBack, done>>

SettingRequest ==
  /\ \E k \in Keys \ Boosted : \E row \in RowsOf(k) : Ask(k, row) \/ Reject(k, row)
  /\ UNCHANGED clocked

Saving ==
  /\ Save \/ SaveFails
  /\ asked' = IF req' = NoReq THEN 0 ELSE asked
  /\ setBack' = IF req' = NoReq THEN 0 ELSE setBack
  /\ UNCHANGED <<epoch, now, deadline, lastFired, budget, extra, done>>

Applying ==
  /\ Apply
  /\ deadline' = [k \in Boosted |->
                    IF k = req.key THEN AppliedDeadline(k, req.row) ELSE deadline[k]]
  /\ budget' = [k \in Boosted |-> IF k = req.key THEN asked ELSE budget[k]]
  /\ extra' = [k \in Boosted |-> IF k = req.key THEN setBack ELSE extra[k]]
  /\ done' = {n \in done : n[1] # req.key}
  /\ asked' = 0 /\ setBack' = 0
  /\ UNCHANGED <<epoch, now, lastFired>>

\* Deadlines and marks live in the process.
Crashing ==
  /\ Crash
  /\ deadline' = [k \in Boosted |-> 0]
  /\ lastFired' = {} /\ done' = {}
  /\ asked' = 0 /\ setBack' = 0
  /\ budget' = [k \in Boosted |-> 0] /\ extra' = [k \in Boosted |-> 0]
  /\ UNCHANGED <<epoch, now>>

\* Time passes, during a save too.
Pass ==
  /\ epoch < MaxEpoch /\ now < MaxNow
  /\ epoch' = epoch + 1 /\ now' = now + 1
  /\ done' = {}
  /\ UNCHANGED <<vars, deadline, lastFired, asked, budget, setBack, extra>>

\* A start is being saved: its monotonic deadline is not known yet.
Starts == req.key \in Boosted /\ req.row # {} /\ Ends(req.row) # Ends(mem[req.key])

\* The wall clock is set, during a save too.
Step(e) ==
  /\ e # epoch
  /\ epoch' = e
  /\ setBack' = IF Starts THEN setBack + epoch - e ELSE setBack
  /\ done' = IF e % Day = Minute THEN done ELSE {}
  /\ UNCHANGED <<vars, now, deadline, lastFired, asked, budget, extra>>

AutoNext ==
  \/ Opening \/ Starting \/ SettingRequest \/ Saving \/ Applying \/ Crashing
  \/ \E k \in Boosted : BoostRequest(k)
  \/ Tick \/ Pass
  \/ \E e \in 0 .. MaxEpoch : Step(e)

AutoSpec == AutoInit /\ [][AutoNext]_allVars

-----------------------------------------------------------------------------
(* Properties *)

\* A boost heats no longer than it was asked to, on the monotonic clock, however
\* the wall clock is set while it runs and however often its target is edited
\* then.  There is one exception: apply_valve_boost takes the monotonic deadline
\* from the wall clock as it stands when the start has been saved, so a clock
\* that was set back during the save lengthens the boost by just as much (and one
\* set forward shortens it).  A restart has only the wall clock to go by.
BoostBounded ==
  proc = "running" => \A k \in Boosted : Active(k) => now < budget[k] + extra[k]

\* While the clock stays in one minute a timed binding fires at most once, in
\* spite of any number of ticks and of edits of other settings; only an edit
\* of its own setting or a restart can make it fire again.
TimedFiresOnce == [][Tick => Names(Firing) \cap done = {}]_allVars

\* The configuration the program starts with has the shape that the modules
\* assume, once Topology::build has accepted it.
StartsAsAssumed == AutoInit => AcceptedIsAssumed
=============================================================================
