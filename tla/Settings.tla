------------------------------ MODULE Settings ------------------------------
(***************************************************************************)
(* Dashboard settings: the SQLite tables of settings.rs, the copy the      *)
(* processor works with, and the requests that change both (settings.rs,   *)
(* settings/*.rs, the validators of logic/automation_overrides.rs).        *)
(*                                                                         *)
(* A request is validated against the deployment, saved, applied and       *)
(* answered; the event loop serves nothing else meanwhile, but the process *)
(* may die between any two steps and come back with another deployment.    *)
(* A row is an option, written as a set of at most one value.              *)
(***************************************************************************)
EXTENDS Integers, FiniteSets, Sequences

CONSTANTS Keys,          \* the settings: one table row each
          Kind,          \* setting -> its table
          Options,       \* setting -> the values its row can hold
          Deployments,   \* the configurations the program may be started with
          LegacyRows,    \* setting -> its row in scene_schedule_overrides
          Scenes         \* scene ids

Flags     == {"motion", "demand"}
Schedules == {"room", "rule"}
Overrides == Schedules \cup {"time", "plug"}
Kinds     == Flags \cup Overrides \cup {"boost", "valve"}

\* A flag row, a valve boost, and an override: `legal` is what a validator
\* decides from the value alone (slot coverage, temperature, threshold...).
FlagValues     == [enabled : BOOLEAN]
BoostValues    == [legal : BOOLEAN, temp : Nat, ends : Int]
OverrideValues == [legal : BOOLEAN, sun : BOOLEAN, kill : BOOLEAN,
                   scenes : SUBSET Scenes, at : Seq(Nat)]

RowsOf(k) == {{}} \cup {{v} : v \in Options[k]}
Rows      == UNION {RowsOf(k) : k \in Keys}

\* The type of a table's values
ValuesOf(kind) == IF kind \in Flags THEN FlagValues
                  ELSE IF kind = "boost" THEN BoostValues ELSE OverrideValues

\* A deployment: the rooms, rules, bindings, valves and plugs it has, the
\* plugs that report power, the scenes of each room, and a location or not.
DeploymentRecords ==
  [known : SUBSET Keys, metered : SUBSET Keys,
   scenes : [Keys -> SUBSET Scenes], located : BOOLEAN]

ASSUME SettingsAssumption ==
  /\ Kind \in [Keys -> Kinds]
  /\ Deployments \subseteq DeploymentRecords /\ Deployments # {}
  /\ \A k \in Keys : Options[k] \subseteq ValuesOf(Kind[k]) /\ LegacyRows[k] \in RowsOf(k)
  /\ "none" \notin Keys

VARIABLES db,       \* the tables
          legacy,   \* whether scene_schedule_overrides still exists
          mem,      \* processor.settings and what is resolved from it
          dep,      \* the deployment the process runs with
          proc,     \* "stopped", "copied", "opened" (the steps of open), "running"
          req,      \* the request being served
          answer    \* the last reply: "none", "ok" or "error"

vars == <<db, legacy, mem, dep, proc, req, answer>>

NoReq   == [key |-> "none", row |-> {}, saved |-> FALSE]
Nothing == [k \in Keys |-> {}]

-----------------------------------------------------------------------------
(* The validators *)

\* validate_slots, validate_room_override, validate_motion_override
ScheduleFits(d, k, v) ==
  v.legal /\ (v.sun => d.located) /\ v.scenes \subseteq d.scenes[k]

\* validate_timed_action, validate_timed_action_time
TimeFits(d, v) == v.legal /\ (v.sun => d.located)

\* validate_plug_override
PlugFits(d, k, v) == TimeFits(d, v) /\ (v.kill => k \in d.metered)

\* Does the deployment have what the setting is about, and can it hold the
\* value?  A flag needs no more; the temperatures and the schedule of a valve
\* are legal by themselves.
Fits(d, k, v) ==
  /\ k \in d.known
  /\ CASE Kind[k] \in Flags     -> TRUE
       [] Kind[k] \in Schedules -> ScheduleFits(d, k, v)
       [] Kind[k] = "time"      -> TimeFits(d, v)
       [] Kind[k] = "plug"      -> PlugFits(d, k, v)
       [] OTHER                 -> v.legal

\* A request to set or to reset a setting; a flag is always set.
Acceptable(d, k, row) ==
  /\ k \in d.known
  /\ Kind[k] \in Flags => row # {}
  /\ \A v \in row : Fits(d, k, v)

\* load: only disabled flags are read; other rows as they are.
Loaded(k, row) == IF Kind[k] \in Flags THEN {v \in row : ~v.enabled} ELSE row

\* load fails, and the program with it, on a row it cannot validate by itself.  (Of
\* a plug's override it validates the kill switch; no other part is ever stored
\* illegal.)
Loadable(rows) ==
  \A k \in Keys : Kind[k] \in {"boost", "valve", "plug"} =>
                    \A v \in rows[k] : v.legal

\* restore_settings: discard_inapplicable_overrides drops the overrides that
\* do not fit, and neither flags nor the settings of valves.
Restored(d, rows) ==
  [k \in Keys |-> IF Kind[k] \in Overrides
                    THEN {v \in rows[k] : Fits(d, k, v)}
                    ELSE Loaded(k, rows[k])]

\* open, when the old table exists: its motion rows are copied over.
Migrated(rows) ==
  [k \in Keys |-> IF legacy /\ Kind[k] = "rule" /\ LegacyRows[k] # {}
                    THEN LegacyRows[k] ELSE rows[k]]

-----------------------------------------------------------------------------
Init ==
  /\ db = Nothing
  /\ legacy \in BOOLEAN
  /\ mem = Nothing
  /\ dep \in Deployments
  /\ proc = "stopped"
  /\ req = NoReq
  /\ answer = "none"

Copy ==
  /\ proc = "stopped" /\ legacy
  /\ proc' = "copied"
  /\ db' = Migrated(db)
  /\ UNCHANGED <<legacy, mem, dep, req, answer>>

\* A mutant: the old table is not dropped.
DropKeeping ==
  /\ proc = "copied"
  /\ proc' = "opened"
  /\ UNCHANGED <<db, legacy, mem, dep, req, answer>>

Drop ==
  /\ proc = "copied"
  /\ legacy' = FALSE
  /\ proc' = "opened"
  /\ UNCHANGED <<db, mem, dep, req, answer>>

\* daemon::run: load, restore, and only then the rest of the startup.
Start(d) ==
  /\ proc = "opened" \/ (proc = "stopped" /\ ~legacy)
  /\ Loadable(db)
  /\ dep' = d
  /\ mem' = Restored(d, db)
  /\ proc' = "running"
  /\ UNCHANGED <<db, legacy, req, answer>>

\* A command that passes validation goes on to the database ...
Ask(k, row) ==
  /\ proc = "running" /\ req = NoReq
  /\ Acceptable(dep, k, row)
  /\ req' = [key |-> k, row |-> row, saved |-> FALSE]
  /\ answer' = "none"
  /\ UNCHANGED <<db, legacy, mem, dep, proc>>

\* ... and one that does not is answered at once.
Reject(k, row) ==
  /\ proc = "running" /\ req = NoReq
  /\ ~Acceptable(dep, k, row)
  /\ answer' = "error"
  /\ UNCHANGED <<db, legacy, mem, dep, proc, req>>

\* The upsert or delete commits (synchronous = FULL) ...
Save ==
  /\ req # NoReq /\ ~req.saved
  /\ db' = [db EXCEPT ![req.key] = req.row]
  /\ req' = [req EXCEPT !.saved = TRUE]
  /\ UNCHANGED <<legacy, mem, dep, proc, answer>>

\* A mutant: a failed save is reported but the setting is applied.
SaveFailsApplied ==
  /\ req # NoReq /\ ~req.saved
  /\ mem' = [mem EXCEPT ![req.key] = Loaded(req.key, req.row)]
  /\ req' = NoReq
  /\ answer' = "error"
  /\ UNCHANGED <<db, legacy, dep, proc>>

\* ... or fails: the processor is left alone.
SaveFails ==
  /\ req # NoReq /\ ~req.saved
  /\ req' = NoReq
  /\ answer' = "error"
  /\ UNCHANGED <<db, legacy, mem, dep, proc>>

\* The processor takes the saved value over and the client is told.
Apply ==
  /\ req.saved
  /\ mem' = [mem EXCEPT ![req.key] = Loaded(req.key, req.row)]
  /\ req' = NoReq
  /\ answer' = "ok"
  /\ UNCHANGED <<db, legacy, dep, proc>>

Crash ==
  /\ proc # "stopped"
  /\ proc' = "stopped"
  /\ mem' = Nothing
  /\ req' = NoReq
  /\ answer' = "none"
  /\ UNCHANGED <<db, legacy, dep>>

Next ==
  \/ Copy \/ Drop
  \/ \E d \in Deployments : Start(d)
  \/ \E k \in Keys : \E row \in RowsOf(k) : Ask(k, row) \/ Reject(k, row)
  \/ Save \/ SaveFails \/ Apply
  \/ Crash

Spec == Init /\ [][Next]_vars

-----------------------------------------------------------------------------
(* Properties *)

TypeOK ==
  /\ db \in [Keys -> Rows] /\ mem \in [Keys -> Rows]
  /\ legacy \in BOOLEAN
  /\ dep \in Deployments
  /\ proc \in {"stopped", "copied", "opened", "running"}
  /\ req \in [key : Keys, row : Rows, saved : BOOLEAN] \cup {NoReq}
  /\ answer \in {"none", "ok", "error"}

\* A restart is invisible: whenever no request is being served, what the
\* processor works with is what it would restore from the database if it were
\* started again with the same deployment -- whatever was saved, refused,
\* migrated or lost in a crash before.
MemoryFollowsStore ==
  proc = "running" /\ req = NoReq => mem = Restored(dep, db)

Register ==
  INSTANCE SettingRegister
    WITH Values <- Rows, value <- Migrated(db),
         request <- [key |-> req.key, value |-> req.row, stored |-> req.saved],
         answer <- answer

\* The database, seen with the rows it still has to migrate, is a durable
\* register per setting: a client that is told "ok" has its value stored, one
\* that is told of an error has changed nothing, crashes in between lose no
\* value and no start-up, migration or new deployment overwrites one.
DurableRegister == Register!Spec
=============================================================================
