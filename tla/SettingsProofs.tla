--------------------------- MODULE SettingsProofs ---------------------------
(***************************************************************************)
(* Proofs about Settings, for every set of settings, values, deployments   *)
(* and legacy rows: the type invariant, that a restart is invisible, and   *)
(* that the tables implement SettingRegister.  Inv is the inductive        *)
(* invariant; Serving describes a request between its save and its reply,  *)
(* Opened the steps of the migration.                                      *)
(*                                                                         *)
(* The second half is about Automation, the settings with boosts, timed    *)
(* bindings and two clocks, for any targets, durations and clock bounds.   *)
(* The settings below the clocks behave as in Settings (SettingsStep), so  *)
(* the invariant and the refinement carry over.  BoostInv and TimedInv are *)
(* the invariants of the two clocked parts; neither needs the other.       *)
(*                                                                         *)
(* The last part is about Configuration: what the validators accept is     *)
(* what the other modules assume, for configurations of any size.  It is   *)
(* about operators only: the sweep over the sorted ranges of a day against *)
(* the minutes, the walk over the parents of a room against the closed     *)
(* sets of rooms (WalkStays, and a pigeonhole in ChainReachesTop), and the *)
(* duplicate checks of zones, rules and bindings.                          *)
(***************************************************************************)
EXTENDS Automation, FiniteSetTheorems, WellFoundedInduction, TLAPS

Opened ==
  /\ proc = "copied" => legacy /\ db = Migrated(db)
  /\ proc \in {"opened", "running"} => ~legacy

Serving ==
  /\ req # NoReq => proc = "running" /\ Acceptable(dep, req.key, req.row)
  /\ proc = "running" /\ ~req.saved => mem = Restored(dep, db)
  /\ req.saved => /\ db[req.key] = req.row
                  /\ \A k \in Keys \ {req.key} : mem[k] = Restored(dep, db)[k]

Inv == TypeOK /\ Opened /\ Serving

-----------------------------------------------------------------------------
(* Rows: a row holds at most one value, so part of a row is a row.           *)

LEMMA RowFacts ==
  /\ {} \in Rows \/ Keys = {}
  /\ \A k \in Keys : RowsOf(k) \subseteq Rows
  /\ \A k \in Keys : {} \in RowsOf(k)
  BY DEF Rows, RowsOf

LEMMA PartOfRow ==
  ASSUME NEW row \in Rows, NEW part \in SUBSET row PROVE part \in Rows
<1>1. PICK k \in Keys : row \in RowsOf(k)
  BY DEF Rows
<1>2. CASE row = {}
  BY <1>2
<1>3. CASE \E v \in Options[k] : row = {v}
  <2>1. PICK v \in Options[k] : row = {v}
    BY <1>3
  <2>2. part = {} \/ part = row
    BY <2>1
  <2> QED
    BY <2>2, <1>1 DEF Rows, RowsOf
<1> QED
  BY <1>1, <1>2, <1>3 DEF RowsOf

LEMMA RestoredType ==
  ASSUME NEW d, NEW rows \in [Keys -> Rows]
  PROVE  Restored(d, rows) \in [Keys -> Rows]
<1>1. ASSUME NEW k \in Keys PROVE Restored(d, rows)[k] \in SUBSET rows[k]
  BY DEF Restored, Loaded
<1> QED
  BY <1>1, PartOfRow DEF Restored

LEMMA MigratedType ==
  ASSUME NEW rows \in [Keys -> Rows] PROVE Migrated(rows) \in [Keys -> Rows]
  BY SettingsAssumption, RowFacts DEF Migrated

LEMMA MigratedDone ==
  ASSUME NEW rows \in [Keys -> Rows], ~legacy PROVE Migrated(rows) = rows
  BY DEF Migrated

LEMMA NoReqFields ==
  NoReq.key = "none" /\ NoReq.row = {} /\ NoReq.saved = FALSE
  BY DEF NoReq

LEMMA ReqFields ==
  ASSUME TypeOK, req # NoReq
  PROVE  req.key \in Keys /\ req.row \in Rows /\ req.saved \in BOOLEAN
  BY DEF TypeOK

LEMMA SavedIsReq == ASSUME req.saved PROVE req # NoReq
  BY NoReqFields

\* What Apply writes is what restore_settings would read back.
LEMMA AppliedIsRestored ==
  ASSUME TypeOK, NEW k \in Keys, Acceptable(dep, k, db[k])
  PROVE  Loaded(k, db[k]) = Restored(dep, db)[k]
<1>1. \A v \in db[k] : Fits(dep, k, v)
  BY DEF Acceptable
<1>2. CASE Kind[k] \in Overrides
  <2>1. Kind[k] \notin Flags
    BY <1>2 DEF Overrides, Schedules, Flags
  <2>2. {v \in db[k] : Fits(dep, k, v)} = db[k]
    BY <1>1
  <2> QED
    BY <1>2, <2>1, <2>2 DEF Loaded, Restored
<1>3. CASE Kind[k] \notin Overrides
  BY <1>3 DEF Restored
<1> QED
  BY <1>2, <1>3

-----------------------------------------------------------------------------
LEMMA InvInit == Init => Inv
<1> SUFFICES ASSUME Init PROVE Inv
  OBVIOUS
<1>1. Nothing \in [Keys -> Rows]
  BY RowFacts DEF Nothing
<1>2. TypeOK
  BY <1>1 DEF Init, TypeOK
<1> QED
  BY <1>2, NoReqFields DEF Init, Inv, Opened, Serving

LEMMA InvStep == ASSUME Inv, [Next]_vars PROVE Inv'
<1>0. TypeOK /\ Opened /\ Serving
  BY DEF Inv
<1>1. CASE Copy
  <2>1. db' \in [Keys -> Rows]
    BY <1>0, <1>1, MigratedType DEF Copy, TypeOK
  <2>2. req = NoReq
    BY <1>0, <1>1 DEF Copy, Serving
  <2>3. db' = Migrated(db)'
    BY <1>1 DEF Copy, Migrated
  <2> QED
    BY <1>0, <1>1, <2>1, <2>2, <2>3, NoReqFields DEF Copy, Inv, TypeOK, Opened, Serving
<1>2. CASE Drop
  <2>1. req = NoReq
    BY <1>0, <1>2 DEF Drop, Serving
  <2> QED
    BY <1>0, <1>2, <2>1, NoReqFields DEF Drop, Inv, TypeOK, Opened, Serving
<1>3. CASE \E d \in Deployments : Start(d)
  <2> PICK d \in Deployments : Start(d)
    BY <1>3
  <2>1. mem' \in [Keys -> Rows]
    BY <1>0, RestoredType DEF Start, TypeOK
  <2>2. req = NoReq
    BY <1>0 DEF Start, Serving
  <2>3. mem' = Restored(dep, db)'
    BY DEF Start, Restored
  <2>4. Opened'
    BY <1>0 DEF Start, Opened
  <2>5. TypeOK'
    BY <1>0, <2>1 DEF Start, TypeOK
  <2>6. req' = NoReq
    BY <2>2 DEF Start
  <2> QED
    BY <2>3, <2>4, <2>5, <2>6, NoReqFields DEF Inv, Serving
<1>4. CASE \E k \in Keys : \E row \in RowsOf(k) : Ask(k, row)
  <2>a. PICK k \in Keys : \E row \in RowsOf(k) : Ask(k, row)
    BY <1>4
  <2> PICK row \in RowsOf(k) : Ask(k, row)
    BY <2>a
  <2>1. row \in Rows
    BY RowFacts
  <2>2. req'.key = k /\ req'.row = row /\ req'.saved = FALSE
    BY DEF Ask
  <2>3. TypeOK'
    BY <1>0, <2>1 DEF Ask, TypeOK
  <2>4. mem' = Restored(dep, db)' /\ Acceptable(dep, k, row)'
    BY <1>0, NoReqFields DEF Ask, Serving, Restored, Acceptable
  <2> QED
    BY <1>0, <2>2, <2>3, <2>4 DEF Ask, Inv, Opened, Serving, Migrated
<1>5. CASE \E k \in Keys : \E row \in RowsOf(k) : Reject(k, row)
  BY <1>0, <1>5 DEF Reject, Inv, TypeOK, Opened, Serving, Migrated
<1>6. CASE Save
  <2>1. req.key \in Keys /\ req.row \in Rows /\ proc = "running" /\ mem = Restored(dep, db)
    BY <1>0, <1>6, ReqFields DEF Save, Serving
  <2>2. /\ db' = [db EXCEPT ![req.key] = req.row]
        /\ req' = [req EXCEPT !.saved = TRUE]
        /\ UNCHANGED <<legacy, mem, dep, proc, answer>>
    BY <1>6 DEF Save
  <2>3. req \in [key : Keys, row : Rows, saved : BOOLEAN]
    BY <1>0, <1>6 DEF Save, TypeOK
  <2>4. req'.key = req.key /\ req'.row = req.row /\ req'.saved = TRUE
    BY <2>2, <2>3
  <2>5. TypeOK'
    BY <1>0, <2>1, <2>2, <2>3 DEF TypeOK
  <2>6. Acceptable(dep, req.key, req.row)'
    BY <1>0, <1>6, <2>2, <2>4 DEF Save, Serving
  <2>7. db'[req.key] = req.row
    BY <1>0, <2>1, <2>2 DEF TypeOK
  <2>8. ASSUME NEW k \in Keys \ {req.key}
        PROVE  mem'[k] = Restored(dep, db)'[k]
    <3>1. db'[k] = db[k]
      BY <1>0, <2>2 DEF TypeOK
    <3> QED
      BY <2>1, <2>2, <3>1 DEF Restored
  <2>9. Opened'
    BY <1>0, <2>1, <2>2 DEF Opened
  <2> QED
    BY <2>1, <2>2, <2>4, <2>5, <2>6, <2>7, <2>8, <2>9 DEF Inv, Serving
<1>7. CASE SaveFails
  <2>1. mem' = Restored(dep, db)' /\ req' = NoReq /\ proc' = "running"
    BY <1>0, <1>7 DEF SaveFails, Serving, Restored
  <2>2. TypeOK' /\ Opened'
    BY <1>0, <1>7 DEF SaveFails, TypeOK, Opened, Migrated
  <2> QED
    BY <2>1, <2>2, NoReqFields DEF Inv, Serving
<1>8. CASE Apply
  <2> DEFINE k == req.key
  <2>1. /\ k \in Keys /\ proc = "running" /\ Acceptable(dep, k, req.row)
        /\ db[k] = req.row
        /\ \A j \in Keys \ {k} : mem[j] = Restored(dep, db)[j]
    BY <1>0, <1>8, SavedIsReq, ReqFields DEF Apply, Serving
  <2>2. /\ mem' = [mem EXCEPT ![k] = Loaded(k, db[k])] /\ req' = NoReq
        /\ answer' = "ok" /\ UNCHANGED <<db, legacy, dep, proc>>
    BY <1>8, <2>1 DEF Apply
  <2> HIDE DEF k
  <2>3. Restored(dep, db) \in [Keys -> Rows]
    BY <1>0, RestoredType DEF TypeOK
  <2>4. mem' = Restored(dep, db)
    BY <1>0, <2>1, <2>2, <2>3, AppliedIsRestored DEF TypeOK
  <2>5. Restored(dep, db)' = Restored(dep, db)
    BY <2>2 DEF Restored
  <2>6. TypeOK' /\ Opened'
    BY <1>0, <2>2, <2>3, <2>4 DEF TypeOK, Opened, Migrated
  <2> QED
    BY <2>2, <2>4, <2>5, <2>6, NoReqFields DEF Inv, Serving
<1>9. CASE Crash
  <2>1. Nothing \in [Keys -> Rows]
    BY RowFacts DEF Nothing
  <2> QED
    BY <1>0, <1>9, <2>1, NoReqFields DEF Crash, Inv, TypeOK, Opened, Serving
<1>10. CASE UNCHANGED vars
  BY <1>0, <1>10 DEF vars, Inv, TypeOK, Opened, Serving, Migrated, Restored, Acceptable
<1> QED
  BY <1>1, <1>2, <1>3, <1>4, <1>5, <1>6, <1>7, <1>8, <1>9, <1>10 DEF Next

LEMMA Invariance == Spec => []Inv
  BY InvInit, InvStep, PTL DEF Spec

\* Every table row, request and reply stays well typed (settings.rs).
THEOREM TypeCorrect == Spec => []TypeOK
<1>1. Inv => TypeOK
  BY DEF Inv
<1> QED
  BY <1>1, Invariance, PTL

\* When no request is being served, the processor works with exactly what it
\* would restore from the database (load, restore_settings and the save-then-
\* apply order of the control requests), after any crashes and migrations.
THEOREM RestartInvisible == Spec => []MemoryFollowsStore
<1>1. Inv => MemoryFollowsStore
  BY NoReqFields DEF Inv, Serving, MemoryFollowsStore
<1> QED
  BY <1>1, Invariance, PTL

\* The empty database, with the rows of an earlier release, is a register.
LEMMA RegisterInit == Init => Register!Init
<1> SUFFICES ASSUME Init PROVE Register!Init
  OBVIOUS
<1>1. db \in [Keys -> Rows]
  BY RowFacts DEF Init, Nothing
<1>2. Migrated(db) \in [Keys -> Rows]
  BY <1>1, MigratedType
<1> QED
  BY <1>2, NoReqFields DEF Init, Register!Init, Register!NoRequest

\* Every step of the tables is a step of the register or none at all.
LEMMA RegisterStep ==
  ASSUME Inv, [Next]_vars PROVE [Register!Next]_Register!vars
<1> DEFINE request == [key |-> req.key, value |-> req.row, stored |-> req.saved]
<1>0. TypeOK /\ Opened /\ Serving /\ db \in [Keys -> Rows]
  BY DEF Inv, TypeOK
<1>1. CASE Copy
  <2>1. Migrated(db)' = Migrated(db)
    BY <1>1 DEF Copy, Migrated
  <2> QED
    BY <1>1, <2>1 DEF Copy, Register!vars
<1>2. CASE Drop
  <2>1. Migrated(db) = db
    BY <1>0, <1>2 DEF Drop, Opened
  <2>2. Migrated(db)' = db
    BY <1>0, <1>2 DEF Drop, Migrated
  <2> QED
    BY <1>2, <2>1, <2>2 DEF Drop, Register!vars
<1>3. CASE \E d \in Deployments : Start(d)
  BY <1>3 DEF Start, Register!vars, Migrated
<1>4. CASE \E k \in Keys : \E row \in RowsOf(k) : Ask(k, row)
  <2>a. PICK k \in Keys : \E row \in RowsOf(k) : Ask(k, row)
    BY <1>4
  <2> PICK row \in RowsOf(k) : Ask(k, row)
    BY <2>a
  <2>1. row \in Rows
    BY RowFacts
  <2>2. Register!Ask(k, row)
    BY NoReqFields DEF Ask, Register!Ask, Register!NoRequest, Migrated
  <2> QED
    BY <2>1, <2>2 DEF Register!Next
<1>5. CASE \E k \in Keys : \E row \in RowsOf(k) : Reject(k, row)
  <2>a. /\ req = NoReq /\ req' = NoReq /\ answer' = "error"
        /\ UNCHANGED <<db, legacy>>
    BY <1>5 DEF Reject
  <2>1. Register!Refuse
    BY <2>a, NoReqFields DEF Register!Refuse, Register!NoRequest, Migrated
  <2> QED
    BY <2>1 DEF Register!Next
<1>6. CASE Save
  <2>1. req \in [key : Keys, row : Rows, saved : BOOLEAN] /\ ~legacy /\ req.key \in Keys
    BY <1>0, <1>6, ReqFields DEF Save, TypeOK, Serving, Opened
  <2>2. Migrated(db) = db
    BY <1>0, <2>1, MigratedDone
  <2>3. Migrated(db)' = [Migrated(db) EXCEPT ![req.key] = req.row]
    BY <1>0, <1>6, <2>1, <2>2 DEF Save, Migrated
  <2>4. request # Register!NoRequest
    BY <1>0, <2>1, SettingsAssumption DEF Register!NoRequest
  <2>5. request' = [key |-> request.key, value |-> request.value, stored |-> TRUE]
    <3>1. req'.key = req.key /\ req'.row = req.row /\ req'.saved = TRUE
      BY <1>6, <2>1 DEF Save
    <3>2. request' = [key |-> req.key, value |-> req.row, stored |-> TRUE]
      BY <3>1, Zenon
    <3>3. request.key = req.key /\ request.value = req.row
      OBVIOUS
    <3> QED
      BY <3>2, <3>3, Zenon
  <2>6. Register!Commit
    BY <1>6, <2>3, <2>4, <2>5 DEF Save, Register!Commit
  <2> QED
    BY <2>6 DEF Register!Next
<1>7. CASE SaveFails
  <2>1. Register!Refuse
    BY <1>7, NoReqFields DEF SaveFails, Register!Refuse, Register!NoRequest, Migrated
  <2> QED
    BY <2>1 DEF Register!Next
<1>8. CASE Apply
  <2>1. Register!Accept
    BY <1>8, NoReqFields DEF Apply, Register!Accept, Register!NoRequest, Migrated
  <2> QED
    BY <2>1 DEF Register!Next
<1>9. CASE Crash
  <2>1. Register!Lose
    BY <1>9, NoReqFields DEF Crash, Register!Lose, Register!NoRequest, Migrated
  <2> QED
    BY <2>1 DEF Register!Next
<1>10. CASE UNCHANGED vars
  BY <1>10 DEF vars, Register!vars, Migrated
<1> QED
  BY <1>1, <1>2, <1>3, <1>4, <1>5, <1>6, <1>7, <1>8, <1>9, <1>10 DEF Next

\* The tables, seen with the rows still to be migrated, implement the durable
\* register SettingRegister: every step of the code maps to one of its steps
\* or changes nothing a client can see.
THEOREM Refinement == Spec => DurableRegister
  BY RegisterInit, RegisterStep, Invariance, PTL DEF Spec, DurableRegister, Register!Spec

-----------------------------------------------------------------------------
(* Automation *)

\* The readings of the clocks and the deadlines are numbers.
ClocksOK ==
  /\ epoch \in 0 .. MaxEpoch /\ now \in Nat /\ asked \in Int /\ setBack \in Int
  /\ deadline \in [Boosted -> Int]
  /\ budget \in [Boosted -> Int] /\ extra \in [Boosted -> Int]

\* The boost a valve has ends in time, but for what it gained, or has ended.
BoostHeld ==
  proc = "running" =>
    \A k \in Boosted : mem[k] # {} =>
      deadline[k] <= budget[k] + extra[k] \/ deadline[k] <= now

\* So will the one being saved: an edit keeps the deadline of the boost, and a
\* start will get its end shifted by what the wall clock was set back.
BoostPending ==
  \A k \in Boosted : req.key = k /\ req.row # {} =>
    IF Ends(req.row) = Ends(mem[k])
      THEN deadline[k] <= asked + setBack \/ deadline[k] <= now
      ELSE \A b \in req.row : now + b.ends - epoch = asked + setBack

\* The rows of a valve are those its table can hold.
BoostRows ==
  /\ \A k \in Boosted : db[k] \in RowsOf(k) /\ mem[k] \in RowsOf(k)
  /\ \A k \in Boosted : req.key = k => req.row \in RowsOf(k)

BoostInv == ClocksOK /\ BoostRows /\ BoostHeld /\ BoostPending

\* A binding that has fired in this minute, and is still due, is marked.
TimedInv ==
  /\ proc # "running" => done = {}
  /\ \A b \in DueBindings : b.name \in done => b \in lastFired

-----------------------------------------------------------------------------
(* The settings under the clocks *)

\* A boost row is empty or one boost with an end.
LEMMA BoostRow ==
  ASSUME NEW k \in Boosted, NEW row \in RowsOf(k)
  PROVE  row = {} \/ \E v \in Options[k] : row = {v} /\ v.ends \in Int
<1>1. Options[k] \subseteq BoostValues
  BY SettingsAssumption DEF Boosted, ValuesOf, Flags
<1>2. \A v \in BoostValues : v.ends \in Int
  BY DEF BoostValues
<1> QED
  BY <1>1, <1>2 DEF RowsOf

\* Boosts are neither filtered on load nor discarded by a deployment, and the
\* migration leaves them alone.
LEMMA BoostKind ==
  ASSUME NEW k \in Boosted
  PROVE  /\ k \in Keys /\ k # "none"
         /\ \A row : Loaded(k, row) = row
         /\ \A d, rows : Restored(d, rows)[k] = rows[k]
         /\ \A rows : Migrated(rows)[k] = rows[k]
  BY SettingsAssumption DEF Boosted, Loaded, Restored, Migrated, Flags, Overrides, Schedules

\* A start or an edit of a boost writes a row its table can hold.
LEMMA BoostRowsFit ==
  ASSUME ClocksOK, BoostRows, NEW k \in Boosted, NEW t \in Temps
  PROVE  /\ \A m \in Durations :
              {[legal |-> TRUE, temp |-> t, ends |-> epoch + m]} \in RowsOf(k)
         /\ \A b \in mem[k] : {[b EXCEPT !.temp = t]} \in RowsOf(k)
<1>1. \A m \in Durations : [legal |-> TRUE, temp |-> t, ends |-> epoch + m] \in Options[k]
  BY AutomationAssumption DEF ClocksOK
<1>2. mem[k] \subseteq Options[k]
  BY DEF BoostRows, RowsOf
<1>3. \A v \in Options[k] : [v EXCEPT !.temp = t] \in Options[k]
  BY AutomationAssumption
<1> QED
  BY <1>1, <1>2, <1>3 DEF RowsOf

\* Under the clocks the settings take their own steps; a refused boost is
\* answered with an error and changes nothing else.
LEMMA SettingsStep ==
  ASSUME ClocksOK, BoostRows, [AutoNext]_allVars
  PROVE  [Next]_vars \/ BoostRefused
<1>1. CASE Opening
  BY <1>1 DEF Opening, Next
<1>2. CASE Starting
  BY <1>2 DEF Starting, Next
<1>3. CASE SettingRequest
  <2>1. PICK k \in Keys \ Boosted : \E row \in RowsOf(k) : Ask(k, row) \/ Reject(k, row)
    BY <1>3 DEF SettingRequest
  <2> QED
    BY <2>1 DEF Next
<1>4. CASE Saving
  BY <1>4 DEF Saving, Next
<1>5. CASE Applying
  BY <1>5 DEF Applying, Next
<1>6. CASE Crashing
  BY <1>6 DEF Crashing, Next
<1>7. CASE \E k \in Boosted : BoostRequest(k)
  <2>1. PICK k \in Boosted : BoostRequest(k)
    BY <1>7
  <2>2. ASSUME NEW row \in RowsOf(k), Ask(k, row) PROVE Next
    BY <2>2 DEF Next, Boosted
  <2>3. CASE \E t \in Temps, m \in Durations : BoostStart(k, t, m)
    BY <2>2, <2>3, BoostRowsFit DEF BoostStart
  <2>4. CASE \E t \in Temps : BoostTarget(k, t)
    BY <2>2, <2>4, BoostRowsFit DEF BoostTarget
  <2>5. CASE BoostCancel(k)
    BY <2>2, <2>5 DEF BoostCancel, RowsOf
  <2> QED
    BY <2>1, <2>3, <2>4, <2>5 DEF BoostRequest
<1>8. CASE Tick \/ Pass \/ \E e \in 0 .. MaxEpoch : Step(e)
  BY <1>8 DEF Tick, Pass, Step
<1>9. CASE UNCHANGED allVars
  BY <1>9 DEF allVars
<1> QED
  BY <1>1, <1>2, <1>3, <1>4, <1>5, <1>6, <1>7, <1>8, <1>9 DEF AutoNext

LEMMA RefusedKeepsInv == ASSUME Inv, BoostRefused PROVE Inv'
  BY DEF BoostRefused, Inv, TypeOK, Opened, Serving, Migrated, Restored, Acceptable

-----------------------------------------------------------------------------
(* Boosts *)

LEMMA EndOfInt ==
  ASSUME ClocksOK, NEW k \in Boosted, NEW row \in RowsOf(k)
  PROVE  /\ EndOf(row) \in Int
         /\ EndOf(row) <= now \/ \A b \in row : EndOf(row) = now + b.ends - epoch
<1>1. CASE row = {}
  BY <1>1 DEF EndOf, ClocksOK
<1>2. CASE row # {}
  <2>1. PICK v \in Options[k] : row = {v} /\ v.ends \in Int
    BY <1>2, BoostRow
  <2>2. (CHOOSE b \in row : TRUE) = v
    BY <2>1
  <2> QED
    BY <2>1, <2>2 DEF EndOf, ClocksOK
<1> QED
  BY <1>1, <1>2

LEMMA BoostInit == AutoInit => BoostInv
<1> SUFFICES ASSUME AutoInit PROVE BoostInv
  OBVIOUS
<1>1. ClocksOK
  BY AutomationAssumption DEF AutoInit, ClocksOK
<1>2. BoostRows
  BY NoReqFields, BoostKind DEF AutoInit, Init, BoostRows, Nothing, RowsOf
<1> QED
  BY <1>1, <1>2, NoReqFields DEF AutoInit, Init, BoostInv, BoostHeld, BoostPending

\* A start of a boost: the clocks agree on its end, unless the row repeats the
\* end of a boost that is over.
LEMMA StartPends ==
  ASSUME Inv, BoostInv, NEW k \in Boosted, NEW t \in Temps, NEW m \in Durations,
         BoostStart(k, t, m), UNCHANGED <<epoch, now, deadline, budget, extra>>
  PROVE  BoostPending'
<1> DEFINE v == [legal |-> TRUE, temp |-> t, ends |-> epoch + m]
<1>1. req'.key = k /\ req'.row = {v} /\ mem' = mem /\ asked' = now + m /\ setBack' = 0
  BY DEF BoostStart, Ask
<1>2. epoch \in Nat /\ now \in Nat /\ m \in Nat /\ m > 0 /\ deadline[k] \in Int
  BY AutomationAssumption DEF BoostInv, ClocksOK
<1>3. v.ends = epoch + m
  OBVIOUS
<1> HIDE DEF v
<1>4. Ends({v}) = {epoch + m}
  BY <1>3 DEF Ends
<1>5. ASSUME Ends({v}) = Ends(mem[k]) PROVE deadline[k] <= now
  <2>1. PICK b \in mem[k] : b.ends = epoch + m
    BY <1>4, <1>5 DEF Ends
  <2>2. epoch < b.ends
    BY <1>2, <2>1
  <2>3. ~(now < deadline[k])
    BY <2>2 DEF BoostStart, Active
  <2> QED
    BY <1>2, <2>3
<1>6. \A b \in {v} : now + b.ends - epoch = now + m
  BY <1>2, <1>3
<1> QED
  BY <1>1, <1>5, <1>6 DEF BoostPending, Ends

\* An edit of the target keeps the end.
LEMMA EditPends ==
  ASSUME Inv, BoostInv, NEW k \in Boosted, NEW t \in Temps,
         BoostTarget(k, t), UNCHANGED <<epoch, now, deadline, budget, extra>>
  PROVE  BoostPending'
<1>1. PICK b \in mem[k] : Ask(k, {[b EXCEPT !.temp = t]})
  BY DEF BoostTarget
<1> DEFINE v == [b EXCEPT !.temp = t]
<1>2. /\ req'.key = k /\ req'.row = {v} /\ mem' = mem /\ proc = "running"
      /\ asked' = budget[k] /\ setBack' = extra[k]
  BY <1>1 DEF Ask, BoostTarget
<1>3. Options[k] \subseteq BoostValues
  BY SettingsAssumption DEF Boosted, ValuesOf, Flags
<1>4. mem[k] = {b} /\ b \in BoostValues
  <2>1. mem[k] \in RowsOf(k)
    BY DEF BoostInv, BoostRows
  <2> QED
    BY <1>3, <2>1 DEF RowsOf
<1>5. v.ends = b.ends
  BY <1>4 DEF BoostValues
<1> HIDE DEF v
<1>6. Ends({v}) = Ends(mem[k])
  BY <1>4, <1>5 DEF Ends
<1>7. deadline[k] <= budget[k] + extra[k] \/ deadline[k] <= now
  BY <1>2 DEF BoostInv, BoostHeld
<1>8. Ends(req.row)' = Ends(mem[k])'
  BY <1>2, <1>6 DEF Ends
<1> QED
  BY <1>2, <1>7, <1>8 DEF BoostPending

\* Steps that touch neither the settings nor the boosts.
LEMMA BoostFrame ==
  ASSUME BoostInv, UNCHANGED <<db, mem, proc, req, epoch, now, deadline, budget, extra, asked, setBack>>
  PROVE  BoostInv'
  BY DEF BoostInv, ClocksOK, BoostRows, BoostHeld, BoostPending, Ends

\* Between requests nothing pends.
LEMMA IdlePends == ASSUME req = NoReq PROVE BoostPending
  BY NoReqFields, BoostKind DEF BoostPending

LEMMA IdleRows ==
  ASSUME req' = NoReq, \A k \in Boosted : (db[k] \in RowsOf(k))' /\ (mem[k] \in RowsOf(k))'
  PROVE  BoostRows'
  BY NoReqFields, BoostKind DEF BoostRows

LEMMA RequestKeeps ==
  ASSUME Inv, BoostInv, NEW k \in Boosted, BoostRequest(k) PROVE BoostInv'
<1>1. ClocksOK /\ BoostRows /\ BoostHeld /\ BoostPending
  BY DEF BoostInv
<1>2. UNCHANGED <<epoch, now, deadline, budget, extra>>
  BY DEF BoostRequest
<1>3. ASSUME NEW row \in RowsOf(k), Ask(k, row), BoostPending', asked' \in Int, setBack' \in Int
      PROVE  BoostInv'
  <2>1. /\ req'.key = k /\ req'.row = row
        /\ UNCHANGED <<db, mem, proc>>
    BY <1>3 DEF Ask
  <2>2. ClocksOK'
    BY <1>1, <1>2, <1>3 DEF ClocksOK
  <2>3. BoostRows'
    BY <1>1, <2>1 DEF BoostRows
  <2>4. BoostHeld'
    BY <1>1, <1>2, <2>1 DEF BoostHeld
  <2> QED
    BY <1>3, <2>2, <2>3, <2>4 DEF BoostInv
<1>4. ASSUME NEW t \in Temps, NEW m \in Durations, BoostStart(k, t, m) PROVE BoostInv'
  <2>1. BoostPending'
    BY <1>2, <1>4, StartPends
  <2>2. asked' \in Int /\ setBack' \in Int
    BY <1>1, <1>4, AutomationAssumption DEF BoostStart, ClocksOK
  <2> QED
    BY <1>1, <1>3, <1>4, <2>1, <2>2, BoostRowsFit DEF BoostStart
<1>5. ASSUME NEW t \in Temps, BoostTarget(k, t) PROVE BoostInv'
  <2>1. BoostPending'
    BY <1>2, <1>5, EditPends
  <2>2. asked' \in Int /\ setBack' \in Int
    BY <1>1, <1>5 DEF BoostTarget, ClocksOK
  <2> QED
    BY <1>1, <1>3, <1>5, <2>1, <2>2, BoostRowsFit DEF BoostTarget
<1>6. CASE BoostCancel(k)
  <2>1. req'.row = {} /\ asked' = 0 /\ setBack' = 0 /\ Ask(k, {})
    BY <1>6 DEF BoostCancel, Ask
  <2>2. BoostPending'
    BY <2>1 DEF BoostPending
  <2> QED
    BY <1>3, <2>1, <2>2 DEF RowsOf
<1>7. CASE BoostRefused
  BY <1>2, <1>7, BoostFrame DEF BoostRefused
<1> QED
  BY <1>4, <1>5, <1>6, <1>7 DEF BoostRequest

LEMMA ApplyKeeps ==
  ASSUME Inv, BoostInv, Applying PROVE BoostInv'
<1>1. ClocksOK /\ BoostRows /\ BoostHeld /\ BoostPending
  BY DEF BoostInv
<1>2. req # NoReq /\ req.key \in Keys /\ proc = "running" /\ mem \in [Keys -> Rows]
  BY SavedIsReq, ReqFields DEF Applying, Apply, Inv, Serving, TypeOK
<1>3. /\ mem' = [mem EXCEPT ![req.key] = Loaded(req.key, req.row)]
      /\ req' = NoReq /\ asked' = 0 /\ setBack' = 0
      /\ deadline' = [k \in Boosted |->
                        IF k = req.key THEN AppliedDeadline(k, req.row) ELSE deadline[k]]
      /\ budget' = [k \in Boosted |-> IF k = req.key THEN asked ELSE budget[k]]
      /\ extra' = [k \in Boosted |-> IF k = req.key THEN setBack ELSE extra[k]]
      /\ UNCHANGED <<db, proc, epoch, now>>
  BY DEF Applying, Apply
<1>4. ASSUME NEW k \in Boosted, k # req.key
      PROVE  /\ mem'[k] = mem[k] /\ deadline'[k] = deadline[k]
             /\ budget'[k] = budget[k] /\ extra'[k] = extra[k]
  BY <1>2, <1>3, <1>4 DEF Boosted
<1>5. ASSUME NEW k \in Boosted, k = req.key
      PROVE  /\ mem'[k] = req.row /\ req.row \in RowsOf(k)
             /\ deadline'[k] = AppliedDeadline(k, req.row)
             /\ budget'[k] = asked /\ extra'[k] = setBack
  BY <1>1, <1>2, <1>3, <1>5, BoostKind DEF BoostRows
<1>6. ClocksOK'
  <2>1. ASSUME NEW k \in Boosted PROVE deadline'[k] \in Int /\ budget'[k] \in Int /\ extra'[k] \in Int
    BY <1>1, <1>4, <1>5, EndOfInt DEF ClocksOK, AppliedDeadline
  <2> QED
    BY <1>1, <1>3, <2>1 DEF ClocksOK
<1>7. BoostRows'
  BY <1>1, <1>3, <1>4, <1>5, IdleRows DEF BoostRows, RowsOf
<1>8. ASSUME NEW k \in Boosted, mem'[k] # {}
      PROVE  deadline'[k] <= budget'[k] + extra'[k] \/ deadline'[k] <= now
  <2>1. CASE k # req.key
    BY <1>1, <1>2, <1>4, <1>8, <2>1 DEF BoostHeld
  <2>2. CASE k = req.key /\ Ends(req.row) = Ends(mem[k])
    BY <1>1, <1>5, <1>8, <2>2 DEF BoostPending, AppliedDeadline
  <2>3. CASE k = req.key /\ Ends(req.row) # Ends(mem[k])
    <3>1. deadline'[k] = EndOf(req.row) /\ req.row \in RowsOf(k) /\ req.row # {}
      BY <1>5, <1>8, <2>3 DEF AppliedDeadline
    <3>2. \A b \in req.row : now + b.ends - epoch = asked + setBack
      BY <1>1, <2>3, <3>1 DEF BoostPending
    <3>3. EndOf(req.row) <= now \/ EndOf(req.row) = asked + setBack
      BY <1>1, <3>1, <3>2, EndOfInt
    <3> QED
      BY <1>1, <1>5, <2>3, <3>1, <3>3 DEF ClocksOK
  <2> QED
    BY <2>1, <2>2, <2>3
<1>9. BoostHeld'
  BY <1>3, <1>8 DEF BoostHeld
<1> QED
  BY <1>3, <1>6, <1>7, <1>9, NoReqFields, BoostKind DEF BoostInv, BoostPending

LEMMA BoostStep ==
  ASSUME Inv, BoostInv, [AutoNext]_allVars PROVE BoostInv'
<1>0. ClocksOK /\ BoostRows /\ BoostHeld /\ BoostPending /\ Serving /\ TypeOK
  BY DEF BoostInv, Inv
<1>1. CASE Opening
  <2>1. /\ proc # "running" /\ proc' # "running" /\ UNCHANGED <<req, mem>>
        /\ db' = Migrated(db) \/ db' = db
        /\ UNCHANGED <<epoch, now, deadline, asked, budget, setBack, extra>>
    BY <1>1 DEF Opening, Copy, Drop, clocked
  <2>2. req = NoReq /\ req' = NoReq
    BY <1>0, <2>1 DEF Serving
  <2>3. \A k \in Boosted : db'[k] = db[k] /\ mem'[k] = mem[k]
    BY <2>1, BoostKind
  <2>4. BoostRows'
    BY <1>0, <2>2, <2>3, IdleRows DEF BoostRows, RowsOf
  <2>5. ClocksOK' /\ BoostHeld'
    BY <1>0, <2>1 DEF ClocksOK, BoostHeld
  <2> QED
    BY <2>2, <2>4, <2>5, NoReqFields, BoostKind DEF BoostInv, BoostPending
<1>2. CASE Starting
  <2>1. PICK d \in Deployments : Start(d)
    BY <1>2 DEF Starting
  <2>2. /\ proc # "running" /\ mem' = Restored(d, db) /\ UNCHANGED <<db, req>>
    BY <2>1 DEF Start
  <2>3. /\ deadline' = [k \in Boosted |-> EndOf(mem'[k])] /\ budget' = deadline'
        /\ extra' = [k \in Boosted |-> 0] /\ UNCHANGED <<epoch, now, asked, setBack>>
    BY <1>2 DEF Starting
  <2>4. req = NoReq /\ req' = NoReq
    BY <1>0, <2>2 DEF Serving
  <2>5. \A k \in Boosted : db'[k] = db[k] /\ mem'[k] = db[k]
    BY <2>2, BoostKind
  <2>6. BoostRows'
    BY <1>0, <2>4, <2>5, IdleRows DEF BoostRows, RowsOf
  <2>7. \A k \in Boosted : EndOf(mem'[k]) \in Int
    BY <1>0, <2>5, EndOfInt DEF BoostRows
  <2>8. ClocksOK'
    BY <1>0, <2>3, <2>7 DEF ClocksOK
  <2>9. BoostHeld'
    BY <2>3, <2>8 DEF BoostHeld, ClocksOK
  <2> QED
    BY <2>4, <2>6, <2>8, <2>9, NoReqFields, BoostKind DEF BoostInv, BoostPending
<1>3. CASE SettingRequest
  <2>1. PICK k \in Keys \ Boosted : \E row \in RowsOf(k) : Ask(k, row) \/ Reject(k, row)
    BY <1>3 DEF SettingRequest
  <2>2. UNCHANGED <<epoch, now, deadline, asked, budget, setBack, extra>>
    BY <1>3 DEF SettingRequest, clocked
  <2>3. CASE \E row \in RowsOf(k) : Reject(k, row)
    BY <2>2, <2>3, BoostFrame DEF Reject
  <2>4. CASE \E row \in RowsOf(k) : Ask(k, row)
    <3>1. req'.key = k /\ UNCHANGED <<db, mem, proc>>
      BY <2>4 DEF Ask
    <3> QED
      BY <1>0, <2>2, <3>1 DEF BoostInv, ClocksOK, BoostRows, BoostHeld, BoostPending, RowsOf
  <2> QED
    BY <2>1, <2>3, <2>4
<1>4. CASE Saving /\ Save
  <2>1. req \in [key : Keys, row : Rows, saved : BOOLEAN] /\ db \in [Keys -> Rows]
    BY <1>0, <1>4 DEF Save, TypeOK
  <2>2. /\ db' = [db EXCEPT ![req.key] = req.row]
        /\ req'.key = req.key /\ req'.row = req.row /\ req'.saved = TRUE
        /\ UNCHANGED <<mem, proc>>
    BY <1>4, <2>1 DEF Save
  <2>3. UNCHANGED <<epoch, now, deadline, budget, extra, asked, setBack>>
    BY <1>4, <2>2, NoReqFields DEF Saving
  <2>4. \A k \in Boosted : db'[k] \in RowsOf(k)
    BY <1>0, <2>1, <2>2 DEF BoostRows, Boosted
  <2>5. BoostRows'
    BY <1>0, <2>2, <2>4 DEF BoostRows, RowsOf
  <2>6. ClocksOK' /\ BoostHeld'
    BY <1>0, <2>2, <2>3 DEF ClocksOK, BoostHeld
  <2>7. BoostPending'
    BY <1>0, <2>2, <2>3 DEF BoostPending, Ends
  <2> QED
    BY <2>5, <2>6, <2>7 DEF BoostInv
<1>5. CASE Saving /\ SaveFails
  <2>1. req' = NoReq /\ UNCHANGED <<db, mem, proc>>
    BY <1>5 DEF SaveFails
  <2>2. UNCHANGED <<epoch, now, deadline, budget, extra>> /\ asked' = 0 /\ setBack' = 0
    BY <1>5, <2>1 DEF Saving
  <2>3. ClocksOK' /\ BoostHeld'
    BY <1>0, <2>1, <2>2 DEF ClocksOK, BoostHeld
  <2>4. BoostRows'
    BY <1>0, <2>1, IdleRows DEF BoostRows, RowsOf
  <2> QED
    BY <2>1, <2>3, <2>4, NoReqFields, BoostKind DEF BoostInv, BoostPending
<1>6. CASE Applying
  BY <1>6, ApplyKeeps
<1>7. CASE Crashing
  <2>1. /\ proc' = "stopped" /\ mem' = Nothing /\ req' = NoReq /\ db' = db
        /\ deadline' = [k \in Boosted |-> 0]
        /\ budget' = [k \in Boosted |-> 0] /\ extra' = [k \in Boosted |-> 0]
        /\ asked' = 0 /\ setBack' = 0 /\ UNCHANGED <<epoch, now>>
    BY <1>7 DEF Crashing, Crash
  <2>2. ClocksOK' /\ BoostHeld'
    BY <1>0, <2>1 DEF ClocksOK, BoostHeld
  <2>3. \A k \in Boosted : mem'[k] = {}
    BY <2>1, BoostKind DEF Nothing
  <2>4. BoostRows'
    BY <1>0, <2>1, <2>3, IdleRows DEF BoostRows, RowsOf
  <2> QED
    BY <2>1, <2>2, <2>4, NoReqFields, BoostKind DEF BoostInv, BoostPending
<1>8. CASE \E k \in Boosted : BoostRequest(k)
  BY <1>8, RequestKeeps
<1>9. CASE Tick
  BY <1>9, BoostFrame DEF Tick, vars
<1>10. CASE Pass
  <2>1. /\ epoch < MaxEpoch /\ epoch' = epoch + 1 /\ now' = now + 1
        /\ UNCHANGED <<db, mem, proc, req, deadline, asked, budget, setBack, extra>>
    BY <1>10 DEF Pass, vars
  <2>2. ClocksOK'
    BY <1>0, <2>1, AutomationAssumption DEF ClocksOK
  <2>3. BoostRows'
    BY <1>0, <2>1 DEF BoostRows, RowsOf
  <2>4. BoostHeld'
    BY <1>0, <2>1 DEF BoostHeld, ClocksOK
  <2>5. ASSUME NEW k \in Boosted, req.key = k, req.row # {}, Ends(req.row) # Ends(mem[k])
        PROVE  \A b \in req.row : now' + b.ends - epoch' = asked + setBack
    <3>1. PICK v \in Options[k] : req.row = {v} /\ v.ends \in Int
      BY <1>0, <2>5, BoostRow DEF BoostRows
    <3>2. now + v.ends - epoch = asked + setBack
      BY <1>0, <2>5, <3>1 DEF BoostPending
    <3>3. now' + v.ends - epoch' = asked + setBack
      BY <1>0, <2>1, <3>1, <3>2 DEF ClocksOK
    <3> QED
      BY <3>1, <3>3
  <2>6. ASSUME NEW k \in Boosted, req.key = k, req.row # {}, Ends(req.row) = Ends(mem[k])
        PROVE  deadline[k] <= asked + setBack \/ deadline[k] <= now'
    BY <1>0, <2>1, <2>6 DEF BoostPending, ClocksOK
  <2>7. BoostPending'
    BY <2>1, <2>5, <2>6 DEF BoostPending, Ends
  <2> QED
    BY <2>2, <2>3, <2>4, <2>7 DEF BoostInv
<1>11. CASE \E e \in 0 .. MaxEpoch : Step(e)
  <2>1. PICK e \in 0 .. MaxEpoch : Step(e)
    BY <1>11
  <2>2. /\ epoch' = e
        /\ setBack' = IF Starts THEN setBack + epoch - e ELSE setBack
        /\ UNCHANGED <<db, mem, proc, req, now, deadline, asked, budget, extra>>
    BY <2>1 DEF Step, vars
  <2>3. ClocksOK'
    BY <1>0, <2>2 DEF ClocksOK
  <2>4. BoostRows'
    BY <1>0, <2>2 DEF BoostRows, RowsOf
  <2>5. BoostHeld'
    BY <1>0, <2>2 DEF BoostHeld
  <2>6. ASSUME NEW k \in Boosted, req.key = k, req.row # {}, Ends(req.row) # Ends(mem[k])
        PROVE  \A b \in req.row : now + b.ends - epoch' = asked + setBack'
    <3>1. PICK v \in Options[k] : req.row = {v} /\ v.ends \in Int
      BY <1>0, <2>6, BoostRow DEF BoostRows
    <3>2. now + v.ends - epoch = asked + setBack
      BY <1>0, <2>6, <3>1 DEF BoostPending
    <3>3. setBack' = setBack + epoch - e
      BY <2>2, <2>6 DEF Starts
    <3>4. now + v.ends - epoch' = asked + setBack'
      BY <1>0, <2>2, <3>1, <3>2, <3>3 DEF ClocksOK
    <3> QED
      BY <3>1, <3>4
  <2>7. ASSUME NEW k \in Boosted, req.key = k, req.row # {}, Ends(req.row) = Ends(mem[k])
        PROVE  deadline[k] <= asked + setBack' \/ deadline[k] <= now
    BY <1>0, <2>2, <2>7 DEF BoostPending, Starts
  <2>8. BoostPending'
    BY <2>2, <2>6, <2>7 DEF BoostPending, Ends
  <2> QED
    BY <2>3, <2>4, <2>5, <2>8 DEF BoostInv
<1>12. CASE UNCHANGED allVars
  BY <1>12, BoostFrame DEF allVars, vars, clocked
<1>13. Saving => Save \/ SaveFails
  BY DEF Saving
<1> QED
  BY <1>1, <1>2, <1>3, <1>4, <1>5, <1>6, <1>7, <1>8, <1>9, <1>10, <1>11, <1>12, <1>13
  DEF AutoNext

-----------------------------------------------------------------------------
(* Timed bindings *)

LEMMA TimedInit == AutoInit => TimedInv
  BY DEF AutoInit, TimedInv

\* The bindings in effect depend on the memory, the deployment and no clock.
LEMMA SameBindings ==
  ASSUME UNCHANGED <<mem, dep>> PROVE Effective' = Effective
  BY DEF Effective

LEMMA SameDue ==
  ASSUME UNCHANGED <<mem, dep>>, Minute' = Minute PROVE DueBindings' = DueBindings
  BY SameBindings DEF DueBindings

\* Steps that change no memory, marks or clocks.
LEMMA TimedFrame ==
  ASSUME TimedInv, UNCHANGED <<mem, dep, proc, epoch, lastFired, done>> PROVE TimedInv'
  BY SameDue DEF TimedInv, Minute

\* An edit of one setting leaves the bindings of the others in effect.
LEMMA OthersStay ==
  ASSUME Inv, Apply, NEW b \in DueBindings', b.name[1] # req.key, UNCHANGED epoch
  PROVE  b \in DueBindings
<1> DEFINE Of(m, k) ==
      IF m = {} THEN {[name |-> <<k, 0>>, at |-> Deployed[k]]}
      ELSE UNION {{[name |-> <<k, IF Kind[k] = "time" THEN 0 ELSE i>>, at |-> v.at[i]]
                     : i \in DOMAIN v.at} : v \in m}
<1>1. /\ Effective = UNION {Of(mem[k], k) : k \in Timed \cap dep.known}
      /\ Effective' = UNION {Of(mem'[k], k) : k \in Timed \cap dep'.known}
  BY DEF Effective
<1>2. \A m, k : \A x \in Of(m, k) : x.name[1] = k
  OBVIOUS
<1> HIDE DEF Of
<1>3. PICK k \in Timed \cap dep'.known : b \in Of(mem'[k], k)
  BY <1>1 DEF DueBindings
<1>4. k # req.key /\ dep' = dep
  BY <1>2, <1>3 DEF Apply
<1>5. mem'[k] = mem[k]
  BY <1>4 DEF Apply, Inv, TypeOK, Timed
<1>6. b \in Effective
  BY <1>1, <1>3, <1>4, <1>5
<1> QED
  BY <1>6 DEF DueBindings, Minute

LEMMA TimedStep ==
  ASSUME Inv, TimedInv, [AutoNext]_allVars PROVE TimedInv'
<1>1. CASE Opening
  BY <1>1 DEF Opening, Copy, Drop, TimedInv, clocked
<1>2. CASE Starting
  BY <1>2 DEF Starting, Start, TimedInv
<1>3. CASE SettingRequest
  BY <1>3, TimedFrame DEF SettingRequest, Ask, Reject, clocked
<1>4. CASE Saving
  BY <1>4, TimedFrame DEF Saving, Save, SaveFails
<1>5. CASE Applying
  <2>1. /\ Apply /\ done' = {n \in done : n[1] # req.key}
        /\ UNCHANGED <<epoch, lastFired, proc>>
    BY <1>5 DEF Applying, Apply
  <2>2. ASSUME NEW b \in DueBindings', b.name \in done' PROVE b \in lastFired'
    BY <2>1, <2>2, OthersStay DEF TimedInv
  <2> QED
    BY <2>1, <2>2 DEF TimedInv
<1>6. CASE Crashing
  BY <1>6 DEF Crashing, TimedInv
<1>7. CASE \E k \in Boosted : BoostRequest(k)
  BY <1>7, TimedFrame
  DEF BoostRequest, BoostStart, BoostTarget, BoostCancel, BoostRefused, Ask
<1>8. CASE Tick
  <2>1. DueBindings' = DueBindings
    BY <1>8, SameDue DEF Tick, vars, Minute
  <2> QED
    BY <1>8, <2>1 DEF Tick, Marked, TimedInv, vars
<1>9. CASE Pass
  BY <1>9 DEF Pass, TimedInv
<1>10. CASE \E e \in 0 .. MaxEpoch : Step(e)
  <2>1. PICK e \in 0 .. MaxEpoch : Step(e)
    BY <1>10
  <2>2. CASE e % Day = Minute
    <3>1. UNCHANGED <<mem, dep, proc, lastFired, done>> /\ Minute' = Minute
      BY <2>1, <2>2 DEF Step, vars, Minute
    <3> QED
      BY <3>1, SameDue DEF TimedInv
  <2>3. CASE e % Day # Minute
    BY <2>1, <2>3 DEF Step, TimedInv
  <2> QED
    BY <2>2, <2>3
<1>11. CASE UNCHANGED allVars
  BY <1>11, TimedFrame DEF allVars, vars, clocked
<1> QED
  BY <1>1, <1>2, <1>3, <1>4, <1>5, <1>6, <1>7, <1>8, <1>9, <1>10, <1>11 DEF AutoNext

-----------------------------------------------------------------------------
AutoInv == Inv /\ BoostInv /\ TimedInv

LEMMA AutoInvariance == AutoSpec => []AutoInv
<1>1. AutoInit => AutoInv
  BY InvInit, BoostInit, TimedInit DEF AutoInit, AutoInv
<1>2. AutoInv /\ [AutoNext]_allVars => AutoInv'
  <2> SUFFICES ASSUME AutoInv, [AutoNext]_allVars PROVE AutoInv'
    OBVIOUS
  <2>1. Inv /\ BoostInv /\ TimedInv /\ ClocksOK /\ BoostRows
    BY DEF AutoInv, BoostInv
  <2>2. Inv'
    BY <2>1, SettingsStep, InvStep, RefusedKeepsInv
  <2> QED
    BY <2>1, <2>2, BoostStep, TimedStep DEF AutoInv
<1> QED
  BY <1>1, <1>2, PTL DEF AutoSpec

\* With the clocks and the boosts too, the processor works with what it would
\* restore from the database (settings.rs; a boost request saves before it
\* applies like any other, and a refused one changes nothing).
THEOREM AutoRestartInvisible == AutoSpec => []MemoryFollowsStore
<1>1. AutoInv => MemoryFollowsStore
  BY NoReqFields DEF AutoInv, Inv, Serving, MemoryFollowsStore
<1> QED
  BY <1>1, AutoInvariance, PTL

\* Under the clocks the tables still implement the durable register: a boost
\* that is refused because one is active, or is no longer, is a refusal of the
\* register (change_valve_boost).
THEOREM AutoRefinement == AutoSpec => DurableRegister
<1>1. AutoInit => Register!Init
  BY RegisterInit DEF AutoInit
<1>2. AutoInv /\ [AutoNext]_allVars => [Register!Next]_Register!vars
  <2> SUFFICES ASSUME AutoInv, [AutoNext]_allVars PROVE [Register!Next]_Register!vars
    OBVIOUS
  <2>1. Inv /\ ClocksOK /\ BoostRows
    BY DEF AutoInv, BoostInv
  <2>2. CASE BoostRefused
    <3>1. req = NoReq /\ req' = NoReq /\ answer' = "error" /\ UNCHANGED <<db, legacy>>
      BY <2>2 DEF BoostRefused
    <3>2. Register!Refuse
      BY <3>1, NoReqFields DEF Register!Refuse, Register!NoRequest, Migrated
    <3> QED
      BY <3>2 DEF Register!Next
  <2>3. CASE [Next]_vars
    BY <2>1, <2>3, RegisterStep
  <2> QED
    BY <2>1, <2>2, <2>3, SettingsStep
<1> QED
  BY <1>1, <1>2, AutoInvariance, PTL DEF AutoSpec, DurableRegister, Register!Spec

\* A boost outlives the time it was asked for, on the monotonic clock, by no more
\* than the wall clock was set back while its start was being saved
\* (apply_valve_boost), for any other steps of the wall clock, edits, slow or
\* failing saves; a restart takes what the wall clock leaves of it
\* (restore_boost_deadlines).
THEOREM BoostsAreBounded == AutoSpec => []BoostBounded
<1>1. AutoInv => BoostBounded
  BY DEF AutoInv, BoostInv, BoostHeld, ClocksOK, BoostBounded, Active
<1> QED
  BY <1>1, AutoInvariance, PTL

\* However often the loop ticks within a minute, a timed binding fires once
\* (evaluate_at_triggers), unless its own setting is edited.
THEOREM TimedBindingsFireOnce == AutoSpec => TimedFiresOnce
<1>1. AutoInv => (Tick => Names(Firing) \cap done = {})
  BY DEF AutoInv, TimedInv, Names, Firing
<1>2. AutoInv /\ [AutoNext]_allVars => [Tick => Names(Firing) \cap done = {}]_allVars
  BY <1>1
<1> QED
  BY <1>2, AutoInvariance, PTL DEF AutoSpec, TimedFiresOnce

-----------------------------------------------------------------------------
(* The configuration                                                         *)

\* A nonempty set of naturals has a least element; the inductions below look at
\* the least counterexample.
LEMMA LeastExists ==
  ASSUME NEW S \in SUBSET Nat, S # {} PROVE \E j \in S : \A k \in S : j =< k
<1> DEFINE R == OpToRel(<, Nat)
<1>1. \A i, j \in Nat : <<i, j>> \in R <=> i < j
  BY DEF OpToRel
<1>2. IsWellFoundedOn(R, Nat)
  BY NatLessThanWellFounded
<1> HIDE DEF R
<1>3. PICK j \in S : \A k \in S : ~(<<k, j>> \in R)
  BY <1>2, WFMin
<1>4. ASSUME NEW k \in S PROVE j =< k
  <2>1. k \in Nat /\ j \in Nat
    OBVIOUS
  <2>2. ~(k < j)
    BY <1>1, <1>3, <2>1, Zenon
  <2> QED
    BY <2>1, <2>2
<1> QED
  BY <1>4

LEMMA UpToCount ==
  ASSUME NEW n \in Nat PROVE IsFiniteSet(1 .. n) /\ Cardinality(1 .. n) = n
  BY FS_Interval

-----------------------------------------------------------------------------
(* The order of a stable sort *)

Sooner(key, i, j) == key[i] < key[j] \/ (key[i] = key[j] /\ i < j)

LEMMA SoonerOrder ==
  ASSUME NEW n \in Nat, NEW key \in [1 .. n -> Nat]
  PROVE  /\ \A i \in 1 .. n : ~Sooner(key, i, i)
         /\ \A i, j \in 1 .. n : i # j => Sooner(key, i, j) \/ Sooner(key, j, i)
         /\ \A i, j, k \in 1 .. n : Sooner(key, i, j) /\ Sooner(key, j, k) => Sooner(key, i, k)
  BY DEF Sooner

\* An element's rank is one more than the number of elements sooner than it.
LEMMA RankGrows ==
  ASSUME NEW n \in Nat, NEW key \in [1 .. n -> Nat], NEW i \in 1 .. n, NEW j \in 1 .. n,
         Sooner(key, i, j)
  PROVE  Cardinality({a \in 1 .. n : Sooner(key, a, i)}) < Cardinality({a \in 1 .. n : Sooner(key, a, j)})
<1> DEFINE A == {a \in 1 .. n : Sooner(key, a, i)}
           B == {a \in 1 .. n : Sooner(key, a, j)}
<1>1. A \subseteq B /\ i \in B /\ i \notin A
  BY SoonerOrder
<1>2. IsFiniteSet(1 .. n)
  BY FS_Interval
<1>3. IsFiniteSet(A) /\ IsFiniteSet(B)
  BY <1>2, FS_Subset
<1> HIDE DEF A, B
<1>4. Cardinality(A) <= Cardinality(B) /\ Cardinality(A) # Cardinality(B)
  BY <1>1, <1>3, FS_Subset
<1>5. Cardinality(A) \in Nat /\ Cardinality(B) \in Nat
  BY <1>3, FS_CardinalityType
<1> QED
  BY <1>4, <1>5 DEF A, B

LEMMA RankBound ==
  ASSUME NEW n \in Nat, NEW key \in [1 .. n -> Nat], NEW i \in 1 .. n
  PROVE  Cardinality({a \in 1 .. n : Sooner(key, a, i)}) + 1 \in 1 .. n
<1> DEFINE A == {a \in 1 .. n : Sooner(key, a, i)}
<1>1. A \subseteq 1 .. n /\ i \notin A
  BY SoonerOrder
<1>2. IsFiniteSet(1 .. n) /\ Cardinality(1 .. n) = n
  BY UpToCount
<1> HIDE DEF A
<1>3. IsFiniteSet(A) /\ Cardinality(A) <= n /\ Cardinality(A) # n
  <2> DEFINE B == 1 .. n
  <2>1. A \in SUBSET B /\ A # B
    BY <1>1
  <2>2. IsFiniteSet(B) /\ Cardinality(B) = n
    BY <1>2
  <2> HIDE DEF B
  <2> QED
    BY <2>1, <2>2, FS_Subset
<1>4. Cardinality(A) \in Nat
  BY <1>3, FS_CardinalityType
<1> QED
  BY <1>3, <1>4 DEF A

LEMMA SortExists ==
  ASSUME NEW n \in Nat, NEW key \in [1 .. n -> Nat]
  PROVE  \E p \in [1 .. n -> 1 .. n] : \A i, j \in 1 .. n : i < j => Sooner(key, p[i], p[j])
<1> DEFINE D == 1 .. n
           rank == [i \in D |-> Cardinality({a \in D : Sooner(key, a, i)}) + 1]
           p == [k \in D |-> CHOOSE i \in D : rank[i] = k]
<1>1. rank \in [D -> D]
  BY RankBound
<1>2. \A i, j \in D : Sooner(key, i, j) => rank[i] < rank[j]
  <2> SUFFICES ASSUME NEW i \in D, NEW j \in D, Sooner(key, i, j) PROVE rank[i] < rank[j]
    OBVIOUS
  <2> DEFINE a == Cardinality({x \in D : Sooner(key, x, i)})
             b == Cardinality({x \in D : Sooner(key, x, j)})
  <2>1. a < b
    BY RankGrows
  <2>2. a + 1 \in D /\ b + 1 \in D
    BY RankBound
  <2>3. rank[i] = a + 1 /\ rank[j] = b + 1
    OBVIOUS
  <2>4. a \in Int /\ b \in Int
    <3>1. IsFiniteSet(D)
      BY FS_Interval
    <3>2. IsFiniteSet({x \in D : Sooner(key, x, i)}) /\ IsFiniteSet({x \in D : Sooner(key, x, j)})
      BY <3>1, FS_Subset
    <3> QED
      BY <3>2, FS_CardinalityType
  <2> HIDE DEF a, b, rank
  <2> QED
    BY <2>1, <2>3, <2>4
<1> HIDE DEF rank
<1>3. rank \in Injection(D, D)
  <2>1. \A i, j \in D : rank[i] = rank[j] => i = j
    <3> SUFFICES ASSUME NEW i \in D, NEW j \in D, i # j PROVE rank[i] # rank[j]
      OBVIOUS
    <3>1. Sooner(key, i, j) \/ Sooner(key, j, i)
      BY SoonerOrder
    <3>2. rank[i] \in Int /\ rank[j] \in Int
      BY <1>1
    <3> QED
      BY <1>2, <3>1, <3>2
  <2> QED
    BY <1>1, <2>1 DEF Injection, IsInjective
<1>4. rank \in Surjection(D, D)
  <2>1. IsFiniteSet(D)
    BY FS_Interval
  <2> QED
    BY <1>3, <2>1, FS_Injection
<1>5. \A k \in D : \E i \in D : rank[i] = k
  BY <1>4 DEF Surjection
<1>6. \A k \in D : p[k] \in D /\ rank[p[k]] = k
  BY <1>5
<1>7. p \in [D -> D]
  BY <1>6
<1> HIDE DEF p
<1>8. ASSUME NEW i \in D, NEW j \in D, i < j PROVE Sooner(key, p[i], p[j])
  <2>1. rank[p[i]] = i /\ rank[p[j]] = j /\ p[i] \in D /\ p[j] \in D
    BY <1>6
  <2>2. ~(rank[p[j]] < rank[p[i]]) /\ p[i] # p[j]
    BY <2>1, <1>8
  <2>3. ~Sooner(key, p[j], p[i])
    BY <1>2, <2>1, <2>2
  <2> QED
    BY <2>1, <2>2, <2>3, SoonerOrder
<1> QED
  BY <1>7, <1>8

-----------------------------------------------------------------------------
(* Days: the sweep accepts the days whose ranges tile the minutes *)

RangeRecord == [sh : Nat, sm : Nat, eh : Nat, em : Nat, temp : Int]

\* Ranges that meet no other hour than the last end with the day at the latest.
LEMMA EndBound ==
  ASSUME NEW h \in Nat, NEW e \in Nat, NEW m \in Nat, NEW M \in Nat, m < M, e < h
  PROVE  e * M + m <= h * M
<1>1. PICK d \in Nat : h = e + 1 + d
  <2>1. h - e - 1 \in Nat /\ h = e + 1 + (h - e - 1)
    OBVIOUS
  <2> QED
    BY <2>1
<1>2. h * M = e * M + M + d * M
  BY <1>1
<1>3. d * M \in Nat /\ e * M \in Nat
  OBVIOUS
<1> QED
  BY <1>2, <1>3

LEMMA LegalRange ==
  ASSUME NEW r \in RangeRecord, RangeLegal(r)
  PROVE  /\ RangeStart(r) \in Nat /\ RangeEnd(r) \in Nat /\ DayEnd \in Nat
         /\ RangeStart(r) < RangeEnd(r) /\ RangeEnd(r) <= DayEnd
<1>1. r.sh \in Nat /\ r.sm \in Nat /\ r.eh \in Nat /\ r.em \in Nat /\ Hours \in Nat /\ Minutes \in Nat
  BY DayShape DEF RangeRecord
<1>2. RangeStart(r) \in Nat /\ RangeEnd(r) \in Nat /\ DayEnd \in Nat
  BY <1>1 DEF RangeStart, RangeEnd, DayEnd
<1>3. RangeEnd(r) <= DayEnd
  <2>1. CASE r.eh = Hours
    BY <1>1, <2>1 DEF RangeLegal, RangeEnd, DayEnd
  <2>2. CASE r.eh # Hours
    <3>1. r.eh < Hours /\ r.em < Minutes
      BY <1>1, <2>2 DEF RangeLegal
    <3> QED
      BY <1>1, <3>1, EndBound DEF RangeEnd, DayEnd
  <2> QED
    BY <2>1, <2>2
<1> QED
  BY <1>2, <1>3 DEF RangeLegal

\* A day of legal ranges, by its starts and ends alone
LEMMA DayFacts ==
  ASSUME NEW rs \in DayLists, \A i \in DOMAIN rs : RangeLegal(rs[i])
  PROVE  /\ Len(rs) \in Nat /\ DOMAIN rs = 1 .. Len(rs)
         /\ DayEnd \in Nat \ {0}
         /\ \A i \in DOMAIN rs :
              /\ RangeStart(rs[i]) \in Nat /\ RangeEnd(rs[i]) \in Nat
              /\ RangeStart(rs[i]) < RangeEnd(rs[i]) /\ RangeEnd(rs[i]) <= DayEnd
<1>1. rs \in Seq(RangeRecord)
  BY DayShape DEF RangeRecord
<1>2. Len(rs) \in Nat /\ DOMAIN rs = 1 .. Len(rs) /\ \A i \in DOMAIN rs : rs[i] \in RangeRecord
  BY <1>1
<1>3. DayEnd \in Nat \ {0}
  BY DayShape DEF DayEnd
<1> QED
  BY <1>2, <1>3, LegalRange

\* The sort leaves an order, and every range has a place in it.
LEMMA SortingFacts ==
  ASSUME NEW rs \in DayLists, \A i \in DOMAIN rs : RangeLegal(rs[i]), NEW p \in Sorting(rs)
  PROVE  /\ p \in [DOMAIN rs -> DOMAIN rs]
         /\ \A i, j \in DOMAIN rs : i < j => p[i] # p[j] /\ RangeStart(rs[p[i]]) <= RangeStart(rs[p[j]])
         /\ \A a \in DOMAIN rs : \E i \in DOMAIN rs : p[i] = a
<1> DEFINE D == DOMAIN rs
<1>1. Len(rs) \in Nat /\ D = 1 .. Len(rs) /\ \A i \in D : RangeStart(rs[i]) \in Nat
  BY DayFacts
<1>2. p \in [D -> D]
  BY DEF Sorting
<1>3. ASSUME NEW i \in D, NEW j \in D, i < j
      PROVE  p[i] # p[j] /\ RangeStart(rs[p[i]]) <= RangeStart(rs[p[j]])
  <2>1. p[i] \in D /\ p[j] \in D
    BY <1>2
  <2>2. \/ RangeStart(rs[p[i]]) < RangeStart(rs[p[j]])
        \/ RangeStart(rs[p[i]]) = RangeStart(rs[p[j]]) /\ p[i] < p[j]
    BY <1>3 DEF Sorting
  <2>3. RangeStart(rs[p[i]]) \in Nat /\ RangeStart(rs[p[j]]) \in Nat /\ p[i] \in Nat /\ p[j] \in Nat
    BY <1>1, <2>1
  <2> QED
    BY <2>2, <2>3
<1>4. p \in Injection(D, D)
  <2>1. \A i, j \in D : i < j \/ j < i \/ i = j
    BY <1>1
  <2> QED
    BY <1>2, <1>3, <2>1 DEF Injection, IsInjective
<1>5. p \in Surjection(D, D)
  <2>1. IsFiniteSet(D)
    BY <1>1, FS_Interval
  <2> QED
    BY <1>4, <2>1, FS_Injection
<1>6. \A a \in D : \E i \in D : p[i] = a
  BY <1>5 DEF Surjection
<1> QED
  BY <1>2, <1>3, <1>6

LEMMA SortingExists ==
  ASSUME NEW rs \in DayLists, \A i \in DOMAIN rs : RangeLegal(rs[i])
  PROVE  Sorting(rs) # {}
<1> DEFINE key == [i \in DOMAIN rs |-> RangeStart(rs[i])]
<1>1. Len(rs) \in Nat /\ DOMAIN rs = 1 .. Len(rs) /\ key \in [1 .. Len(rs) -> Nat]
  BY DayFacts
<1>2. PICK p \in [DOMAIN rs -> DOMAIN rs] :
        \A i, j \in DOMAIN rs : i < j => Sooner(key, p[i], p[j])
  <2> HIDE DEF key
  <2> QED
    BY <1>1, SortExists
<1>3. p \in Sorting(rs)
  BY <1>2 DEF Sorting, Sooner
<1> QED
  BY <1>3

\* Every minute lies in one range, said without counting
TiledOnce(rs) ==
  \A t \in MinutesOf :
    /\ \E i \in DOMAIN rs : InRange(rs[i], t)
    /\ \A i, j \in DOMAIN rs : InRange(rs[i], t) /\ InRange(rs[j], t) => i = j

LEMMA CountOne ==
  ASSUME NEW S, IsFiniteSet(S)
  PROVE  Cardinality(S) = 1 <=> S # {} /\ \A x, y \in S : x = y
<1>1. Cardinality(S) = 1 <=> \E x : S = {x}
  BY FS_Singleton
<1>2. (\E x : S = {x}) <=> S # {} /\ \A x, y \in S : x = y
  <2>1. ASSUME S # {}, \A x, y \in S : x = y PROVE \E x : S = {x}
    <3>1. PICK x \in S : TRUE
      BY <2>1
    <3>2. S = {x}
      BY <2>1, <3>1
    <3> QED
      BY <3>2
  <2>2. ASSUME NEW x, S = {x} PROVE S # {} /\ \A a, b \in S : a = b
    BY <2>2
  <2> QED
    BY <2>1, <2>2
<1> QED
  BY <1>1, <1>2

\* A range that is sorted later starts where this one has ended, or after.
LEMMA SweepDisjoint ==
  ASSUME NEW rs \in DayLists, \A i \in DOMAIN rs : RangeLegal(rs[i]), NEW p \in Sorting(rs),
         \A i \in DOMAIN rs : RangeStart(rs[p[i]]) = CoveredUntil(rs, p, i - 1),
         NEW i \in DOMAIN rs, NEW j \in DOMAIN rs, i < j
  PROVE  RangeEnd(rs[p[i]]) <= RangeStart(rs[p[j]])
<1> DEFINE D == DOMAIN rs
           st == [k \in D |-> RangeStart(rs[p[k]])]
           en == [k \in D |-> RangeEnd(rs[p[k]])]
<1>1. Len(rs) \in Nat /\ D = 1 .. Len(rs) /\ p \in [D -> D]
  BY DayFacts, SortingFacts
<1>2. \A k \in D : st[k] \in Nat /\ en[k] \in Nat /\ st[k] < en[k]
  BY <1>1, DayFacts
<1>3. \A k, l \in D : k < l => st[k] <= st[l]
  BY SortingFacts
<1>4. \A k \in D : k # 1 => k - 1 \in D /\ st[k] = en[k - 1]
  BY <1>1 DEF CoveredUntil
<1> HIDE DEF st, en
<1>5. j - 1 \in D /\ st[j] = en[j - 1]
  BY <1>1, <1>4
<1>6. CASE i = j - 1
  BY <1>2, <1>5, <1>6 DEF st, en
<1>7. CASE i # j - 1
  <2>1. i + 1 \in D /\ st[i + 1] = en[i] /\ (i + 1 < j - 1 \/ i + 1 = j - 1)
    <3>1. i + 1 \in D /\ i + 1 # 1 /\ (i + 1 < j - 1 \/ i + 1 = j - 1) /\ (i + 1) - 1 = i
      BY <1>1, <1>7
    <3> QED
      BY <1>4, <3>1
  <2>2. st[i + 1] <= st[j - 1]
    BY <1>2, <1>3, <1>5, <2>1
  <2>3. en[i] <= st[j]
    BY <1>2, <1>5, <2>1, <2>2
  <2> QED
    BY <2>3 DEF st, en
<1> QED
  BY <1>6, <1>7

LEMMA SweepTiles ==
  ASSUME NEW rs \in DayLists, \A i \in DOMAIN rs : RangeLegal(rs[i]), DayCovered(rs)
  PROVE  TiledOnce(rs)
<1> DEFINE D == DOMAIN rs
<1>1. Len(rs) \in Nat /\ D = 1 .. Len(rs) /\ DayEnd \in Nat \ {0}
  BY DayFacts
<1>2. PICK p \in Sorting(rs) :
        /\ \A i \in DOMAIN rs : RangeStart(rs[p[i]]) = CoveredUntil(rs, p, i - 1)
        /\ CoveredUntil(rs, p, Len(rs)) = DayEnd
  BY DEF DayCovered
<1> DEFINE st == [k \in D |-> RangeStart(rs[p[k]])]
           en == [k \in D |-> RangeEnd(rs[p[k]])]
<1>3. p \in [D -> D] /\ \A a \in D : \E i \in D : p[i] = a
  BY SortingFacts
<1>4. \A k \in D : st[k] \in Nat /\ en[k] \in Nat /\ st[k] < en[k]
  BY <1>3, DayFacts
<1>5. \A i, j \in D : i < j => en[i] <= st[j]
  BY <1>2, SweepDisjoint
<1>6. Len(rs) \in D /\ en[Len(rs)] = DayEnd
  BY <1>1, <1>2 DEF CoveredUntil
<1>7. \A k \in D : IF k = 1 THEN st[k] = 0 ELSE k - 1 \in D /\ st[k] = en[k - 1]
  BY <1>1, <1>2 DEF CoveredUntil
<1>8. \A k \in D, t \in MinutesOf : InRange(rs[p[k]], t) <=> st[k] <= t /\ t < en[k]
  BY DEF InRange
<1> HIDE DEF st, en
<1> SUFFICES ASSUME NEW t \in MinutesOf
             PROVE  /\ \E i \in D : InRange(rs[i], t)
                    /\ \A i, j \in D : InRange(rs[i], t) /\ InRange(rs[j], t) => i = j
  BY DEF TiledOnce
<1>9. t \in Nat /\ t < DayEnd
  BY <1>1 DEF MinutesOf
<1>10. \E i \in D : InRange(rs[i], t)
  <2> DEFINE S == {k \in D : t < en[k]}
  <2>1. S \in SUBSET Nat /\ Len(rs) \in S
    BY <1>1, <1>6, <1>9
  <2>2. PICK k \in S : \A l \in S : k =< l
    <3> HIDE DEF S
    <3> QED
      BY <2>1, LeastExists
  <2>3. st[k] <= t
    <3>1. CASE k = 1
      BY <1>7, <1>9, <3>1
    <3>2. CASE k # 1
      <4>1. k - 1 \in D /\ st[k] = en[k - 1]
        BY <1>7, <3>2
      <4>2. k - 1 \notin S
        BY <1>1, <2>2, <4>1
      <4> QED
        BY <1>4, <1>9, <4>1, <4>2
    <3> QED
      BY <3>1, <3>2
  <2>4. InRange(rs[p[k]], t)
    BY <1>8, <2>3
  <2> QED
    BY <1>3, <2>4
<1>11. ASSUME NEW a \in D, NEW b \in D, InRange(rs[a], t), InRange(rs[b], t) PROVE a = b
  <2>1. PICK i \in D : p[i] = a
    BY <1>3
  <2>2. PICK j \in D : p[j] = b
    BY <1>3
  <2>3. st[i] <= t /\ t < en[i] /\ st[j] <= t /\ t < en[j]
    BY <1>8, <1>11, <2>1, <2>2
  <2>4. ~(i < j) /\ ~(j < i)
    BY <1>4, <1>5, <1>9, <2>3
  <2> QED
    BY <1>1, <2>1, <2>2, <2>4
<1> QED
  BY <1>10, <1>11

LEMMA TiledSweeps ==
  ASSUME NEW rs \in DayLists, \A i \in DOMAIN rs : RangeLegal(rs[i]), TiledOnce(rs)
  PROVE  DayCovered(rs)
<1> DEFINE D == DOMAIN rs
<1>1. Len(rs) \in Nat /\ D = 1 .. Len(rs) /\ DayEnd \in Nat \ {0}
  BY DayFacts
<1>2. PICK p \in Sorting(rs) : TRUE
  BY SortingExists
<1> DEFINE st == [k \in D |-> RangeStart(rs[p[k]])]
           en == [k \in D |-> RangeEnd(rs[p[k]])]
<1>3. p \in [D -> D] /\ \A a \in D : \E i \in D : p[i] = a
  BY SortingFacts
<1>4. \A k \in D : st[k] \in Nat /\ en[k] \in Nat /\ st[k] < en[k] /\ en[k] <= DayEnd
  BY <1>3, DayFacts
<1>5. \A i, j \in D : i < j => st[i] <= st[j] /\ p[i] # p[j]
  BY SortingFacts
<1>6. ASSUME NEW t \in Nat, t < DayEnd
      PROVE  \E k \in D : st[k] <= t /\ t < en[k]
  <2>1. t \in MinutesOf
    BY <1>1, <1>6 DEF MinutesOf
  <2>2. PICK a \in D : InRange(rs[a], t)
    BY <2>1 DEF TiledOnce
  <2>3. PICK k \in D : p[k] = a
    BY <1>3
  <2> QED
    BY <2>2, <2>3 DEF InRange
<1>7. ASSUME NEW t \in Nat, NEW i \in D, NEW j \in D, i < j,
             st[i] <= t, t < en[i], st[j] <= t, t < en[j]
      PROVE  FALSE
  <2>1. t \in MinutesOf
    BY <1>1, <1>4, <1>7 DEF MinutesOf
  <2>2. InRange(rs[p[i]], t) /\ InRange(rs[p[j]], t) /\ p[i] \in D /\ p[j] \in D
    BY <1>3, <1>7 DEF InRange
  <2>3. p[i] = p[j]
    BY <2>1, <2>2 DEF TiledOnce
  <2> QED
    BY <1>5, <1>7, <2>3
<1> HIDE DEF st, en
<1>8. ASSUME NEW i \in D, NEW j \in D, i < j PROVE en[i] <= st[j]
  <2>1. SUFFICES ASSUME st[j] < en[i] PROVE FALSE
    BY <1>4
  <2>2. st[j] \in Nat /\ st[i] <= st[j] /\ st[j] <= st[j] /\ st[j] < en[j]
    BY <1>4, <1>5, <1>8
  <2> QED
    BY <1>7, <1>8, <2>1, <2>2
<1>9. ASSUME NEW i \in D PROVE IF i = 1 THEN st[i] = 0 ELSE i - 1 \in D /\ st[i] = en[i - 1]
  <2> DEFINE u == IF i = 1 THEN 0 ELSE en[i - 1]
  <2>1. i # 1 => i - 1 \in D /\ i - 1 < i
    BY <1>1
  <2>2. u \in Nat /\ u <= st[i]
    BY <1>4, <1>8, <2>1
  <2>3. ASSUME u < st[i] PROVE FALSE
    <3>1. u < DayEnd
      BY <1>1, <1>4, <2>2, <2>3
    <3>2. PICK k \in D : st[k] <= u /\ u < en[k]
      BY <1>6, <2>2, <3>1
    <3>3. ~(i < k) /\ i # k
      BY <1>4, <1>5, <2>2, <2>3, <3>2
    <3>4. k < i /\ i # 1
      BY <1>1, <3>3
    <3>5. en[k] <= u
      <4>1. u = en[i - 1] /\ (k < i - 1 \/ k = i - 1)
        BY <1>1, <3>4
      <4>2. CASE k = i - 1
        BY <1>4, <4>1, <4>2
      <4>3. CASE k < i - 1
        <5>1. en[k] <= st[i - 1]
          BY <1>8, <2>1, <3>4, <4>3
        <5> QED
          BY <1>4, <2>1, <3>4, <4>1, <5>1
      <4> QED
        BY <4>1, <4>2, <4>3
    <3> QED
      BY <1>4, <2>2, <3>2, <3>5
  <2>4. st[i] = u
    BY <1>4, <2>2, <2>3
  <2> QED
    BY <2>1, <2>4
<1>10. rs # <<>> /\ Len(rs) \in D
  <2>1. PICK k \in D : st[k] <= 0 /\ 0 < en[k]
    BY <1>1, <1>6
  <2> QED
    BY <1>1, <2>1
<1>11. en[Len(rs)] = DayEnd
  <2> DEFINE u == en[Len(rs)]
  <2>1. u \in Nat /\ u <= DayEnd
    BY <1>4, <1>10
  <2>2. ASSUME u < DayEnd PROVE FALSE
    <3>1. PICK k \in D : st[k] <= u /\ u < en[k]
      BY <1>6, <2>1, <2>2
    <3>2. k < Len(rs) \/ k = Len(rs)
      BY <1>1
    <3>3. k < Len(rs) /\ en[k] <= st[Len(rs)]
      BY <1>4, <1>8, <1>10, <3>1, <3>2
    <3> QED
      BY <1>4, <1>10, <3>1, <3>3
  <2> QED
    BY <1>1, <2>1, <2>2
<1>12. \A i \in D : RangeStart(rs[p[i]]) = CoveredUntil(rs, p, i - 1)
  <2> SUFFICES ASSUME NEW i \in D PROVE RangeStart(rs[p[i]]) = CoveredUntil(rs, p, i - 1)
    OBVIOUS
  <2>1. CASE i = 1
    BY <1>9, <2>1 DEF CoveredUntil, st
  <2>2. CASE i # 1
    <3>1. i - 1 \in D /\ i - 1 # 0 /\ st[i] = en[i - 1]
      BY <1>1, <1>9, <2>2
    <3>2. st[i] = RangeStart(rs[p[i]]) /\ en[i - 1] = RangeEnd(rs[p[i - 1]])
      BY <3>1 DEF st, en
    <3> QED
      BY <3>1, <3>2 DEF CoveredUntil
  <2> QED
    BY <2>1, <2>2
<1>13. CoveredUntil(rs, p, Len(rs)) = DayEnd
  BY <1>1, <1>10, <1>11 DEF CoveredUntil, en
<1> QED
  BY <1>10, <1>12, <1>13 DEF DayCovered

\* One range per minute, counted or not; the range that is found is the one.
LEMMA TiledCounted ==
  ASSUME NEW rs \in DayLists
  PROVE  TiledOnce(rs) <=>
           \A t \in MinutesOf : Cardinality({i \in DOMAIN rs : InRange(rs[i], t)}) = 1
                                 /\ TargetTemperature(rs, t) # {}
<1>1. IsFiniteSet(DOMAIN rs)
  <2>1. rs \in Seq(RangeRecord)
    BY DayShape DEF RangeRecord
  <2>2. DOMAIN rs = 1 .. Len(rs) /\ Len(rs) \in Int
    BY <2>1
  <2> QED
    BY <2>2, FS_Interval
<1>2. ASSUME NEW t \in MinutesOf
      PROVE  (/\ \E i \in DOMAIN rs : InRange(rs[i], t)
              /\ \A i, j \in DOMAIN rs : InRange(rs[i], t) /\ InRange(rs[j], t) => i = j)
             <=> Cardinality({i \in DOMAIN rs : InRange(rs[i], t)}) = 1
                 /\ TargetTemperature(rs, t) # {}
  <2> DEFINE hits == {i \in DOMAIN rs : InRange(rs[i], t)}
  <2>1. IsFiniteSet(hits)
    BY <1>1, FS_Subset
  <2>2. Cardinality(hits) = 1 <=> hits # {} /\ \A x, y \in hits : x = y
    <3> HIDE DEF hits
    <3> QED
      BY <2>1, CountOne
  <2>3. ASSUME NEW i \in hits, \A x, y \in hits : x = y PROVE TargetTemperature(rs, t) # {}
    <3>1. i \in {j \in hits : \A k \in hits : j <= k}
      <4>1. i \in Int
        <5>1. rs \in Seq(RangeRecord)
          BY DayShape DEF RangeRecord
        <5> QED
          BY <5>1
      <4>2. \A k \in hits : k = i
        BY <2>3
      <4> QED
        BY <2>3, <4>1, <4>2
    <3> QED
      BY <3>1 DEF TargetTemperature
  <2> QED
    BY <2>2, <2>3
<1> QED
  BY <1>2 DEF TiledOnce

\* TemperatureSchedule::validate accepts a day if and only if its ranges are legal
\* and every minute has one target temperature, for any length of the day and any
\* ranges.
THEOREM SweepIsTiling == DaysTile
<1> SUFFICES ASSUME NEW rs \in DayLists
             PROVE  DayAccepted(rs) <=>
                      /\ \A i \in DOMAIN rs : RangeLegal(rs[i])
                      /\ \A t \in MinutesOf : Cardinality({i \in DOMAIN rs : InRange(rs[i], t)}) = 1
                                              /\ TargetTemperature(rs, t) # {}
  BY DEF DaysTile
<1> QED
  BY SweepTiles, TiledSweeps, TiledCounted DEF DayAccepted

-----------------------------------------------------------------------------
(* Slots: they meet end to start around the clock *)

FixedSlot(s) == s.from \in Nat /\ s.to \in Nat /\ s.from <= DayEnd /\ s.to <= DayEnd

\* A slot that holds a minute holds its first one, not the one after its last
\* unless it is the whole day, and whatever holds a minute other than its first
\* holds the one before.
LEMMA SlotArithmetic ==
  ASSUME NEW s, FixedSlot(s), NEW u \in MinutesOf, SlotContains(s, u)
  PROVE  /\ OnDial(s.from) \in MinutesOf /\ SlotContains(s, OnDial(s.from))
         /\ OnDial(s.to) \in MinutesOf
         /\ SlotContains(s, OnDial(s.to)) => OnDial(s.from) = OnDial(s.to)
         /\ LET last == IF OnDial(s.to) = 0 THEN DayEnd - 1 ELSE OnDial(s.to) - 1
            IN last \in MinutesOf /\ SlotContains(s, last)
<1>1. DayEnd \in Nat \ {0}
  BY DayShape DEF DayEnd
<1>2. u \in Int /\ 0 <= u /\ u < DayEnd
  BY <1>1 DEF MinutesOf
<1>3. PICK f \in Nat : f = s.from
  BY DEF FixedSlot
<1>4. PICK e \in Nat : e = s.to
  BY DEF FixedSlot
<1>5. f <= DayEnd /\ e <= DayEnd
  BY <1>3, <1>4 DEF FixedSlot
<1>6. \A t : t \in MinutesOf <=> t \in Int /\ 0 <= t /\ t < DayEnd
  BY <1>1 DEF MinutesOf
<1> QED
  BY <1>1, <1>2, <1>3, <1>4, <1>5, <1>6 DEF SlotContains, OnDial

LEMMA SlotBefore ==
  ASSUME NEW s, FixedSlot(s), NEW u \in MinutesOf, SlotContains(s, u), OnDial(s.from) # u
  PROVE  SlotContains(s, IF u = 0 THEN DayEnd - 1 ELSE u - 1)
<1>1. DayEnd \in Nat \ {0}
  BY DayShape DEF DayEnd
<1>2. u \in Int /\ 0 <= u /\ u < DayEnd
  BY <1>1 DEF MinutesOf
<1>3. PICK f \in Nat : f = s.from
  BY DEF FixedSlot
<1>4. PICK e \in Nat : e = s.to
  BY DEF FixedSlot
<1>5. f <= DayEnd /\ e <= DayEnd
  BY <1>3, <1>4 DEF FixedSlot
<1> QED
  BY <1>1, <1>2, <1>3, <1>4, <1>5 DEF SlotContains, OnDial

\* Slots that hold every minute once follow each other around the clock.
LEMMA CoverMeets ==
  ASSUME NEW slots, IsFiniteSet(DOMAIN slots), \A n \in DOMAIN slots : FixedSlot(slots[n]),
         SlotsCover(slots)
  PROVE  Held(slots) # {} /\ SlotsMeet(slots)
<1>1. ASSUME NEW t \in MinutesOf
      PROVE  /\ \E n \in DOMAIN slots : SlotContains(slots[n], t)
             /\ \A m, n \in DOMAIN slots : SlotContains(slots[m], t) /\ SlotContains(slots[n], t) => m = n
  <2> DEFINE S == {n \in DOMAIN slots : SlotContains(slots[n], t)}
  <2>1. IsFiniteSet(S) /\ Cardinality(S) = 1
    BY FS_Subset DEF SlotsCover
  <2>2. S # {} /\ \A x, y \in S : x = y
    <3> HIDE DEF S
    <3> QED
      BY <2>1, CountOne
  <2> QED
    BY <2>2
<1>2. Held(slots) # {}
  <2>1. 0 \in MinutesOf
    BY DayShape DEF MinutesOf, DayEnd
  <2> QED
    BY <1>1, <2>1 DEF Held
<1>3. ASSUME NEW n \in Held(slots)
      PROVE  Cardinality({m \in Held(slots) : OnDial(slots[m].from) = OnDial(slots[n].to)}) = 1
  <2> DEFINE e == OnDial(slots[n].to)
             last == IF e = 0 THEN DayEnd - 1 ELSE e - 1
             S == {m \in Held(slots) : OnDial(slots[m].from) = e}
  <2>1. n \in DOMAIN slots /\ FixedSlot(slots[n])
    BY DEF Held
  <2>2. e \in MinutesOf /\ last \in MinutesOf /\ SlotContains(slots[n], last)
        /\ (SlotContains(slots[n], e) => OnDial(slots[n].from) = e)
    BY <2>1, SlotArithmetic DEF Held
  <2> HIDE DEF e
  <2>3. PICK m \in DOMAIN slots : SlotContains(slots[m], e)
    BY <1>1, <2>2
  <2>4. m \in Held(slots)
    BY <2>2, <2>3 DEF Held
  <2>5. OnDial(slots[m].from) = e
    <3>1. SUFFICES ASSUME OnDial(slots[m].from) # e PROVE FALSE
      OBVIOUS
    <3>2. SlotContains(slots[m], last)
      BY <2>2, <2>3, <3>1, SlotBefore
    <3>3. m = n
      BY <1>1, <2>1, <2>2, <3>2
    <3> QED
      BY <2>2, <2>3, <3>1, <3>3
  <2>6. \A k \in S : k = m
    <3> SUFFICES ASSUME NEW k \in S PROVE k = m
      OBVIOUS
    <3>1. k \in DOMAIN slots /\ SlotContains(slots[k], e)
      BY SlotArithmetic DEF Held
    <3> QED
      BY <1>1, <2>2, <2>3, <3>1
  <2>7. S = {m}
    BY <2>4, <2>5, <2>6
  <2>8. Cardinality(S) = 1
    BY <2>7, FS_Singleton
  <2> QED
    BY <2>8 DEF e
<1> QED
  BY <1>2, <1>3 DEF SlotsMeet

\* Scene slots that validate_coverage accepts meet end to start.
THEOREM SlotsFollowEachOther == SlotsTile
<1> SUFFICES ASSUME NEW ids \in SUBSET SceneIds, NEW slots \in SlotMaps, SlotsAccepted(slots, ids),
                    \A n \in DOMAIN slots : ~slots[n].sun
             PROVE  Held(slots) # {} /\ SlotsMeet(slots)
  BY DEF SlotsTile
<1>1. \A n \in DOMAIN slots : FixedSlot(slots[n])
  BY SlotShape DEF SlotsAccepted, FixedSlot
<1>2. IsFiniteSet(DOMAIN slots) /\ SlotsCover(slots)
  BY SlotShape DEF SlotsAccepted
<1> QED
  BY <1>1, <1>2, CoverMeets

-----------------------------------------------------------------------------
(* Heating zones and pressure groups *)

LEMMA OneZone ==
  ASSUME NEW zones, NoneTwice(Field(zones, "trvs")), NEW t \in AllTrvs(zones)
  PROVE  Cardinality(ZonesOf(zones, t)) = 1
<1>1. PICK i \in DOMAIN zones : t \in Range(zones[i].trvs)
  BY DEF AllTrvs, Range
<1>2. PICK k \in DOMAIN zones[i].trvs : zones[i].trvs[k] = t
  BY <1>1 DEF Range
<1>3. ASSUME NEW j \in DOMAIN zones, NEW l \in DOMAIN zones[j].trvs, zones[j].trvs[l] = t
      PROVE  i = j
  BY <1>2, <1>3 DEF NoneTwice, Field
<1>4. ZonesOf(zones, t) = {zones[i]}
  BY <1>1, <1>3 DEF ZonesOf, Range
<1> QED
  BY <1>4, FS_Singleton

\* What Topology::build accepts is what Heating assumes: a valve has one zone, a
\* zone a relay of its own, and a pressure group lies within one zone and shares
\* no valve with another.
THEOREM HeatingIsFormed == HeatingForms
<1> SUFFICES ASSUME NEW zones, NEW groups, ZonesAccepted(zones), GroupsAccepted(zones, groups)
             PROVE  /\ \A t \in AllTrvs(zones) : Cardinality(ZonesOf(zones, t)) = 1
                    /\ \A y, z \in Range(zones) : z.trvs # <<>> /\ (y # z => y.relay # z.relay)
                    /\ \A i, j \in DOMAIN groups :
                         /\ \A t, u \in Range(groups[i]) : ZonesOf(zones, t) = ZonesOf(zones, u)
                         /\ i # j => Range(groups[i]) \cap Range(groups[j]) = {}
  BY DEF HeatingForms
<1>1. \A t \in AllTrvs(zones) : Cardinality(ZonesOf(zones, t)) = 1
  BY OneZone DEF ZonesAccepted
<1>2. ASSUME NEW y \in Range(zones), NEW z \in Range(zones)
      PROVE  z.trvs # <<>> /\ (y # z => y.relay # z.relay)
  <2>1. z.trvs # <<>>
    BY DEF ZonesAccepted
  <2>2. ASSUME y.relay = z.relay PROVE y = z
    <3>1. PICK a, b \in DOMAIN zones : y = zones[a] /\ z = zones[b]
      BY DEF Range
    <3>2. Field(zones, "relay")[a] = Field(zones, "relay")[b]
      BY <2>2, <3>1 DEF Field
    <3>3. a = b
      BY <3>2 DEF ZonesAccepted, IsInjective, Field
    <3> QED
      BY <3>1, <3>3
  <2> QED
    BY <2>1, <2>2
<1>3. ASSUME NEW i \in DOMAIN groups, NEW t \in Range(groups[i])
      PROVE  ZonesOf(zones, t) = ZonesOf(zones, groups[i][1])
  <2>1. groups[i] \in Range(groups)
    BY DEF Range
  <2>2. PICK k \in DOMAIN groups[i] : t = groups[i][k]
    BY DEF Range
  <2> QED
    BY <2>1, <2>2 DEF GroupsAccepted
<1>4. ASSUME NEW i \in DOMAIN groups, NEW j \in DOMAIN groups, i # j
      PROVE  Range(groups[i]) \cap Range(groups[j]) = {}
  BY <1>4 DEF GroupsAccepted, NoneTwice, Range
<1>5. \A i \in DOMAIN groups : \A t, u \in Range(groups[i]) : ZonesOf(zones, t) = ZonesOf(zones, u)
  BY <1>3
<1> QED
  BY <1>1, <1>2, <1>4, <1>5

-----------------------------------------------------------------------------
(* Motion rules and bindings *)

LEMMA NonemptyList ==
  ASSUME NEW s, IsList(s), s # <<>> PROVE Range(s) # {}
<1>1. Len(s) \in Nat /\ DOMAIN s = 1 .. Len(s)
  BY DEF IsList
<1>2. Len(s) # 0
  BY DEF IsList
<1>3. 1 \in DOMAIN s
  BY <1>1, <1>2
<1> QED
  BY <1>3 DEF Range

LEMMA OneEndpoint ==
  ASSUME NEW E, NEW e \in E, \A x \in E : e[1] = x[1] => e = x
  PROVE  Cardinality({x \in E : x[1] = e[1]}) = 1
<1>1. {x \in E : x[1] = e[1]} = {e}
  OBVIOUS
<1> QED
  BY <1>1, FS_Singleton

\* Names are unique, so a room is found by its name.
LEMMA NamedRoom ==
  ASSUME NEW rooms, IsInjective(Field(rooms, "name")), NEW r \in Range(rooms)
  PROVE  Named(rooms, r.name) = r
<1>1. \A x \in Range(rooms) : x.name = r.name => x = r
  <2> SUFFICES ASSUME NEW x \in Range(rooms), x.name = r.name PROVE x = r
    OBVIOUS
  <2>1. PICK a, b \in DOMAIN rooms : x = rooms[a] /\ r = rooms[b]
    BY DEF Range
  <2>2. a = b
    BY <2>1 DEF IsInjective, Field
  <2> QED
    BY <2>1, <2>2
<1>2. Named(rooms, r.name) \in Range(rooms) /\ Named(rooms, r.name).name = r.name
  BY DEF Named
<1> QED
  BY <1>1, <1>2

LEMMA NameOfRoom ==
  ASSUME NEW rooms, NEW x \in Range(Field(rooms, "name"))
  PROVE  Named(rooms, x) \in Range(rooms) /\ Named(rooms, x).name = x
<1>1. PICK a \in DOMAIN rooms : rooms[a].name = x
  BY DEF Range, Field
<1>2. rooms[a] \in Range(rooms)
  BY DEF Range
<1> QED
  BY <1>1, <1>2 DEF Named

\* What a rule targets is an endpoint of some room.
LEMMA ControlledKnown ==
  ASSUME NEW rooms, NEW rule, RuleAccepted(rule, rooms), NEW d \in Controlled(rule, rooms)
  PROVE  d \in Endpoints(rooms)
<1>1. PICK s \in rule.slots : d \in Range(Targeted(rule.targets[s], rooms))
  BY DEF Controlled
<1> DEFINE t == rule.targets[s]
<1>2. CASE t.group = Absent
  <2>1. Range(t.lights) \subseteq Endpoints(rooms)
    BY <1>2 DEF RuleAccepted
  <2> QED
    BY <1>1, <1>2, <2>1 DEF Targeted
<1>3. CASE t.group # Absent
  <2>1. t.group \in Range(Field(rooms, "name"))
    BY <1>3 DEF RuleAccepted
  <2>2. Named(rooms, t.group) \in Range(rooms)
    BY <2>1, NameOfRoom
  <2> QED
    BY <1>1, <1>3, <2>2 DEF Targeted, Endpoints
<1> QED
  BY <1>2, <1>3

\* What build_motion_rules and the binding checks accept is what Motion and Plugs
\* assume: rules with disjoint lights, a target with provisioned scenes in every
\* slot, one endpoint per controlled light, and kill switches that switch the plug
\* they watch.
THEOREM RulesAreFormed == RulesForm
<1> SUFFICES ASSUME NEW rooms \in RoomLists, RoomsAccepted(rooms) PROVE
    /\ \A rules \in RuleLists : RulesAccepted(rules, rooms) =>
         \A i, j \in DOMAIN rules :
           LET lights(k) == {e[1] : e \in Controlled(rules[k], rooms)} IN
             /\ i # j => lights(i) \cap lights(j) = {}
             /\ \A s \in rules[i].slots :
                  LET t == rules[i].targets[s] IN
                    /\ Range(Targeted(t, rooms)) # {} /\ t.scenes # {}
                    /\ t.group # Absent => \A r \in Range(rooms) :
                         r.name = t.group => t.scenes \subseteq r.scenes
             /\ \A d \in lights(i) : Cardinality({e \in Endpoints(rooms) : e[1] = d}) = 1
    /\ \A bs \in BindingLists : BindingsAccepted(bs, rooms) =>
         \A b \in Range(bs) : b.on = "power" /\ b.target # Absent => b.target = b.device
  BY DEF RulesForm
<1>1. ASSUME NEW rules \in RuleLists, RulesAccepted(rules, rooms), NEW i \in DOMAIN rules
      PROVE  /\ \A j \in DOMAIN rules : i # j => {e[1] : e \in Controlled(rules[i], rooms)}
                                                \cap {e[1] : e \in Controlled(rules[j], rooms)} = {}
             /\ \A s \in rules[i].slots :
                  LET t == rules[i].targets[s] IN
                    /\ Range(Targeted(t, rooms)) # {} /\ t.scenes # {}
                    /\ t.group # Absent => \A r \in Range(rooms) :
                         r.name = t.group => t.scenes \subseteq r.scenes
             /\ \A d \in {e[1] : e \in Controlled(rules[i], rooms)} :
                  Cardinality({e \in Endpoints(rooms) : e[1] = d}) = 1
  <2>1. rules[i] \in Range(rules) /\ RuleAccepted(rules[i], rooms) /\ OwnersAccepted(rules, rooms)
    BY <1>1 DEF RulesAccepted, Range
  <2>2. ASSUME NEW j \in DOMAIN rules, i # j
        PROVE  {e[1] : e \in Controlled(rules[i], rooms)} \cap {e[1] : e \in Controlled(rules[j], rooms)} = {}
    BY <2>1, <2>2 DEF OwnersAccepted
  <2>3. ASSUME NEW s \in rules[i].slots
        PROVE  LET t == rules[i].targets[s] IN
                 /\ Range(Targeted(t, rooms)) # {} /\ t.scenes # {}
                 /\ t.group # Absent => \A r \in Range(rooms) :
                      r.name = t.group => t.scenes \subseteq r.scenes
    <3> DEFINE t == rules[i].targets[s]
    <3>1. s \in DOMAIN rules[i].targets
      BY <2>1 DEF RuleAccepted
    <3>2. Targeted(t, rooms) # <<>> /\ t.scenes # {}
      BY <2>1 DEF RuleAccepted
    <3>3. IsList(Targeted(t, rooms))
      <4>1. CASE t.group = Absent
        BY <2>1, <3>1, <4>1, RuleShape DEF Targeted
      <4>2. CASE t.group # Absent
        <5>1. Named(rooms, t.group) \in Range(rooms)
          BY <2>1, <4>2, NameOfRoom DEF RuleAccepted
        <5> QED
          BY <4>2, <5>1, RoomShape DEF Targeted
      <4> QED
        BY <4>1, <4>2
    <3>4. ASSUME t.group # Absent, NEW r \in Range(rooms), r.name = t.group
          PROVE  t.scenes \subseteq r.scenes
      <4>1. Named(rooms, t.group) = r
        BY <3>4, NamedRoom DEF RoomsAccepted, NamesAccepted
      <4> QED
        BY <2>1, <3>4, <4>1 DEF RuleAccepted
    <3> QED
      BY <3>2, <3>3, <3>4, NonemptyList
  <2>4. ASSUME NEW c \in Controlled(rules[i], rooms)
        PROVE  Cardinality({e \in Endpoints(rooms) : e[1] = c[1]}) = 1
    <3>1. c \in Endpoints(rooms)
      BY <2>1, ControlledKnown
    <3>2. \A e \in Endpoints(rooms) : c[1] = e[1] => c = e
      BY <2>1 DEF OwnersAccepted
    <3> QED
      BY <3>1, <3>2, OneEndpoint
  <2> QED
    BY <2>2, <2>3, <2>4
<1>3. ASSUME NEW bs \in BindingLists, BindingsAccepted(bs, rooms), NEW b \in Range(bs),
             b.on = "power", b.target # Absent
      PROVE  b.target = b.device
  <2>1. TriggerAccepted(b)
    BY <1>3 DEF BindingsAccepted
  <2> QED
    BY <1>3, <2>1 DEF TriggerAccepted
<1> QED
  BY <1>1, <1>3

\* The steps of a room that validate_room_override accepts belong to slots of the
\* same schedule and light some of the members; a member is told by its device.
THEOREM StepsAreFormed == StepsForm
<1> SUFFICES ASSUME NEW rooms \in RoomLists, NEW steps \in StepMaps, NEW ids, NEW slots \in SlotMaps,
                    NEW r \in Range(rooms), RoomOverrideAccepted(r, rooms, slots, steps, ids)
             PROVE
    /\ \A s \in DOMAIN steps : s \in DOMAIN slots /\
         \A st \in Range(steps[s]) : Range(st.lights) \in (SUBSET Range(r.members)) \ {{}}
    /\ DOMAIN steps # {} => \A m \in Range(r.members) :
         /\ Cardinality({i \in DOMAIN r.members : r.members[i][1] = m[1]}) = 1
         /\ Cardinality({e \in Endpoints(rooms) : e[1] = m[1]}) = 1
  BY DEF StepsForm
<1>1. StepsAccepted(r, slots, steps, ids)
  BY DEF RoomOverrideAccepted
<1>2. ASSUME NEW s \in DOMAIN steps, NEW st \in Range(steps[s])
      PROVE  s \in DOMAIN slots /\ Range(st.lights) \in (SUBSET Range(r.members)) \ {{}}
  <2>1. /\ s \in DOMAIN slots /\ st.lights # <<>> /\ Range(st.lights) \subseteq Range(r.members)
    BY <1>1 DEF StepsAccepted
  <2>2. IsList(st.lights)
    BY StepShape DEF Range
  <2> QED
    BY <2>1, <2>2, NonemptyList
<1>3. ASSUME DOMAIN steps # {}, NEW m \in Range(r.members)
      PROVE  Cardinality({i \in DOMAIN r.members : r.members[i][1] = m[1]}) = 1
  <2>1. PICK i \in DOMAIN r.members : r.members[i] = m
    BY DEF Range
  <2>2. \A j \in DOMAIN r.members : r.members[j][1] = m[1] => j = i
    BY <1>1, <1>3, <2>1 DEF StepsAccepted, IsInjective
  <2>3. {j \in DOMAIN r.members : r.members[j][1] = m[1]} = {i}
    BY <2>1, <2>2
  <2> QED
    BY <2>3, FS_Singleton
<1>4. ASSUME DOMAIN steps # {}, NEW m \in Range(r.members)
      PROVE  Cardinality({e \in Endpoints(rooms) : e[1] = m[1]}) = 1
  <2>1. m \in Endpoints(rooms)
    BY DEF Endpoints
  <2>2. \A e \in Endpoints(rooms) : m[1] = e[1] => m = e
    BY <1>4 DEF EndpointsObservable, RoomOverrideAccepted
  <2> QED
    BY <2>1, <2>2, OneEndpoint
<1>5. \A s \in DOMAIN steps : s \in DOMAIN slots
  BY <1>1 DEF StepsAccepted
<1> QED
  BY <1>2, <1>3, <1>4, <1>5

-----------------------------------------------------------------------------
(* Rooms: the walk over `parent` *)

IsWalk(rooms, r, m, f) ==
  f = [n \in 0 .. m |-> IF n = 0 THEN r.name
                        ELSE IF f[n - 1] = Absent THEN Absent ELSE Named(rooms, f[n - 1]).parent]

LEMMA WalkOfOne ==
  ASSUME NEW rooms, NEW r PROVE \E f : IsWalk(rooms, r, 0, f)
<1> DEFINE f == [n \in 0 .. 0 |-> r.name]
<1>1. IsWalk(rooms, r, 0, f)
  BY DEF IsWalk
<1> QED
  BY <1>1

LEMMA WalkGrows ==
  ASSUME NEW rooms, NEW r, NEW m \in Nat, NEW g, IsWalk(rooms, r, m, g)
  PROVE  \E f : IsWalk(rooms, r, m + 1, f)
<1> DEFINE step(x) == IF x = Absent THEN Absent ELSE Named(rooms, x).parent
           f == [n \in 0 .. m + 1 |-> IF n = m + 1 THEN step(g[m]) ELSE g[n]]
<1>1. \A n \in 0 .. m : g[n] = IF n = 0 THEN r.name ELSE step(g[n - 1])
  BY DEF IsWalk
<1>2. \A n \in 0 .. m : f[n] = g[n]
  OBVIOUS
<1>3. f[m + 1] = step(g[m])
  OBVIOUS
<1> HIDE DEF step
<1>4. \A n \in 0 .. m + 1 : f[n] = IF n = 0 THEN r.name ELSE step(f[n - 1])
  <2> SUFFICES ASSUME NEW n \in 0 .. m + 1 PROVE f[n] = IF n = 0 THEN r.name ELSE step(f[n - 1])
    OBVIOUS
  <2> HIDE DEF f
  <2>1. CASE n = m + 1
    <3>1. n # 0 /\ n - 1 = m /\ m \in 0 .. m
      BY <2>1
    <3> QED
      BY <1>2, <1>3, <2>1, <3>1
  <2>2. CASE n # m + 1
    <3>1. n \in 0 .. m /\ (n # 0 => n - 1 \in 0 .. m)
      BY <2>2
    <3> QED
      BY <1>1, <1>2, <3>1
  <2> QED
    BY <2>1, <2>2
<1>5. f = [n \in 0 .. m + 1 |-> f[n]]
  OBVIOUS
<1> HIDE DEF f
<1>6. f = [n \in 0 .. m + 1 |-> IF n = 0 THEN r.name ELSE step(f[n - 1])]
  BY <1>4, <1>5
<1>7. IsWalk(rooms, r, m + 1, f)
  BY <1>6 DEF IsWalk, step
<1> QED
  BY <1>7

LEMMA WalkExists ==
  ASSUME NEW rooms, NEW r, NEW m \in Nat PROVE \E f : IsWalk(rooms, r, m, f)
<1> DEFINE S == {k \in Nat : ~\E f : IsWalk(rooms, r, k, f)}
<1>1. SUFFICES ASSUME S # {} PROVE FALSE
  OBVIOUS
<1>2. S \in SUBSET Nat
  OBVIOUS
<1>3. PICK k \in S : \A l \in S : k =< l
  <2> HIDE DEF S
  <2> QED
    BY <1>1, <1>2, LeastExists
<1>4. k # 0
  BY WalkOfOne
<1>5. k - 1 \in Nat /\ k - 1 \notin S
  BY <1>3, <1>4
<1>6. PICK g : IsWalk(rooms, r, k - 1, g)
  BY <1>5
<1>7. \E f : IsWalk(rooms, r, (k - 1) + 1, f)
  BY <1>5, <1>6, WalkGrows
<1>8. (k - 1) + 1 = k
  BY <1>3
<1> QED
  BY <1>7, <1>8

\* The recursive definition of Ancestor has a solution.
LEMMA AncestorIs ==
  ASSUME NEW rooms, Len(rooms) \in Nat, NEW r
  PROVE  /\ DOMAIN Ancestor(rooms, r) = 0 .. Len(rooms)
         /\ Ancestor(rooms, r)[0] = r.name
         /\ \A n \in 0 .. Len(rooms) - 1 :
              Ancestor(rooms, r)[n + 1] = IF Ancestor(rooms, r)[n] = Absent THEN Absent
                                          ELSE Named(rooms, Ancestor(rooms, r)[n]).parent
<1> DEFINE up == Ancestor(rooms, r)
<1>1. up = CHOOSE f : IsWalk(rooms, r, Len(rooms), f)
  BY DEF Ancestor, IsWalk
<1>2. IsWalk(rooms, r, Len(rooms), up)
  BY <1>1, WalkExists
<1> HIDE DEF up
<1>3. DOMAIN up = 0 .. Len(rooms)
      /\ \A n \in 0 .. Len(rooms) :
           up[n] = IF n = 0 THEN r.name
                   ELSE IF up[n - 1] = Absent THEN Absent ELSE Named(rooms, up[n - 1]).parent
  BY <1>2 DEF IsWalk
<1>4. up[0] = r.name
  BY <1>3
<1>5. ASSUME NEW n \in 0 .. Len(rooms) - 1
      PROVE  up[n + 1] = IF up[n] = Absent THEN Absent ELSE Named(rooms, up[n]).parent
  <2>1. n + 1 \in 0 .. Len(rooms) /\ n + 1 # 0 /\ (n + 1) - 1 = n
    OBVIOUS
  <2> QED
    BY <1>3, <2>1
<1> QED
  BY <1>3, <1>4, <1>5 DEF up

\* Rooms with unique names, whose parents are rooms: what RoomsForm is about
NamesOf(rooms) == Range(Field(rooms, "name"))
Resolved(rooms) ==
  /\ rooms \in RoomLists /\ NamesAccepted(rooms)
  /\ \A r \in Range(rooms) : r.parent \in NamesOf(rooms) \cup {Absent}

LEMMA RoomFacts ==
  ASSUME NEW rooms, Resolved(rooms)
  PROVE  /\ Len(rooms) \in Nat /\ DOMAIN rooms = 1 .. Len(rooms)
         /\ IsFiniteSet(NamesOf(rooms)) /\ Cardinality(NamesOf(rooms)) <= Len(rooms)
         /\ Absent \notin NamesOf(rooms)
         /\ \A r \in Range(rooms) : r.name \in NamesOf(rooms) /\ Named(rooms, r.name) = r /\ Len(rooms) >= 1
         /\ \A x \in NamesOf(rooms) : Named(rooms, x) \in Range(rooms) /\ Named(rooms, x).name = x
<1>1. Len(rooms) \in Nat /\ DOMAIN rooms = 1 .. Len(rooms)
  BY RoomShape DEF Resolved, IsList
<1>2. IsFiniteSet(NamesOf(rooms)) /\ Cardinality(NamesOf(rooms)) <= Len(rooms)
  <2> DEFINE f == Field(rooms, "name")
             D == 1 .. Len(rooms)
             N == NamesOf(rooms)
  <2>1. f \in Surjection(D, N)
    BY <1>1 DEF Surjection, NamesOf, Range, Field
  <2>2. IsFiniteSet(D) /\ Cardinality(D) = Len(rooms)
    BY <1>1, UpToCount
  <2> HIDE DEF f, D, N
  <2>3. IsFiniteSet(N) /\ Cardinality(N) <= Cardinality(D)
    BY <2>1, <2>2, FS_Surjection
  <2> QED
    BY <2>2, <2>3 DEF N
<1>3. \A x \in NamesOf(rooms) : Named(rooms, x) \in Range(rooms) /\ Named(rooms, x).name = x
  BY NameOfRoom DEF NamesOf
<1>4. Absent \notin NamesOf(rooms)
  <2>1. \A r \in Range(rooms) : r.name # Absent
    BY RoomShape DEF Resolved, Absent
  <2> QED
    BY <1>3, <2>1
<1>5. ASSUME NEW r \in Range(rooms)
      PROVE  r.name \in NamesOf(rooms) /\ Named(rooms, r.name) = r /\ Len(rooms) >= 1
  <2>1. PICK a \in DOMAIN rooms : r = rooms[a]
    BY DEF Range
  <2>2. r.name \in NamesOf(rooms)
    BY <2>1 DEF NamesOf, Range, Field
  <2>3. Named(rooms, r.name) = r
    BY NamedRoom DEF Resolved, NamesAccepted
  <2> QED
    BY <1>1, <2>1, <2>2, <2>3
<1> QED
  BY <1>1, <1>2, <1>3, <1>4, <1>5

\* From inside a closed set the walk stays in it, until it reaches the top.
LEMMA WalkStays ==
  ASSUME NEW rooms, Resolved(rooms), NEW r \in Range(rooms), NEW S \in ParentClosed(rooms),
         NEW m \in 0 .. Len(rooms), Ancestor(rooms, r)[m] \in S \cup {Absent},
         NEW n \in m .. Len(rooms)
  PROVE  Ancestor(rooms, r)[n] \in S \cup {Absent}
<1> DEFINE up == Ancestor(rooms, r)
           L == Len(rooms)
<1>1. L \in Nat
  BY RoomFacts
<1>2. \A k \in 0 .. L - 1 : up[k + 1] = IF up[k] = Absent THEN Absent ELSE Named(rooms, up[k]).parent
  BY <1>1, AncestorIs
<1> HIDE DEF up, L
<1>3. ASSUME NEW k \in m .. L - 1, up[k] \in S \cup {Absent} PROVE up[k + 1] \in S \cup {Absent}
  <2>1. k \in 0 .. L - 1
    BY <1>1 DEF L
  <2>2. CASE up[k] = Absent
    BY <1>2, <2>1, <2>2
  <2>3. CASE up[k] # Absent
    <3>1. up[k] \in S /\ up[k] \in NamesOf(rooms)
      BY <1>3, <2>3 DEF ParentClosed, NamesOf
    <3>2. Named(rooms, up[k]) \in Range(rooms) /\ Named(rooms, up[k]).name = up[k]
      BY <3>1, RoomFacts
    <3>3. Named(rooms, up[k]).parent \in S \cup {Absent}
      BY <3>1, <3>2 DEF ParentClosed
    <3> QED
      BY <1>2, <2>1, <2>3, <3>3
  <2> QED
    BY <2>2, <2>3
<1> DEFINE B == {k \in m .. L : up[k] \notin S \cup {Absent}}
<1>4. SUFFICES ASSUME B # {} PROVE FALSE
  BY DEF up, L
<1>5. B \in SUBSET Nat
  BY <1>1 DEF L
<1>6. PICK k \in B : \A l \in B : k =< l
  <2> HIDE DEF B
  <2> QED
    BY <1>4, <1>5, LeastExists
<1>7. k # m
  BY DEF up
<1>8. k - 1 \in m .. L - 1 /\ k - 1 \notin B /\ (k - 1) + 1 = k
  BY <1>1, <1>6, <1>7 DEF L
<1>9. up[k - 1] \in S \cup {Absent}
  BY <1>1, <1>8 DEF L
<1>10. up[k] \in S \cup {Absent}
  BY <1>3, <1>8, <1>9
<1> QED
  BY <1>6, <1>10

LEMMA ClosedSets ==
  ASSUME NEW rooms, Resolved(rooms)
  PROVE  {} \in ParentClosed(rooms) /\ NamesOf(rooms) \in ParentClosed(rooms)
  BY DEF ParentClosed, Resolved, NamesOf

LEMMA WalkFacts ==
  ASSUME NEW rooms, Resolved(rooms), NEW r \in Range(rooms)
  PROVE  /\ DOMAIN Ancestor(rooms, r) = 0 .. Len(rooms)
         /\ Ancestor(rooms, r)[0] = r.name /\ Ancestor(rooms, r)[1] = r.parent
         /\ \A n \in 0 .. Len(rooms) : Ancestor(rooms, r)[n] \in NamesOf(rooms) \cup {Absent}
<1> DEFINE up == Ancestor(rooms, r)
<1>1. Len(rooms) \in Nat /\ Len(rooms) >= 1 /\ r.name \in NamesOf(rooms) /\ Named(rooms, r.name) = r
      /\ r.name # Absent
  BY RoomFacts
<1>2. DOMAIN up = 0 .. Len(rooms) /\ up[0] = r.name
  BY <1>1, AncestorIs
<1>3. up[0 + 1] = r.parent
  <2>1. 0 \in 0 .. Len(rooms) - 1
    BY <1>1
  <2>2. up[0 + 1] = IF up[0] = Absent THEN Absent ELSE Named(rooms, up[0]).parent
    BY <1>1, <2>1, AncestorIs
  <2> QED
    BY <1>1, <1>2, <2>2
<1>4. ASSUME NEW n \in 0 .. Len(rooms) PROVE up[n] \in NamesOf(rooms) \cup {Absent}
  <2>1. 0 \in 0 .. Len(rooms) /\ n \in 0 .. Len(rooms)
    BY <1>1
  <2> QED
    BY <1>1, <1>2, <2>1, ClosedSets, WalkStays
<1> QED
  BY <1>2, <1>3, <1>4

\* Pigeonhole: a walk without repetition is at the top after Len(rooms) steps.
LEMMA ChainReachesTop ==
  ASSUME NEW rooms, Resolved(rooms), NEW r \in Range(rooms), ChainEnds(rooms, r)
  PROVE  Ancestor(rooms, r)[Len(rooms)] = Absent
<1> DEFINE up == Ancestor(rooms, r)
           D == 0 .. Len(rooms)
           N == NamesOf(rooms)
<1>1. Len(rooms) \in Nat /\ IsFiniteSet(N) /\ Cardinality(N) <= Len(rooms)
  BY RoomFacts
<1>2. DOMAIN up = D /\ \A n \in D : up[n] \in N \cup {Absent}
  BY WalkFacts
<1>3. \A m, n \in D : m # n /\ up[m] = up[n] => up[m] = Absent
  BY <1>2 DEF ChainEnds
<1>4. \E k \in D : up[k] = Absent
  <2>1. SUFFICES ASSUME \A k \in D : up[k] # Absent PROVE FALSE
    OBVIOUS
  <2> DEFINE f == [n \in D |-> up[n]]
  <2>2. f \in [D -> N]
    BY <1>2, <2>1
  <2>3. IsFiniteSet(D) /\ Cardinality(D) = Len(rooms) + 1
    BY <1>1, FS_Interval
  <2>4. Cardinality(N) \in Nat
    BY <1>1, FS_CardinalityType
  <2>5. Cardinality(N) < Cardinality(D)
    BY <1>1, <2>3, <2>4
  <2>6. \A n \in D : f[n] = up[n]
    OBVIOUS
  <2> HIDE DEF f, D, N, up
  <2>7. PICK x, y \in D : x # y /\ f[x] = f[y]
    BY <1>1, <2>2, <2>3, <2>5, FS_PigeonHole
  <2> QED
    BY <1>3, <2>1, <2>6, <2>7
<1>5. PICK k \in D : up[k] = Absent
  BY <1>4
<1>6. Len(rooms) \in k .. Len(rooms)
  BY <1>1
<1>7. up[Len(rooms)] \in {} \cup {Absent}
  BY <1>5, <1>6, ClosedSets, WalkStays
<1> QED
  BY <1>7

\* What the walk meets is what is above the room.
LEMMA WalkIsAbove ==
  ASSUME NEW rooms, Resolved(rooms), NEW r \in Range(rooms), ChainEnds(rooms, r),
         NEW y \in NamesOf(rooms)
  PROVE  y \in Above(rooms, r.name) <=> \E n \in 1 .. Len(rooms) : Ancestor(rooms, r)[n] = y
<1> DEFINE up == Ancestor(rooms, r)
           A == {x \in NamesOf(rooms) : \E n \in 1 .. Len(rooms) : up[n] = x}
<1>1. Len(rooms) \in Nat /\ Len(rooms) >= 1 /\ Named(rooms, r.name) = r /\ Absent \notin NamesOf(rooms)
  BY RoomFacts
<1>2. up[1] = r.parent /\ \A n \in 0 .. Len(rooms) : up[n] \in NamesOf(rooms) \cup {Absent}
  BY WalkFacts
<1>3. ASSUME NEW n \in 1 .. Len(rooms), up[n] = y PROVE y \in Above(rooms, r.name)
  <2>1. ASSUME NEW S \in ParentClosed(rooms), r.parent \in S \cup {Absent} PROVE y \in S
    <3>1. 1 \in 0 .. Len(rooms) /\ n \in 1 .. Len(rooms)
      BY <1>1
    <3>2. up[n] \in S \cup {Absent}
      BY <1>2, <2>1, <3>1, WalkStays
    <3> QED
      BY <1>1, <1>3, <3>2
  <2> QED
    BY <1>1, <2>1 DEF Above, NamesOf
<1>4. A \in ParentClosed(rooms)
  <2>1. ASSUME NEW q \in Range(rooms), q.name \in A PROVE q.parent \in A \cup {Absent}
    <3>1. PICK n \in 1 .. Len(rooms) : up[n] = q.name
      BY <2>1
    <3>2. q.name # Absent /\ Named(rooms, q.name) = q
      BY <1>1, RoomFacts
    <3>3. n # Len(rooms)
      BY <3>1, <3>2, ChainReachesTop
    <3>4. n \in 0 .. Len(rooms) - 1 /\ n + 1 \in 1 .. Len(rooms) /\ n + 1 \in 0 .. Len(rooms)
      BY <1>1, <3>3
    <3>5. up[n + 1] = q.parent
      <4>1. up[n + 1] = IF up[n] = Absent THEN Absent ELSE Named(rooms, up[n]).parent
        BY <1>1, <3>4, AncestorIs
      <4> QED
        BY <3>1, <3>2, <4>1
    <3> QED
      BY <1>2, <3>4, <3>5
  <2> HIDE DEF up
  <2> QED
    BY <2>1 DEF ParentClosed, NamesOf
<1>5. r.parent \in A \cup {Absent}
  <2>1. 1 \in 1 .. Len(rooms) /\ 1 \in 0 .. Len(rooms)
    BY <1>1
  <2> QED
    BY <1>2, <2>1
<1>6. ASSUME y \in Above(rooms, r.name) PROVE y \in A
  BY <1>1, <1>4, <1>5, <1>6 DEF Above
<1> QED
  BY <1>3, <1>6

\* A walk that repeats a room shows a room above itself.
LEMMA RepeatIsCycle ==
  ASSUME NEW rooms, Resolved(rooms), NEW r \in Range(rooms),
         NEW m \in 0 .. Len(rooms), NEW n \in 0 .. Len(rooms), m < n,
         Ancestor(rooms, r)[m] = Ancestor(rooms, r)[n], Ancestor(rooms, r)[m] # Absent
  PROVE  \E y \in NamesOf(rooms) : y \in Above(rooms, y)
<1> DEFINE up == Ancestor(rooms, r)
           y == up[m]
<1>1. Len(rooms) \in Nat /\ y \in NamesOf(rooms)
  BY RoomFacts, WalkFacts
<1>2. m \in 0 .. Len(rooms) - 1 /\ m + 1 \in 0 .. Len(rooms) /\ n \in m + 1 .. Len(rooms)
  BY <1>1
<1>3. up[m + 1] = Named(rooms, y).parent
  BY <1>1, <1>2, AncestorIs
<1>4. ASSUME NEW S \in ParentClosed(rooms), Named(rooms, y).parent \in S \cup {Absent} PROVE y \in S
  <2>1. up[n] \in S \cup {Absent}
    BY <1>2, <1>3, <1>4, WalkStays
  <2> QED
    BY <2>1
<1> HIDE DEF y
<1>5. y \in Above(rooms, y)
  BY <1>1, <1>4 DEF Above, NamesOf
<1> QED
  BY <1>1, <1>5

\* The walk with a visited set in Topology::build rejects the rooms whose parents
\* form a cycle and no others, and descendants_by_room is the transitive closure
\* of `parent`, for any number of rooms.
THEOREM RoomsAreForest == RoomsForm
<1> SUFFICES ASSUME NEW rooms, Resolved(rooms)
             PROVE  /\ ParentsAccepted(rooms) <=> \A x \in NamesOf(rooms) : x \notin Above(rooms, x)
                    /\ ParentsAccepted(rooms) =>
                         \A p \in NamesOf(rooms) :
                           Below(rooms, p) = {x \in NamesOf(rooms) :
                                                p \in Above(rooms, x) /\ Named(rooms, x).ruled}
  BY DEF RoomsForm, Resolved, NamesOf
<1>1. /\ Len(rooms) \in Nat /\ Absent \notin NamesOf(rooms)
      /\ \A r \in Range(rooms) : r.name \in NamesOf(rooms) /\ Named(rooms, r.name) = r
      /\ \A x \in NamesOf(rooms) : Named(rooms, x) \in Range(rooms) /\ Named(rooms, x).name = x
  BY RoomFacts
<1>2. ASSUME ParentsAccepted(rooms), NEW x \in NamesOf(rooms) PROVE x \notin Above(rooms, x)
  <2> DEFINE r == Named(rooms, x)
             up == Ancestor(rooms, r)
  <2>1. r \in Range(rooms) /\ r.name = x
    BY <1>1
  <2>2. ChainEnds(rooms, r)
    BY <1>2, <2>1 DEF ParentsAccepted
  <2>3. ASSUME NEW n \in 1 .. Len(rooms), up[n] = x PROVE FALSE
    <3>1. DOMAIN up = 0 .. Len(rooms) /\ up[0] = x
      BY <2>1, WalkFacts
    <3>2. 0 \in DOMAIN up /\ n \in DOMAIN up /\ n # 0
      BY <1>1, <3>1
    <3>3. up[0] = Absent
      <4> HIDE DEF r
      <4> QED
        BY <2>2, <2>3, <3>1, <3>2 DEF ChainEnds
    <3> QED
      BY <1>1, <1>2, <3>1, <3>3
  <2> HIDE DEF r
  <2> QED
    BY <2>1, <2>2, <2>3, WalkIsAbove
<1>3. ASSUME \A x \in NamesOf(rooms) : x \notin Above(rooms, x) PROVE ParentsAccepted(rooms)
  <2>1. ASSUME NEW r \in Range(rooms), r.parent # Absent
        PROVE  r.parent # r.name /\ r.parent \in NamesOf(rooms)
    <3>1. r.parent \in NamesOf(rooms)
      BY <2>1 DEF Resolved
    <3>2. ASSUME r.parent = r.name PROVE FALSE
      <4>1. r.name \in Above(rooms, r.name)
        BY <1>1, <2>1, <3>2 DEF Above, NamesOf
      <4> QED
        BY <1>1, <1>3, <4>1
    <3> QED
      BY <3>1, <3>2
  <2>2. ASSUME NEW r \in Range(rooms) PROVE ChainEnds(rooms, r)
    <3> DEFINE up == Ancestor(rooms, r)
    <3>1. DOMAIN up = 0 .. Len(rooms)
      BY WalkFacts
    <3>2. ASSUME NEW m \in 0 .. Len(rooms), NEW n \in 0 .. Len(rooms), m < n, up[m] = up[n]
          PROVE  up[m] = Absent
      BY <1>3, <3>2, RepeatIsCycle
    <3>3. ASSUME NEW m \in 0 .. Len(rooms), NEW n \in 0 .. Len(rooms), m # n, up[m] = up[n]
          PROVE  up[m] = Absent
      <4>1. m < n \/ n < m
        BY <1>1, <3>3
      <4> HIDE DEF up
      <4> QED
        BY <3>2, <3>3, <4>1
    <3> QED
      BY <3>1, <3>3 DEF ChainEnds
  <2> QED
    BY <2>1, <2>2 DEF ParentsAccepted, NamesOf
<1>4. ASSUME ParentsAccepted(rooms), NEW p \in NamesOf(rooms)
      PROVE  Below(rooms, p) = {x \in NamesOf(rooms) : p \in Above(rooms, x) /\ Named(rooms, x).ruled}
  <2>1. \A r \in Range(rooms) :
          p \in Above(rooms, r.name) <=> \E n \in 1 .. Len(rooms) : Ancestor(rooms, r)[n] = p
    BY <1>4, WalkIsAbove DEF ParentsAccepted
  <2>2. Below(rooms, p) = {r.name : r \in {x \in Range(rooms) : x.ruled /\ p \in Above(rooms, x.name)}}
    BY <2>1 DEF Below
  <2> QED
    BY <1>1, <2>2
<1> QED
  BY <1>2, <1>3, <1>4

\* All of what the modules assume of a configuration, for any configuration that
\* the program accepts.
THEOREM AcceptedShape == AcceptedIsAssumed
  BY SweepIsTiling, SlotsFollowEachOther, StepsAreFormed, RoomsAreForest, HeatingIsFormed,
     RulesAreFormed
  DEF AcceptedIsAssumed

\* The process never starts on a configuration that lacks a shape its handlers
\* rely on: Topology::build has rejected it.
THEOREM StartsValidated == AutoSpec => []StartsAsAssumed
<1>1. StartsAsAssumed
  BY AcceptedShape DEF StartsAsAssumed
<1> QED
  BY <1>1, PTL
=============================================================================
