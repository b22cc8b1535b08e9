--------------------------- MODULE ButtonsProofs ---------------------------
(***************************************************************************)
(* Proofs about Buttons, for every set of switches, mappings, bindings,    *)
(* windows and queue bounds.  Inv is the inductive invariant: besides the  *)
(* account of presses it says that the code's record of the last double    *)
(* tap of a hardware button is right, and that such a button has a press   *)
(* pending only when that tap is out of the suppression window.            *)
(***************************************************************************)
EXTENDS Buttons, TassProofs, FiniteSetTheorems

Presses == [age : Int, fired : BOOLEAN]
Events  == [button : ButtonIds, gesture : Reported, age : 0 .. MaxLag]

Typed ==
  /\ inbox \in Seq(Events)
  /\ pending \in [ButtonIds -> Presses]
  /\ \A b \in ButtonIds : pending[b] # NoPress => pending[b].age >= 0
  /\ lastTap \in [ButtonIds -> Ages]
  /\ tapped \in [ButtonIds -> Ages]
  /\ owed \in [ButtonIds -> Int]

TapsKnown == \A b \in HwButtons : lastTap[b] = tapped[b]

PendingUnsuppressed ==
  \A b \in HwButtons : pending[b] # NoPress => tapped[b] >= Suppression

Inv == Typed /\ TapsKnown /\ PendingUnsuppressed /\ PressesAccounted

-----------------------------------------------------------------------------
(* Counting the presses a handler dispatches: it dispatches at most two.    *)

LEMMA ActedNone == Acted(<<>>) = 0
<1>1. {i \in DOMAIN <<>> : <<>>[i] = "Press"} = {}
  OBVIOUS
<1> QED
  BY <1>1, FS_EmptySet DEF Acted

LEMMA ActedOne ==
  ASSUME NEW g PROVE Acted(<<g>>) = IF g = "Press" THEN 1 ELSE 0
<1>1. CASE g = "Press"
  <2>1. {i \in DOMAIN <<g>> : <<g>>[i] = "Press"} = {1}
    BY <1>1
  <2> QED
    BY <1>1, <2>1, FS_Singleton DEF Acted
<1>2. CASE g # "Press"
  <2>1. {i \in DOMAIN <<g>> : <<g>>[i] = "Press"} = {}
    BY <1>2
  <2> QED
    BY <1>2, <2>1, FS_EmptySet DEF Acted
<1> QED
  BY <1>1, <1>2

LEMMA TwoPresses ==
  LET s == <<"Press">> \o <<"Press">>
  IN  DOMAIN s = {1, 2} /\ \A i \in DOMAIN s : s[i] = "Press"
<1> DEFINE s == <<"Press">> \o <<"Press">>
<1>1. <<"Press">> \in Seq({"Press"}) /\ Len(<<"Press">>) = 1
  OBVIOUS
<1>2. s \in Seq({"Press"}) /\ Len(s) = 2
  BY <1>1
<1> HIDE DEF s
<1>3. DOMAIN s = {1, 2} /\ \A i \in DOMAIN s : s[i] = "Press"
  BY <1>2
<1> QED
  BY <1>3 DEF s

LEMMA ActedTwo == Acted(<<"Press">> \o <<"Press">>) = 2
<1> DEFINE s == <<"Press">> \o <<"Press">>
<1> HIDE DEF s
<1>1. {i \in DOMAIN s : s[i] = "Press"} = {1} \cup {2}
  BY TwoPresses DEF s
<1>2. IsFiniteSet({1}) /\ Cardinality({1}) = 1
  BY FS_Singleton
<1>3. Cardinality({1} \cup {2}) = 2
  BY <1>2, FS_AddElement
<1> QED
  BY <1>1, <1>3 DEF Acted, s

LEMMA TapNone ==
  ~TapDispatched(<<>>) /\ ~TapDispatched(<<"Press">> \o <<"Press">>)
  BY TwoPresses DEF TapDispatched

LEMMA TapOf ==
  \A g : TapDispatched(<<g>>) <=> g \in {"DoubleTap", "SoftDoubleTap"}
  BY DEF TapDispatched

LEMMA ResultFields ==
  ASSUME NEW rs, NEW gs, NEW p, NEW tap
  PROVE  /\ Result(rs, gs, p, tap).out = gs
         /\ Result(rs, gs, p, tap).pending = p
         /\ Result(rs, gs, p, tap).lastTap = tap
  BY DEF Result

\* What flushing a pending press dispatches
LEMMA FlushedCount ==
  ASSUME NEW b
  PROVE  /\ FlushedOut(b) = (IF Unfired(pending[b]) THEN <<"Press">> ELSE <<>>)
         /\ Acted(FlushedOut(b)) = IF Unfired(pending[b]) THEN 1 ELSE 0
         /\ ~TapDispatched(FlushedOut(b))
  BY ActedNone, ActedOne, TapNone, TapOf DEF FlushedOut

-----------------------------------------------------------------------------
(* One handled event.  Balanced says what a handler's result must satisfy    *)
(* for the account of its button to stay right.                              *)

Counted(b, g, lag) == g = "Press" /\ ~(b \in HwButtons /\ tapped[b] - lag < Suppression)

Balanced(b, g, lag, res) ==
  /\ res.pending \in Presses /\ (res.pending # NoPress => res.pending.age >= 0)
  /\ res.lastTap \in Ages
  /\ Acted(res.out) \in Int
  /\ IF TapDispatched(res.out)
       THEN res.pending = NoPress /\ (b \in HwButtons => res.lastTap = lag)
       ELSE /\ b \in HwButtons => res.lastTap = lastTap[b]
            /\ owed[b] + (IF Counted(b, g, lag) THEN 1 ELSE 0) - Acted(res.out)
                 = IF Unfired(res.pending) THEN 1 ELSE 0
            /\ b \in HwButtons /\ res.pending # NoPress => tapped[b] >= Suppression
  /\ b \in HwButtons /\ Acted(res.out) > 0 => tapped[b] >= Suppression

LEMMA HandledBalanced ==
  ASSUME Inv, NEW b \in ButtonIds, NEW g \in Reported, NEW lag \in 0 .. MaxLag
  PROVE  Balanced(b, g, lag, Handled(b, g, lag))
<1> DEFINE res == Handled(b, g, lag)
<1>a. /\ lag \in Int /\ lag >= 0 /\ lag \in Ages
      /\ Suppression \in Int
  BY ButtonsAssumption, MaxAgeAssumption DEF Ages
<1>b. /\ pending[b] \in Presses /\ lastTap[b] \in Ages /\ tapped[b] \in Ages
      /\ owed[b] = (IF Unfired(pending[b]) THEN 1 ELSE 0)
      /\ b \in HwButtons => lastTap[b] = tapped[b]
      /\ b \in HwButtons /\ pending[b] # NoPress => tapped[b] >= Suppression
      /\ pending[b] # NoPress => pending[b].age >= 0
  BY DEF Inv, Typed, TapsKnown, PendingUnsuppressed, PressesAccounted
<1>c. /\ tapped[b] \in Int
      /\ ~Unfired(NoPress) /\ NoPress \in Presses
      /\ Buffered(lag) \in Presses /\ Buffered(lag).age = lag /\ Unfired(Buffered(lag))
      /\ EarlyFired(lag) \in Presses /\ EarlyFired(lag).age = lag
      /\ ~Unfired(EarlyFired(lag))
  BY <1>a, <1>b, MaxAgeAssumption
     DEF Ages, Unfired, NoPress, Presses, Buffered, EarlyFired
<1>1. CASE g = "Press" /\ b \in HwButtons /\ lastTap[b] - lag < Suppression
  <2>1. res = Ignored(b)
    BY <1>1 DEF Handled, Press
  <2>2. res.out = <<>> /\ res.pending = pending[b] /\ res.lastTap = lastTap[b]
    BY <2>1, ResultFields DEF Ignored
  <2>3. ~Counted(b, g, lag)
    BY <1>1, <1>b DEF Counted
  <2>4. Acted(res.out) = 0 /\ ~TapDispatched(res.out)
    BY <2>2, ActedNone, TapNone
  <2> HIDE DEF res
  <2> QED
    BY <1>b, <2>2, <2>3, <2>4 DEF Balanced, res
<1>2. CASE g = "Press" /\ b \in HwButtons /\ ~(lastTap[b] - lag < Suppression)
  <2> DEFINE early == CanEarlyFire(Flushed(room, b), b)
  <2>1. res = Defer(b, lag)
    BY <1>2 DEF Handled, Press
  <2>2. /\ res.out = FlushedOut(b) \o (IF early THEN <<"Press">> ELSE <<>>)
        /\ res.pending = (IF early THEN EarlyFired(lag) ELSE Buffered(lag))
        /\ res.lastTap = lastTap[b]
    <3>1. PICK rs : res = Result(rs, FlushedOut(b) \o (IF early THEN <<"Press">> ELSE <<>>),
                                 IF early THEN EarlyFired(lag) ELSE Buffered(lag),
                                 lastTap[b])
      BY <2>1, Zenon DEF Defer
    <3> HIDE DEF res, early
    <3> QED
      BY <3>1 DEF Result
  <2>3. Counted(b, g, lag) /\ tapped[b] >= Suppression
    BY <1>2, <1>a, <1>b, <1>c DEF Counted
  <2>4. early \in BOOLEAN
    BY DEF CanEarlyFire
  <2>5. /\ ~TapDispatched(res.out)
        /\ Acted(res.out) = (IF Unfired(pending[b]) THEN 1 ELSE 0)
                              + (IF early THEN 1 ELSE 0)
    <3>1. CASE Unfired(pending[b]) /\ early
      <4>1. res.out = <<"Press">> \o <<"Press">>
        BY <2>2, <3>1, FlushedCount
      <4> HIDE DEF res, early
      <4> QED
        BY <4>1, <3>1, ActedTwo, TapNone
    <3>2. CASE ~(Unfired(pending[b]) /\ early)
      <4>1. res.out = IF Unfired(pending[b]) \/ early THEN <<"Press">> ELSE <<>>
        BY <2>2, <3>2, FlushedCount
      <4> HIDE DEF res, early
      <4> QED
        BY <4>1, <3>2, ActedNone, ActedOne, TapNone, TapOf
    <3> QED
      BY <3>1, <3>2
  <2> HIDE DEF early, res
  <2>6. res.pending \in Presses /\ res.pending.age = lag /\ (Unfired(res.pending) <=> ~early)
    BY <1>c, <2>2, <2>4
  <2> QED
    BY <1>a, <1>b, <2>2, <2>3, <2>4, <2>5, <2>6 DEF Balanced, res
<1>3. CASE g = "Press" /\ b \notin HwButtons /\ b \in SoftButtons
  <2>1. res = SoftPress(b, lag) /\ Counted(b, g, lag)
    BY <1>3 DEF Handled, Press, Counted
  <2>2. CASE pending[b] # NoPress /\ pending[b].age - lag =< Window
    <3>1. res.out = <<"SoftDoubleTap">> /\ res.pending = NoPress /\ res.lastTap = lastTap[b]
      BY <2>1, <2>2, ResultFields DEF SoftPress
    <3>2. Acted(res.out) = 0 /\ TapDispatched(res.out)
      BY <3>1, ActedOne, TapOf
    <3> HIDE DEF res
    <3> QED
      BY <1>3, <1>b, <1>c, <3>1, <3>2 DEF Balanced, res
  <2>3. CASE ~(pending[b] # NoPress /\ pending[b].age - lag =< Window)
    <3>1. /\ res.out = FlushedOut(b) /\ res.pending = Buffered(lag)
          /\ res.lastTap = lastTap[b]
      BY <2>1, <2>3, ResultFields DEF SoftPress
    <3>2. /\ ~TapDispatched(res.out)
          /\ Acted(res.out) = IF Unfired(pending[b]) THEN 1 ELSE 0
      BY <3>1, FlushedCount
    <3>3. res.pending \in Presses /\ res.pending.age = lag /\ Unfired(res.pending)
      BY <1>c, <3>1
    <3> HIDE DEF res
    <3> QED
      BY <1>3, <1>a, <1>b, <2>1, <3>1, <3>2, <3>3 DEF Balanced, res
  <2> QED
    BY <2>2, <2>3
<1>4. CASE g = "Press" /\ b \notin HwButtons /\ b \notin SoftButtons
  <2>1. Counted(b, g, lag)
    BY <1>4 DEF Counted
  <2>2. res.out = <<"Press">> /\ res.pending = pending[b] /\ res.lastTap = lastTap[b]
    BY <1>4, ResultFields DEF Handled, Press
  <2>3. Acted(res.out) = 1 /\ ~TapDispatched(res.out)
    BY <2>2, ActedOne, TapOf
  <2> HIDE DEF res
  <2> QED
    BY <1>4, <1>b, <2>1, <2>2, <2>3 DEF Balanced, res
<1>5. CASE g = "DoubleTap"
  <2>1. res = DoubleTap(b, lag) /\ ~Counted(b, g, lag)
    BY <1>5 DEF Handled, Counted
  <2>2. CASE pending[b] # NoPress /\ pending[b].fired
    <3>1. res.out = <<>> /\ res.pending = NoPress /\ res.lastTap = lastTap[b]
      BY <2>1, <2>2, ResultFields DEF DoubleTap
    <3>2. ~Unfired(pending[b])
      BY <2>2 DEF Unfired
    <3>3. Acted(res.out) = 0 /\ ~TapDispatched(res.out)
      BY <3>1, ActedNone, TapNone
    <3> HIDE DEF res
    <3> QED
      BY <1>b, <1>c, <2>1, <3>1, <3>2, <3>3 DEF Balanced, res
  <2>3. CASE ~(pending[b] # NoPress /\ pending[b].fired)
    <3>1. res.out = <<"DoubleTap">> /\ res.pending = NoPress /\ res.lastTap = lag
      BY <2>1, <2>3, ResultFields DEF DoubleTap
    <3>2. Acted(res.out) = 0 /\ TapDispatched(res.out)
      BY <3>1, ActedOne, TapOf
    <3> HIDE DEF res
    <3> QED
      BY <1>a, <1>c, <3>1, <3>2 DEF Balanced, res
  <2> QED
    BY <2>2, <2>3
<1>6. CASE g \in {"Hold", "HoldRelease"}
  <2>1. ~Counted(b, g, lag)
    BY <1>6 DEF Counted
  <2>2. res.out = <<g>> /\ res.pending = pending[b] /\ res.lastTap = lastTap[b]
    BY <1>6, ResultFields DEF Handled
  <2>3. Acted(res.out) = 0 /\ ~TapDispatched(res.out)
    BY <1>6, <2>2, ActedOne, TapOf
  <2> QED
    BY <1>b, <2>1, <2>2, <2>3 DEF Balanced
<1> QED
  BY <1>1, <1>2, <1>3, <1>4, <1>5, <1>6 DEF Reported

-----------------------------------------------------------------------------
LEMMA InvInit == Init => Inv
  BY MaxAgeAssumption, ButtonsAssumption
     DEF Init, Inv, Typed, TapsKnown, PendingUnsuppressed, PressesAccounted,
         NoPress, Presses, Unfired, Never, Ages, HwButtons

\* The step of HandleButton in terms of the event it takes
LEMMA Handling ==
  ASSUME Inv, HandleButton
  PROVE  /\ inbox' \in Seq(Events)
         /\ \E b \in ButtonIds, g \in Reported, lag \in 0 .. MaxLag :
              LET res == Handled(b, g, lag) IN
                /\ pending' = [pending EXCEPT ![b] = res.pending]
                /\ lastTap' = [lastTap EXCEPT ![b] = res.lastTap]
                /\ out' = [c \in ButtonIds |-> IF c = b THEN res.out ELSE <<>>]
                /\ owed' = [owed EXCEPT ![b] =
                              IF TapDispatched(res.out) THEN 0
                              ELSE @ + (IF Counted(b, g, lag) THEN 1 ELSE 0)
                                     - Acted(res.out)]
                /\ tapped' = [tapped EXCEPT ![b] =
                                IF TapDispatched(res.out) THEN lag ELSE @]
<1>1. inbox \in Seq(Events) /\ inbox # <<>>
  BY DEF Inv, Typed, HandleButton
<1>2. Head(inbox) \in Events /\ Tail(inbox) \in Seq(Events)
  BY <1>1
<1>3. /\ Head(inbox).button \in ButtonIds /\ Head(inbox).gesture \in Reported
      /\ Head(inbox).age \in 0 .. MaxLag
  BY <1>2 DEF Events
<1> QED
  BY <1>2, <1>3 DEF HandleButton, Counted

LEMMA InvStep ==
  ASSUME Inv, [Next]_vars PROVE Inv'
<1> USE DEF Inv
<1>0. HwButtons \subseteq ButtonIds /\ Suppression \in Nat /\ Suppression \in 0 .. MaxAge
  BY ButtonsAssumption, MaxAgeAssumption DEF HwButtons
<1>1. CASE \E b \in ButtonIds, g \in Reported : Arrive(b, g)
  <2> PICK b \in ButtonIds, g \in Reported : Arrive(b, g)
    BY <1>1
  <2>1. [button |-> b, gesture |-> g, age |-> 0] \in Events
    BY ButtonsAssumption DEF Events
  <2>2. inbox' \in Seq(Events)
    BY <2>1 DEF Arrive, Typed
  <2> QED
    BY <2>2 DEF Arrive, Typed, TapsKnown, PendingUnsuppressed, PressesAccounted
<1>2. CASE HandleButton
  <2> PICK b \in ButtonIds, g \in Reported, lag \in 0 .. MaxLag :
        LET res == Handled(b, g, lag) IN
          /\ pending' = [pending EXCEPT ![b] = res.pending]
          /\ lastTap' = [lastTap EXCEPT ![b] = res.lastTap]
          /\ owed' = [owed EXCEPT ![b] =
                        IF TapDispatched(res.out) THEN 0
                        ELSE @ + (IF Counted(b, g, lag) THEN 1 ELSE 0) - Acted(res.out)]
          /\ tapped' = [tapped EXCEPT ![b] = IF TapDispatched(res.out) THEN lag ELSE @]
    BY <1>2, Handling
  <2> DEFINE res == Handled(b, g, lag)
  <2>1. Balanced(b, g, lag, res)
    BY HandledBalanced
  <2>2. inbox' \in Seq(Events) /\ lag \in Ages
    BY <1>2, Handling, ButtonsAssumption, MaxAgeAssumption DEF Ages
  <2>3. ~Unfired(NoPress)
    BY DEF Unfired
  <2> HIDE DEF res
  <2>4. Typed'
    BY <2>1, <2>2 DEF Typed, Balanced, res
  <2>5. ASSUME NEW c \in ButtonIds
        PROVE  /\ owed'[c] = IF Unfired(pending'[c]) THEN 1 ELSE 0
               /\ c \in HwButtons => lastTap'[c] = tapped'[c]
               /\ c \in HwButtons /\ pending'[c] # NoPress => tapped'[c] >= Suppression
    <3>1. CASE c # b
      BY <3>1 DEF Typed, TapsKnown, PendingUnsuppressed, PressesAccounted
    <3>2. CASE c = b
      BY <2>1, <2>3, <3>2 DEF Typed, Balanced, res, TapsKnown
    <3> QED
      BY <3>1, <3>2
  <2> QED
    BY <1>0, <2>4, <2>5 DEF TapsKnown, PendingUnsuppressed, PressesAccounted
<1>3. CASE Tick
  <2>1. ASSUME NEW c \in ButtonIds
        PROVE  /\ pending'[c] \in Presses
               /\ pending'[c] # NoPress => pending'[c] = pending[c]
               /\ owed'[c] \in Int
               /\ owed'[c] = IF Unfired(pending'[c]) THEN 1 ELSE 0
    <3>1. CASE c \in Due
      <4>1. pending'[c] = NoPress /\ out'[c] = FlushedOut(c)
        BY <1>3, <3>1 DEF Tick
      <4>2. owed'[c] = owed[c] - Acted(FlushedOut(c))
        BY <1>3, <4>1 DEF Tick
      <4> QED
        BY <4>1, <4>2, FlushedCount DEF PressesAccounted, Unfired, NoPress, Presses
    <3>2. CASE c \notin Due
      <4>1. pending'[c] = pending[c] /\ out'[c] = <<>>
        BY <1>3, <3>2 DEF Tick
      <4>2. owed'[c] = owed[c] - Acted(<<>>)
        BY <1>3, <4>1 DEF Tick
      <4> QED
        BY <4>1, <4>2, ActedNone DEF PressesAccounted, Typed
    <3> QED
      BY <3>1, <3>2
  <2>2. /\ pending' \in [ButtonIds -> Presses] /\ owed' \in [ButtonIds -> Int]
        /\ UNCHANGED <<inbox, lastTap, tapped>>
    BY <1>3, <2>1 DEF Tick
  <2> QED
    BY <1>0, <2>1, <2>2 DEF Typed, TapsKnown, PendingUnsuppressed, PressesAccounted
<1>4. CASE \E r \in Rooms, lit \in BOOLEAN : RoomReport(r, lit)
  BY <1>4 DEF RoomReport, Typed, TapsKnown, PendingUnsuppressed, PressesAccounted
<1>5. CASE Advance
  <2>1. inbox' \in Seq(Events)
    <3>1. /\ inbox \in Seq(Events) /\ Len(inbox) \in Nat
          /\ DOMAIN inbox = 1 .. Len(inbox)
      BY DEF Typed
    <3>2. ASSUME NEW i \in DOMAIN inbox
          PROVE  [inbox[i] EXCEPT !.age = @ + 1] \in Events
      <4>1. inbox[i] \in Events /\ inbox[i].age < MaxLag
        BY <1>5, <3>1 DEF Advance
      <4> QED
        BY <4>1, ButtonsAssumption DEF Events
    <3>3. inbox' = [i \in 1 .. Len(inbox) |-> [inbox[i] EXCEPT !.age = @ + 1]]
      BY <1>5, <3>1 DEF Advance
    <3>4. inbox' \in [1 .. Len(inbox) -> Events]
      BY <3>1, <3>2, <3>3
    <3> QED
      BY <3>1, <3>4
  <2>2. ASSUME NEW c \in ButtonIds
        PROVE  /\ pending'[c] \in Presses
               /\ pending'[c] # NoPress => pending[c] # NoPress /\ pending'[c].age >= 0
               /\ Unfired(pending'[c]) = Unfired(pending[c])
    <3>1. CASE pending[c] = NoPress
      BY <1>5, <3>1 DEF Advance, Presses, NoPress
    <3>2. CASE pending[c] # NoPress
      <4>1. /\ pending[c] \in Presses /\ pending[c].age >= 0
            /\ pending'[c] = [pending[c] EXCEPT !.age = Older(@)]
        BY <1>5, <3>2 DEF Advance, Typed
      <4>2. Older(pending[c].age) \in Int /\ Older(pending[c].age) >= 0
        BY <4>1, MaxAgeAssumption DEF Older, Presses
      <4> QED
        BY <3>2, <4>1, <4>2 DEF Presses, NoPress, Unfired
    <3> QED
      BY <3>1, <3>2
  <2>3. pending' \in [ButtonIds -> Presses]
    BY <1>5, <2>2 DEF Advance
  <2>4. /\ lastTap' \in [ButtonIds -> Ages] /\ tapped' \in [ButtonIds -> Ages]
        /\ \A c \in ButtonIds : /\ lastTap'[c] = Older(lastTap[c])
                                /\ tapped'[c] = Older(tapped[c])
    BY <1>5, OlderType DEF Advance, Typed
  <2>5. \A c \in ButtonIds : tapped'[c] \in Int /\ tapped[c] \in Int /\ tapped'[c] >= tapped[c]
    BY <2>4, OlderType, MaxAgeAssumption DEF Typed, Ages
  <2>6. owed' = owed
    BY <1>5 DEF Advance
  <2>7. Typed'
    BY <2>1, <2>2, <2>3, <2>4, <2>6 DEF Typed
  <2>8. TapsKnown' /\ PressesAccounted'
    BY <1>0, <2>2, <2>4, <2>6 DEF TapsKnown, PressesAccounted
  <2>9. PendingUnsuppressed'
    BY <1>0, <2>2, <2>5 DEF PendingUnsuppressed
  <2> QED
    BY <2>7, <2>8, <2>9
<1>6. CASE UNCHANGED vars
  BY <1>6 DEF vars, Typed, TapsKnown, PendingUnsuppressed, PressesAccounted
<1> QED
  BY <1>1, <1>2, <1>3, <1>4, <1>5, <1>6 DEF Next

LEMMA Invariance == Spec => []Inv
  BY InvInit, InvStep, PTL DEF Spec

\* Every press that the firmware quirk does not suppress is dispatched once,
\* absorbed by a double tap, or pending (handle_button_press and
\* flush_pending_presses), for every interleaving of events and ticks.
THEOREM PressesNeverLost == Spec => []PressesAccounted
<1>1. Inv => PressesAccounted
  BY DEF Inv
<1> QED
  BY <1>1, Invariance, PTL

\* No single press of a hardware button is dispatched within the suppression
\* window of its last double tap (double_tap_suppression_seconds), by a
\* handler or by the tick that flushes deferred presses.
THEOREM DoubleTapSuppresses == Spec => NoPressAfterDoubleTap
<1>1. ASSUME Inv, Next, NEW b \in HwButtons, Acted(out'[b]) > 0
      PROVE  tapped[b] >= Suppression
  <2>0. b \in ButtonIds
    BY DEF HwButtons
  <2>q. out' # Quiet
    BY <1>1, <2>0, ActedNone DEF Quiet
  <2>1. CASE HandleButton
    <3> PICK c \in ButtonIds, g \in Reported, lag \in 0 .. MaxLag :
          out' = [d \in ButtonIds |-> IF d = c THEN Handled(c, g, lag).out ELSE <<>>]
      BY <1>1, <2>1, Handling
    <3>1. c = b
      BY <1>1, <2>0, ActedNone
    <3>2. Acted(Handled(b, g, lag).out) > 0
      BY <1>1, <2>0, <3>1
    <3> QED
      BY <1>1, <2>0, <3>1, <3>2, HandledBalanced DEF Balanced
  <2>2. CASE Tick
    <3>1. out'[b] = IF b \in Due THEN FlushedOut(b) ELSE <<>>
      BY <2>0, <2>2 DEF Tick
    <3>2. b \in Due
      BY <1>1, <3>1, ActedNone
    <3> QED
      BY <1>1, <3>2 DEF Due, Inv, PendingUnsuppressed
  <2>3. CASE \/ \E c \in ButtonIds, g \in Reported : Arrive(c, g)
             \/ \E r \in Rooms, lit \in BOOLEAN : RoomReport(r, lit)
             \/ Advance
    BY <2>3, <2>q DEF Arrive, RoomReport, Advance
  <2> QED
    BY <1>1, <2>1, <2>2, <2>3 DEF Next
<1>2. Inv /\ [Next]_vars
        => [\A b \in HwButtons : Acted(out'[b]) > 0 => tapped[b] >= Suppression]_vars
  BY <1>1
<1> QED
  BY <1>2, Invariance, PTL DEF Spec, NoPressAfterDoubleTap
=============================================================================
