------------------------------ MODULE Buttons ------------------------------
(***************************************************************************)
(* Button presses: the event queue of the daemon, deferred presses,        *)
(* hardware and soft double taps (logic/buttons.rs, the select! of         *)
(* daemon/event_loop.rs, the button sets of topology/build.rs).            *)
(*                                                                         *)
(* An MQTT event is stamped when it is parsed and handled when the event   *)
(* loop gets to it; a tick is stamped when it is handled.  So a press that *)
(* was stamped inside the window of another one may be handled after the   *)
(* tick that flushed it.  `inbox` is the queue with the age of each event. *)
(* All the handlers ask about the rooms is whether they are known to be    *)
(* off; the effects of a binding are reduced to what they do to that.      *)
(***************************************************************************)
EXTENDS Tass, Sequences, FiniteSetsExt

CONSTANTS ButtonIds,     \* (device, button) pairs of the switch models
          Mapped,        \* button -> gestures its z2m_action_map can report
          Bound,         \* button -> gesture -> effects <<kind, room>>
          Rooms,
          Window,        \* soft_double_tap_window_seconds
          Suppression,   \* double_tap_suppression_seconds
          MaxLag,        \* bound: an event waits at most this long
          MaxInbox       \* bound: events waiting

\* What a switch model can map and what a binding can ask for
Reported == {"Press", "DoubleTap", "Hold", "HoldRelease"}
Gestures == Reported \cup {"SoftDoubleTap"}

\* Scene effects light a dark room; a toggle also darkens a lit one.
SceneKinds == {"Toggle", "Cycle"}
Effects == (SceneKinds \cup {"TurnOff", "Other"}) \X Rooms

ASSUME ButtonsAssumption ==
  /\ Mapped \in [ButtonIds -> SUBSET Reported]
  /\ Bound \in [ButtonIds -> [Gestures -> SUBSET Effects]]
  /\ Window \in Nat /\ Suppression \in Nat
  /\ MaxLag \in Nat /\ MaxInbox \in Nat
  /\ MaxAge - MaxLag > Window /\ MaxAge - MaxLag >= Suppression

VARIABLES inbox,      \* events stamped by parse and not handled yet
          pending,    \* pending_presses
          lastTap,    \* last_double_tap, as an age
          room,       \* room -> lit (is_on) and known (actual.is_known)
          out,        \* the gestures dispatched by the last step, by button
          owed,       \* history: presses neither acted on nor absorbed yet
          tapped      \* history: time since a double tap was dispatched

vars == <<inbox, pending, lastTap, room, out, owed, tapped>>

NoPress == [age |-> -1, fired |-> FALSE]
Quiet   == [b \in ButtonIds |-> <<>>]
Never   == MaxAge     \* long enough ago for every window

\* Topology::build: a button that reports presses and double taps
HwButtons == {b \in ButtonIds : {"Press", "DoubleTap"} \subseteq Mapped[b]}

\* Topology::build: a button with a soft_double_tap binding
SoftButtons == {b \in ButtonIds : Bound[b]["SoftDoubleTap"] # {}}

\* What execute_effect does to a room
RoomAfter(r, kinds) ==
  [r EXCEPT !.lit = IF "TurnOff" \in kinds THEN FALSE
                    ELSE IF "Toggle" \in kinds THEN ~@
                    ELSE IF "Cycle" \in kinds THEN TRUE ELSE @]

\* dispatch_bindings: every effect bound to the gesture is executed
Dispatched(rs, b, g) ==
  [r \in Rooms |-> RoomAfter(rs[r], {e[1] : e \in {x \in Bound[b][g] : x[2] = r}})]

\* can_early_fire_press: every press binding lights a room known to be off
CanEarlyFire(rs, b) ==
  /\ Bound[b]["Press"] # {}
  /\ \A e \in Bound[b]["Press"] :
       e[1] \in SceneKinds /\ ~rs[e[2]].lit /\ rs[e[2]].known

\* PendingPress: a press that waits, and one whose bindings fired early
Buffered(lag)   == [age |-> lag, fired |-> FALSE]
EarlyFired(lag) == [age |-> lag, fired |-> TRUE]

\* A mutant: a new press replaces the one before it without acting on it.
DeferDropping(b, lag) ==
  LET early == CanEarlyFire(room, b) IN
    [room |-> IF early THEN Dispatched(room, b, "Press") ELSE room,
     out |-> IF early THEN <<"Press">> ELSE <<>>,
     pending |-> IF early THEN EarlyFired(lag) ELSE Buffered(lag),
     lastTap |-> lastTap[b]]

\* A pending press whose bindings still have to be dispatched
Unfired(p) == p # NoPress /\ ~p.fired

Flushed(rs, b) == IF Unfired(pending[b]) THEN Dispatched(rs, b, "Press") ELSE rs

FlushedOut(b) == IF Unfired(pending[b]) THEN <<"Press">> ELSE <<>>

\* What a handler leaves: the rooms, the gestures dispatched, the button's
\* pending press and its last double tap.
Result(rs, gs, p, tap) == [room |-> rs, out |-> gs, pending |-> p, lastTap |-> tap]

Ignored(b) == Result(room, <<>>, pending[b], lastTap[b])

\* handle_hw_double_tap_deferred_press: the press before it is flushed first,
\* then the rooms decide whether this one is dispatched at once.
Defer(b, lag) ==
  LET flushed == Flushed(room, b)
      early   == CanEarlyFire(flushed, b)
  IN Result(IF early THEN Dispatched(flushed, b, "Press") ELSE flushed,
            FlushedOut(b) \o IF early THEN <<"Press">> ELSE <<>>,
            IF early THEN EarlyFired(lag) ELSE Buffered(lag), lastTap[b])

\* handle_soft_double_tap_press
SoftPress(b, lag) ==
  IF pending[b] # NoPress /\ pending[b].age - lag =< Window
    THEN Result(Dispatched(room, b, "SoftDoubleTap"), <<"SoftDoubleTap">>,
                NoPress, lastTap[b])
    ELSE Result(Flushed(room, b), FlushedOut(b), Buffered(lag), lastTap[b])

\* Gesture::DoubleTap: redundant after an early-fired press, and then it does
\* not start the suppression window either.
DoubleTap(b, lag) ==
  IF pending[b] # NoPress /\ pending[b].fired
    THEN Result(room, <<>>, NoPress, lastTap[b])
    ELSE Result(Dispatched(room, b, "DoubleTap"), <<"DoubleTap">>, NoPress, lag)

\* A mutant: presses after a double tap are not suppressed.
PressUnsuppressed(b, lag) ==
  IF b \in HwButtons THEN Defer(b, lag)
  ELSE IF b \in SoftButtons THEN SoftPress(b, lag)
  ELSE Result(Dispatched(room, b, "Press"), <<"Press">>, pending[b], lastTap[b])

\* Gesture::Press
Press(b, lag) ==
  IF b \in HwButtons
    THEN IF lastTap[b] - lag < Suppression THEN Ignored(b) ELSE Defer(b, lag)
  ELSE IF b \in SoftButtons THEN SoftPress(b, lag)
  ELSE Result(Dispatched(room, b, "Press"), <<"Press">>, pending[b], lastTap[b])

\* handle_button_press
Handled(b, g, lag) ==
  IF g = "Press" THEN Press(b, lag)
  ELSE IF g = "DoubleTap" THEN DoubleTap(b, lag)
  ELSE Result(Dispatched(room, b, g), <<g>>, pending[b], lastTap[b])
-----------------------------------------------------------------------------
Init ==
  /\ inbox = <<>>
  /\ pending = [b \in ButtonIds |-> NoPress]
  /\ lastTap = [b \in ButtonIds |-> Never]
  /\ room \in [Rooms -> [lit : {FALSE}, known : BOOLEAN]]
  /\ out = Quiet
  /\ owed = [b \in ButtonIds |-> 0]
  /\ tapped = [b \in ButtonIds |-> Never]

\* The bridge parses and stamps an action of a switch; unmapped ones are dropped.
Arrive(b, g) ==
  /\ Len(inbox) < MaxInbox
  /\ g \in Mapped[b]
  /\ inbox' = Append(inbox, [button |-> b, gesture |-> g, age |-> 0])
  /\ out' = Quiet
  /\ UNCHANGED <<pending, lastTap, room, owed, tapped>>

\* The presses a step acts on, by the bindings it dispatches
Acted(gs) == Cardinality({i \in DOMAIN gs : gs[i] = "Press"})

TapDispatched(gs) == \E i \in DOMAIN gs : gs[i] \in {"DoubleTap", "SoftDoubleTap"}

\* The loop takes the oldest event.
HandleButton ==
  /\ inbox # <<>>
  /\ LET b   == Head(inbox).button
         g   == Head(inbox).gesture
         lag == Head(inbox).age
         res == Handled(b, g, lag)
         new == g = "Press" /\ ~(b \in HwButtons /\ tapped[b] - lag < Suppression)
     IN /\ pending' = [pending EXCEPT ![b] = res.pending]
        /\ lastTap' = [lastTap EXCEPT ![b] = res.lastTap]
        /\ room' = res.room
        /\ out' = [c \in ButtonIds |-> IF c = b THEN res.out ELSE <<>>]
        /\ owed' = [owed EXCEPT ![b] =
                      IF TapDispatched(res.out) THEN 0
                      ELSE @ + (IF new THEN 1 ELSE 0) - Acted(res.out)]
        /\ tapped' = [tapped EXCEPT ![b] = IF TapDispatched(res.out) THEN lag ELSE @]
  /\ inbox' = Tail(inbox)

\* A mutant: only soft double-tap presses are flushed.
DueSoft == {b \in SoftButtons : pending[b] # NoPress /\ pending[b].age >= Window}

\* The pending presses whose deadline has passed
Due == {b \in ButtonIds : pending[b] # NoPress /\ pending[b].age >= Window}

\* flush_pending_presses, on the interval's tick or at next_press_deadline
Tick ==
  /\ pending' = [b \in ButtonIds |-> IF b \in Due THEN NoPress ELSE pending[b]]
  /\ room' = FoldSet(LAMBDA b, rs : Flushed(rs, b), room, Due)
  /\ out' = [b \in ButtonIds |-> IF b \in Due THEN FlushedOut(b) ELSE <<>>]
  /\ owed' = [b \in ButtonIds |-> owed[b] - Acted(out'[b])]
  /\ UNCHANGED <<inbox, lastTap, tapped>>

\* Echoes of the lights, of these and of other commands
RoomReport(r, lit) ==
  /\ room' = [room EXCEPT ![r] = [lit |-> lit, known |-> TRUE]]
  /\ out' = Quiet
  /\ UNCHANGED <<inbox, pending, lastTap, owed, tapped>>

Advance ==
  /\ \A i \in DOMAIN inbox : inbox[i].age < MaxLag
  /\ inbox' = [i \in DOMAIN inbox |-> [inbox[i] EXCEPT !.age = @ + 1]]
  /\ pending' = [b \in ButtonIds |->
                   IF pending[b] = NoPress THEN NoPress
                   ELSE [pending[b] EXCEPT !.age = Older(@)]]
  /\ lastTap' = [b \in ButtonIds |-> Older(lastTap[b])]
  /\ tapped' = [b \in ButtonIds |-> Older(tapped[b])]
  /\ out' = Quiet
  /\ UNCHANGED <<room, owed>>

Next ==
  \/ \E b \in ButtonIds, g \in Reported : Arrive(b, g)
  \/ HandleButton
  \/ Tick
  \/ \E r \in Rooms, lit \in BOOLEAN : RoomReport(r, lit)
  \/ Advance

\* The loop selects among ready branches at random, so events and ticks both
\* make progress, and time passes.
Spec == Init /\ [][Next]_vars /\ WF_vars(HandleButton) /\ WF_vars(Tick) /\ WF_vars(Advance)

-----------------------------------------------------------------------------
(* Properties *)

\* Every press of a button is acted on exactly once: whatever the order of
\* presses, double taps, late deliveries, flushes and echoes, each press that
\* the firmware quirk does not suppress is dispatched as a press, absorbed by a
\* double tap, or still pending (and then nothing else is).
PressesAccounted ==
  \A b \in ButtonIds : owed[b] = IF Unfired(pending[b]) THEN 1 ELSE 0

\* A dispatched hardware double tap is never followed by a single press of the
\* same button within the suppression window, not even by one that was
\* deferred before it, delayed in the queue or flushed by a tick.
NoPressAfterDoubleTap ==
  [][\A b \in HwButtons : Acted(out'[b]) > 0 => tapped[b] >= Suppression]_vars

\* A press that is waiting for a second tap is answered: its button's bindings
\* are dispatched, with or without further events of the switch.
PressResolves ==
  \A b \in ButtonIds : owed[b] > 0 ~> out[b] # <<>>
=============================================================================
