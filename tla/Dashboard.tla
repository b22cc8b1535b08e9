----------------------------- MODULE Dashboard -----------------------------
(***************************************************************************)
(* From a device to the screen: the MQTT bridge and its bounded event      *)
(* channel, the startup seed, the event loop with its broadcasts, one web  *)
(* connection (server.rs) and the browser that shows it.                   *)
(*                                                                         *)
(* One bulb reports; a report changes the light and the room that holds    *)
(* it, so both are entities with a revision.  A tick also changes them     *)
(* without an effect (staleness, schedules).  An update or a snapshot      *)
(* carries revisions; what the fields of a snapshot are is left out.  The  *)
(* websocket is an ordered stream, so what the writer sends is received in *)
(* the same step; a slow browser is a writer that takes no step.           *)
(***************************************************************************)
EXTENDS Integers, Sequences, SequencesExt

CONSTANTS MaxReports,   \* bound: states the bulb publishes
          MaxChanges,   \* bound: changes by ticks and commands
          MaxFaults,    \* bound: lost sessions, timeouts, vanished browsers
          QueueCap,     \* capacity of the MQTT event channel (512 in the code)
          RingCap,      \* capacity of the broadcast channel (256)
          AskCap,       \* capacity of the command channel (64)
          MaxMissed     \* MAX_MISSED_PINGS

ASSUME DashboardAssumption ==
  /\ MaxReports \in Nat /\ MaxChanges \in Nat /\ MaxFaults \in Nat
  /\ QueueCap \in Nat \ {0} /\ RingCap \in Nat \ {0} /\ AskCap \in Nat \ {0}
  /\ MaxMissed \in Nat \ {0}

Entities == {"light", "room"}

VARIABLES device,    \* the bulb's newest published state, which zigbee2mqtt caches
          link,      \* the MQTT session is subscribed
          queue,     \* parsed events waiting for the event loop
          excused,   \* history: the newest publication was lost, and the seed did
                     \* not make up for it (or is undone by an older queued report)
          phase,     \* "fetching", "fetched" (seed read), "running"
          seed,      \* the state the seed read, 0 if none
          actual,    \* the bulb's state in the processor, 0 = unknown
          rev,       \* entity -> revision of its state in the processor
          changes,   \* changes by ticks and commands so far
          faults,    \* faults so far
          asks,      \* ws_cmd channel: commands waiting for the event loop
          conn,      \* [state, ring, lagged, direct, reqs, behind]
          hb,        \* HeartbeatState, and how many pings are unanswered (flight)
          screen     \* the browser: [alive, ready, shown]

ingest == <<device, link, queue, excused, phase, seed>>
vars == <<ingest, actual, rev, changes, faults, asks, conn, hb, screen>>

NoOne    == [alive |-> FALSE, ready |-> FALSE, shown |-> [e \in Entities |-> 0]]
NoBeat   == [cur |-> FALSE, prev |-> FALSE, missed |-> 0, flight |-> 0]
Closed   == [state |-> "closed", ring |-> <<>>, lagged |-> FALSE, direct |-> <<>>,
             reqs |-> <<>>, behind |-> {}]

Init == /\ device = 1 /\ link = FALSE /\ queue = <<>> /\ excused = FALSE
        /\ phase = "fetching" /\ seed = 0
        /\ actual = 0 /\ rev = [e \in Entities |-> 0]
        /\ changes = 0 /\ faults = 0
        /\ asks = <<>> /\ conn = Closed /\ hb = NoBeat /\ screen = NoOne

------------------------------------------------------------------------------
\* Messages: a snapshot or an update of some entities, as entity -> revision

Update(E, r) == [full |-> FALSE, revs |-> [e \in E |-> r[e]]]
Snapshot(r)  == [full |-> TRUE, revs |-> r]

Carried(ms) == UNION {DOMAIN ms[i].revs : i \in DOMAIN ms}

\* broadcast::Sender::send: a connection that reads too slowly loses the oldest
\* messages and learns of it on its next recv.
Cast(c, ms) ==
  IF c.state = "closed" THEN c
  ELSE LET all  == c.ring \o ms
           lost == IF Len(all) > RingCap THEN Len(all) - RingCap ELSE 0
           kept == SubSeq(all, lost + 1, Len(all))
       IN  [c EXCEPT !.ring = kept, !.lagged = @ \/ lost > 0,
                     !.behind = (@ \cup Carried(SubSeq(all, 1, lost))) \ Carried(kept)]

\* touched_from_event: a light report touches the light and its rooms.
Touched == {"light", "room"}

\* broadcast_state_updates: rooms, plugs and heating zones, not the lights
Swept == {"room"}

\* One message per entity; the rooms come before the lights.
TouchedUpdates(r) == <<Update({"room"}, r), Update({"light"}, r)>>

\* Mutant: ticks and commands broadcast nothing of their own.
SweptNothing(r) == <<>>

SweptUpdates(r) == <<Update(Swept, r)>>

------------------------------------------------------------------------------
\* MQTT bridge and startup

\* The bulb publishes: the bridge parses and enqueues it without waiting; with
\* no subscription, or with a full channel, the event is gone.
Publish ==
  /\ device < MaxReports
  /\ device' = device + 1
  /\ LET kept == link /\ Len(queue) < QueueCap
     IN  /\ queue' = IF kept THEN Append(queue, device') ELSE queue
         /\ excused' = ~kept
  /\ UNCHANGED <<link, phase, seed, actual, rev, changes, faults, asks, conn, hb, screen>>

\* ConnAck: subscribe_all, on the first connection and on every later one
Subscribe == ~link /\ link' = TRUE
             /\ UNCHANGED <<device, queue, excused, phase, seed, actual, rev, changes,
                            faults, asks, conn, hb, screen>>

\* The broker restarts: clean_session drops the subscriptions.
SessionLost == /\ link /\ faults < MaxFaults
               /\ link' = FALSE /\ faults' = faults + 1
               /\ UNCHANGED <<device, queue, excused, phase, seed, actual, rev, changes,
                              asks, conn, hb, screen>>

\* fetch_device_states_with_retry: the cache as zigbee2mqtt replays it, or
\* nothing after the last attempt
Fetch == /\ phase = "fetching" /\ phase' = "fetched"
         /\ \/ seed' = device /\ excused' = (excused /\ queue # <<>>) /\ UNCHANGED faults
            \/ /\ faults < MaxFaults /\ faults' = faults + 1
               /\ seed' = 0 /\ excused' = TRUE
         /\ UNCHANGED <<device, link, queue, actual, rev, changes, asks, conn, hb, screen>>

\* Mutant: what arrived during the fetch is discarded when the loop starts.
SeedDiscards == /\ phase = "fetched" /\ phase' = "running"
                /\ actual' = seed /\ seed' = 0 /\ queue' = <<>>
                /\ rev' = [e \in Entities |-> IF seed = 0 THEN rev[e] ELSE rev[e] + 1]
                /\ UNCHANGED <<device, link, excused, changes, faults, asks, conn, hb, screen>>

\* seed_z2m_state handles what was fetched; then the event loop starts.
Seed == /\ phase = "fetched" /\ phase' = "running"
        /\ actual' = seed /\ seed' = 0
        /\ rev' = [e \in Entities |-> IF seed = 0 THEN rev[e] ELSE rev[e] + 1]
        /\ UNCHANGED <<device, link, queue, excused, changes, faults, asks, conn, hb, screen>>

------------------------------------------------------------------------------
\* Event loop

\* Revisions after a change of some entities
Bumped(E) == [e \in Entities |-> IF e \in E THEN rev[e] + 1 ELSE rev[e]]

\* An event of the channel: the report is handled and what it touched is sent.
HandleReport ==
  /\ phase = "running" /\ queue # <<>>
  /\ actual' = Head(queue) /\ queue' = Tail(queue)
  /\ rev' = Bumped(Touched)
  /\ conn' = Cast(conn, TouchedUpdates(rev'))
  /\ UNCHANGED <<device, link, excused, phase, seed, changes, faults, asks, hb, screen>>

\* A tick: staleness and schedules change entities; the sweep follows.
Tick == /\ phase = "running"
        /\ \E E \in SUBSET Entities :
             /\ changes' = IF E = {} THEN changes ELSE changes + 1
             /\ changes' <= MaxChanges
             /\ rev' = Bumped(E)
        /\ conn' = Cast(conn, SweptUpdates(rev'))
        /\ UNCHANGED <<ingest, actual, faults, asks, hb, screen>>

\* What a command does to the entities, and what is broadcast after it: a
\* setting sends a whole snapshot, everything else the sweep.
AskKinds == {"greet", "state", "control", "setting"}
ChangedBy(kind) == IF kind \in {"control", "setting"} THEN Entities ELSE {}
After(kind, r) == IF kind = "setting" THEN <<Snapshot(r)>> ELSE SweptUpdates(r)

\* handle_ws_command.  The requester of the oldest command is waiting for the
\* reply unless it timed out or its connection closed.
HandleAsk ==
  /\ phase = "running" /\ asks # <<>>
  /\ LET ask  == Head(asks)
         heard == ask.waiting
         told == CASE heard /\ ask.kind = "greet" -> [conn EXCEPT !.state = "open"]
                   [] heard /\ ask.kind = "state" ->
                        [conn EXCEPT !.direct = Append(@, Snapshot(rev)), !.reqs = Tail(@)]
                   [] heard /\ ask.kind \in {"control", "setting"} ->
                        [conn EXCEPT !.reqs = Tail(@)]
                   [] OTHER -> conn
     IN  /\ rev' = Bumped(ChangedBy(ask.kind))
         /\ conn' = Cast(told, After(ask.kind, rev'))
  /\ asks' = Tail(asks)
  /\ UNCHANGED <<ingest, actual, changes, faults, hb, screen>>

------------------------------------------------------------------------------
\* Web connection

Unheard(q) == [i \in DOMAIN q |-> [q[i] EXCEPT !.waiting = FALSE]]

\* The connection's tasks end; commands it left in the channel are still run.
Close == /\ conn' = Closed /\ hb' = NoBeat /\ screen' = NoOne
         /\ asks' = Unheard(asks)

\* handle_ws_connection: subscribe to the broadcasts, then ask for the snapshot.
Connect == /\ conn.state = "closed" /\ Len(asks) < AskCap
           /\ conn' = [Closed EXCEPT !.state = "greeting"]
           /\ asks' = Append(asks, [kind |-> "greet", waiting |-> TRUE])
           /\ UNCHANGED <<ingest, actual, rev, changes, faults, hb, screen>>

\* REQUEST_TIMEOUT of whatever the connection waits for: it goes on without it.
TimeOut == /\ faults < MaxFaults /\ faults' = faults + 1
           /\ \E i \in DOMAIN asks : asks[i].waiting
           /\ asks' = Unheard(asks)
           /\ conn' = IF conn.state = "greeting" THEN [conn EXCEPT !.state = "open"]
                      ELSE [conn EXCEPT !.reqs = Tail(@)]
           /\ UNCHANGED <<ingest, actual, rev, changes, hb, screen>>

\* The request worker passes the oldest request of the browser on.
Waiting == \E i \in DOMAIN asks : asks[i].waiting
Work == /\ conn.state = "open" /\ conn.reqs # <<>> /\ ~Waiting /\ Len(asks) < AskCap
        /\ asks' = Append(asks, [kind |-> Head(conn.reqs), waiting |-> TRUE])
        /\ UNCHANGED <<ingest, actual, rev, changes, faults, conn, hb, screen>>

\* What the browser does with a message: nothing before its connection is
\* alive, and with an update nothing before the snapshot it asked for.
Shown(m) ==
  IF screen.alive /\ (m.full \/ screen.ready)
  THEN [screen EXCEPT !.ready = TRUE,
                      !.shown = [e \in Entities |-> IF e \in DOMAIN m.revs
                                                    THEN m.revs[e] ELSE @[e]]]
  ELSE screen

\* The writer picks a broadcast or a direct reply, whichever it likes.
Write(box) ==
  /\ conn.state = "open" /\ conn[box] # <<>>
  /\ box = "ring" => ~conn.lagged
  /\ screen' = Shown(Head(conn[box]))
  /\ conn' = [conn EXCEPT ![box] = Tail(@)]
  /\ UNCHANGED <<ingest, actual, rev, changes, faults, asks, hb>>

\* Mutant: a lagging receiver goes on with the messages that are left.
LaggedSkips == /\ conn.state = "open" /\ conn.lagged
               /\ conn' = [conn EXCEPT !.lagged = FALSE]
               /\ UNCHANGED <<ingest, actual, rev, changes, faults, asks, hb, screen>>

\* RecvError::Lagged: the connection is closed, so that the browser starts over.
Lagged == /\ conn.state = "open" /\ conn.lagged
          /\ Close /\ UNCHANGED <<ingest, actual, rev, changes, faults>>

\* The heartbeat tick: a ping that is still pending counts as missed; at the
\* limit the connection is closed, else a new nonce takes the current place.
\* Pings are answered in order, so a nonce is told by how many came after it: the
\* current one is the newest of those in flight, the previous one the next.
Missed == IF hb.cur THEN hb.missed + 1 ELSE hb.missed

\* Mutant: no new ping while one is pending
BeatPatient == /\ conn.state = "open" /\ ~hb.cur
               /\ hb' = [hb EXCEPT !.cur = TRUE, !.flight = @ + 1]
               /\ UNCHANGED <<ingest, actual, rev, changes, faults, asks, conn, screen>>

Beat == /\ conn.state = "open"
        /\ IF hb.cur /\ Missed >= MaxMissed
           THEN Close
           ELSE /\ hb' = [cur |-> TRUE, prev |-> hb.cur, missed |-> Missed,
                          flight |-> hb.flight + 1]
                /\ UNCHANGED <<conn, screen, asks>>
        /\ UNCHANGED <<ingest, actual, rev, changes, faults>>

\* The pong of the oldest ping arrives: the current or the previous nonce clears
\* both, any other pong is ignored.

\* Mutant: only the current nonce counts.
MatchesCurrent == hb.cur /\ hb.flight = 1

Matches == (hb.cur /\ hb.flight = 1) \/ (hb.prev /\ hb.flight = 2)
Pong == /\ conn.state = "open" /\ hb.flight > 0
        /\ hb' = IF Matches THEN [NoBeat EXCEPT !.flight = hb.flight - 1]
                 ELSE [hb EXCEPT !.flight = @ - 1]
        /\ UNCHANGED <<ingest, actual, rev, changes, faults, asks, conn, screen>>

------------------------------------------------------------------------------
\* Browser

\* Its own ping was answered: the connection is active; ask for the state.
Promote == /\ conn.state = "open" /\ ~screen.alive
           /\ screen' = [screen EXCEPT !.alive = TRUE, !.ready = FALSE]
           /\ conn' = [conn EXCEPT !.reqs = Append(@, "state")]
           /\ UNCHANGED <<ingest, actual, rev, changes, faults, asks, hb>>

\* A late answer makes it stale until the next one.
GoStale == /\ screen.alive /\ faults < MaxFaults /\ faults' = faults + 1
           /\ screen' = NoOne
           /\ UNCHANGED <<ingest, actual, rev, changes, asks, conn, hb>>

\* The user sends a command, one at a time.
Send == /\ screen.ready /\ conn.reqs = <<>> /\ changes < MaxChanges
        /\ \E kind \in {"control", "setting"} : conn' = [conn EXCEPT !.reqs = <<kind>>]
        /\ changes' = changes + 1
        /\ UNCHANGED <<ingest, actual, rev, faults, asks, hb, screen>>

\* The page is closed or its connection dies.
Leave == /\ conn.state # "closed" /\ faults < MaxFaults /\ faults' = faults + 1
         /\ Close /\ UNCHANGED <<ingest, actual, rev, changes>>

Next == \/ Publish \/ Subscribe \/ SessionLost \/ Fetch \/ Seed
        \/ HandleReport \/ Tick \/ HandleAsk
        \/ Connect \/ TimeOut \/ Work \/ Write("ring") \/ Write("direct") \/ Lagged \/ Beat \/ Pong
        \/ Promote \/ GoStale \/ Send \/ Leave

Spec == Init /\ [][Next]_vars

\* The event loop ticks, the writer serves its select! branches and its
\* heartbeat.  Nothing makes a browser answer pings, a device report, a user
\* send or a page connect.
FairSpec == /\ Spec /\ WF_vars(Tick)
            /\ WF_vars(Write("ring")) /\ WF_vars(Lagged) /\ WF_vars(Beat)

------------------------------------------------------------------------------
\* Properties

\* Once the event channel is drained the processor knows the bulb's newest
\* published state, unless that publication met no subscription, a full channel
\* or a failed fetch: handling the events queued during the startup fetch after
\* the seed (daemon::run) does not leave an older state standing.  A fetch makes
\* up for a lost publication only when no older report waits in the channel.
DrainedIsCurrent == phase = "running" /\ queue = <<>> /\ ~excused => actual = device

\* A connection that stays open skips no state: once it has read its lag notice,
\* or never lagged, the newest broadcast of every entity was sent on it or is
\* still waiting to be (handle_ws_connection closes when it lags).
NothingSkipped == conn.state # "closed" /\ ~conn.lagged => conn.behind = {}

\* The heartbeat closes a connection only when a ping has gone unanswered for
\* MAX_MISSED_PINGS whole intervals: a browser whose pongs cross one ping is kept.
\* (Pings are sent one per interval and answered in order, so the oldest of so many
\* in flight has waited that long.)
AnsweredKept ==
  [][Beat /\ conn.state = "open" /\ conn'.state = "closed"
     => hb.flight >= MaxMissed]_vars

\* A browser that stops answering is disconnected: always again, either a pong
\* arrives or no connection is open.
SilentIsClosed == []<><<Pong>>_vars \/ []<>(conn.state # "open")

\* Once nothing changes any more, a screen that is ready shows the controller's
\* state of everything the ticks sweep, whatever overtook what on the way.
ScreenSettles == <>[](screen.ready => \A e \in Swept : screen.shown[e] = rev[e])
=============================================================================
