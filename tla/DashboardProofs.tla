-------------------------- MODULE DashboardProofs --------------------------
(***************************************************************************)
(* Proofs about Dashboard, for every capacity of its channels and every    *)
(* bound.  Three independent inductive invariants: Ingested for the path   *)
(* from the bulb to the processor, Streamed for the broadcasts of a        *)
(* connection, Beating for its heartbeat.                                  *)
(***************************************************************************)
EXTENDS Dashboard, TLAPS

-----------------------------------------------------------------------------
(* From the bulb to the processor                                            *)

\* Unless the newest publication is excused, it is the last one in the channel,
\* or what the seed read, or what the processor has.
Ingested ==
  /\ queue \in Seq(Int) /\ device \in Int
  /\ excused \in BOOLEAN
  /\ phase \in {"fetching", "fetched", "running"}
  /\ ~excused /\ queue # <<>> => queue[Len(queue)] = device
  /\ ~excused /\ queue = <<>> /\ phase = "fetched" => seed = device
  /\ DrainedIsCurrent

LEMMA LastOfTail ==
  ASSUME NEW q \in Seq(Int), q # <<>>, Tail(q) # <<>>
  PROVE  Tail(q)[Len(Tail(q))] = q[Len(q)]
  OBVIOUS

LEMMA LastOfOne ==
  ASSUME NEW q \in Seq(Int), q # <<>>, Tail(q) = <<>>
  PROVE  Head(q) = q[Len(q)]
<1>1. Len(Tail(q)) = Len(q) - 1 /\ Len(q) \in Nat
  OBVIOUS
<1>2. Len(Tail(q)) = 0
  <2>1. Len(<<>>) = 0
    OBVIOUS
  <2> QED
    BY <2>1
<1>3. Len(q) = 1
  BY <1>1, <1>2
<1> QED
  BY <1>3

LEMMA IngestedStep == ASSUME Ingested, [Next]_vars PROVE Ingested'
<1> USE DEF Ingested, DrainedIsCurrent
<1>1. CASE Publish
  <2>1. device' \in Int /\ phase' = phase /\ seed' = seed /\ actual' = actual
    BY <1>1 DEF Publish
  <2>2. CASE link /\ Len(queue) < QueueCap
    <3>1. queue' = Append(queue, device')
      BY <1>1, <2>2 DEF Publish
    <3>2. /\ queue' \in Seq(Int) /\ queue' # <<>>
          /\ queue'[Len(queue')] = device'
      BY <2>1, <3>1
    <3>3. excused' \in BOOLEAN
      BY <1>1 DEF Publish
    <3> QED
      BY <2>1, <3>2, <3>3
  <2>3. CASE ~(link /\ Len(queue) < QueueCap)
    <3>1. queue' = queue /\ excused' = TRUE
      BY <1>1, <2>3 DEF Publish
    <3> QED
      BY <2>1, <3>1
  <2> QED
    BY <2>2, <2>3
<1>2. CASE Fetch
  <2>1. phase' = "fetched" /\ UNCHANGED <<device, queue, actual>>
    BY <1>2 DEF Fetch
  <2>2. CASE seed' = device /\ excused' = (excused /\ queue # <<>>)
    BY <2>1, <2>2
  <2>3. CASE excused' = TRUE
    BY <2>1, <2>3
  <2> QED
    BY <1>2, <2>2, <2>3 DEF Fetch
<1>3. CASE Seed
  BY <1>3 DEF Seed
<1>4. CASE HandleReport
  <2>1. /\ phase' = "running" /\ queue # <<>> /\ actual' = Head(queue)
        /\ queue' = Tail(queue) /\ UNCHANGED <<device, excused>>
    BY <1>4 DEF HandleReport
  <2>2. queue' \in Seq(Int)
    BY <2>1
  <2>3. CASE queue' = <<>>
    <3>1. Head(queue) = queue[Len(queue)]
      BY <2>1, <2>3, LastOfOne
    <3> QED
      BY <2>1, <2>2, <2>3, <3>1
  <2>4. CASE queue' # <<>>
    <3>1. queue'[Len(queue')] = queue[Len(queue)]
      BY <2>1, <2>4, LastOfTail
    <3> QED
      BY <2>1, <2>2, <2>4, <3>1
  <2> QED
    BY <2>3, <2>4
<1>5. CASE Subscribe \/ SessionLost
  BY <1>5 DEF Subscribe, SessionLost
<1>6. CASE UNCHANGED <<ingest, actual>>
  BY <1>6 DEF ingest
<1>7. CASE \/ Tick \/ HandleAsk \/ Connect \/ TimeOut \/ Work \/ Write("ring")
           \/ Write("direct") \/ Lagged \/ Beat \/ Pong \/ Promote \/ GoStale
           \/ Send \/ Leave
  <2>1. UNCHANGED <<ingest, actual>>
    BY <1>7 DEF Tick, HandleAsk, Connect, TimeOut, Work, Write, Lagged, Beat, Pong,
                Promote, GoStale, Send, Leave
  <2> QED
    BY <2>1, <1>6
<1>8. CASE UNCHANGED vars
  BY <1>8, <1>6 DEF vars
<1> QED
  BY <1>1, <1>2, <1>3, <1>4, <1>5, <1>7, <1>8 DEF Next

\* Once the event channel is drained the processor knows the newest published
\* state that was not lost (daemon::run seeds before it drains), for every
\* capacity of the channel and any number of publications.
THEOREM DrainedCurrent == Spec => []DrainedIsCurrent
<1>1. Init => Ingested
  <2> SUFFICES ASSUME Init PROVE Ingested
    OBVIOUS
  <2>1. /\ device = 1 /\ queue = <<>> /\ excused \in BOOLEAN
        /\ phase = "fetching"
    BY DEF Init
  <2>2. <<>> \in Seq(Int)
    OBVIOUS
  <2> QED
    BY <2>1, <2>2 DEF Ingested, DrainedIsCurrent
<1>2. Ingested /\ [Next]_vars => Ingested'
  BY IngestedStep
<1>3. Ingested => DrainedIsCurrent
  BY DEF Ingested
<1> QED
  BY <1>1, <1>2, <1>3, PTL DEF Spec

-----------------------------------------------------------------------------
(* The broadcasts of a connection                                            *)

Messages == [full : BOOLEAN, revs : UNION {[E -> Nat] : E \in SUBSET Entities}]

Connection(c) ==
  /\ {"state", "ring", "lagged", "direct", "reqs", "behind"} \subseteq DOMAIN c
  /\ c.ring \in Seq(Messages)
  /\ c.lagged \in BOOLEAN
  /\ ~c.lagged => c.behind = {}

Streamed == rev \in [Entities -> Nat] /\ Connection(conn)

LEMMA NothingCarried == Carried(<<>>) = {}
  BY DEF Carried

LEMMA MessageType ==
  ASSUME NEW r \in [Entities -> Nat]
  PROVE  /\ \A E \in SUBSET Entities : Update(E, r) \in Messages
         /\ Snapshot(r) \in Messages
<1>1. ASSUME NEW E \in SUBSET Entities PROVE Update(E, r) \in Messages
  <2>1. [e \in E |-> r[e]] \in [E -> Nat]
    OBVIOUS
  <2> QED
    BY <2>1 DEF Update, Messages
<1>2. Snapshot(r) \in Messages
  BY DEF Snapshot, Messages
<1> QED
  BY <1>1, <1>2

LEMMA SentTypes ==
  ASSUME NEW r \in [Entities -> Nat]
  PROVE  /\ TouchedUpdates(r) \in Seq(Messages) /\ SweptUpdates(r) \in Seq(Messages)
         /\ \A kind : After(kind, r) \in Seq(Messages)
<1>1. TouchedUpdates(r) \in Seq(Messages) /\ SweptUpdates(r) \in Seq(Messages)
  BY MessageType DEF TouchedUpdates, SweptUpdates, Swept, Entities
<1> QED
  BY <1>1, MessageType DEF After

\* A broadcast skips nothing without leaving a lag notice.
LEMMA CastKeeps ==
  ASSUME NEW c, Connection(c), NEW ms \in Seq(Messages)
  PROVE  Connection(Cast(c, ms))
<1>1. CASE c.state = "closed"
  BY <1>1 DEF Cast
<1>2. CASE c.state # "closed"
  <2> DEFINE all  == c.ring \o ms
             lost == IF Len(all) > RingCap THEN Len(all) - RingCap ELSE 0
             kept == SubSeq(all, lost + 1, Len(all))
             c2   == [c EXCEPT !.ring = kept, !.lagged = @ \/ lost > 0,
                               !.behind = (@ \cup Carried(SubSeq(all, 1, lost)))
                                            \ Carried(kept)]
  <2>1. Cast(c, ms) = c2
    BY <1>2 DEF Cast
  <2>2. all \in Seq(Messages) /\ Len(all) \in Nat
    BY DEF Connection
  <2>3. lost \in Nat /\ RingCap \in Nat
    BY <2>2, DashboardAssumption
  <2> HIDE DEF all
  <2>4. kept \in Seq(Messages)
    BY <2>2, <2>3
  <2> HIDE DEF kept, lost
  <2>5. /\ DOMAIN c2 = DOMAIN c /\ c2.state = c.state /\ c2.ring = kept
        /\ c2.lagged \in BOOLEAN /\ (c2.lagged <=> c.lagged \/ lost > 0)
        /\ c2.behind = (c.behind \cup Carried(SubSeq(all, 1, lost))) \ Carried(kept)
    BY DEF Connection
  <2>6. ASSUME ~c2.lagged PROVE c2.behind = {}
    <3>1. lost = 0 /\ ~c.lagged
      BY <2>3, <2>5, <2>6 DEF Connection
    <3>2. SubSeq(all, 1, 0) = <<>>
      BY <2>2
    <3>3. c.behind = {}
      BY <1>2, <3>1 DEF Connection
    <3> QED
      BY <2>5, <3>1, <3>2, <3>3, NothingCarried
  <2> HIDE DEF c2
  <2> QED
    BY <2>1, <2>4, <2>5, <2>6 DEF Connection
<1> QED
  BY <1>1, <1>2

LEMMA BumpedType ==
  ASSUME rev \in [Entities -> Nat], NEW E PROVE Bumped(E) \in [Entities -> Nat]
  BY DEF Bumped

LEMMA ClosedOK == Connection(Closed)
  BY DEF Connection, Closed

LEMMA StreamedStep == ASSUME Streamed, [Next]_vars PROVE Streamed'
<1>0. rev \in [Entities -> Nat] /\ Connection(conn)
  BY DEF Streamed
<1>1. CASE HandleReport
  <2>1. rev' \in [Entities -> Nat]
    BY <1>0, <1>1, BumpedType DEF HandleReport
  <2>2. conn' = Cast(conn, TouchedUpdates(rev'))
    BY <1>1 DEF HandleReport
  <2>3. TouchedUpdates(rev') \in Seq(Messages)
    BY <2>1, SentTypes
  <2> QED
    BY <1>0, <2>1, <2>2, <2>3, CastKeeps DEF Streamed
<1>2. CASE Tick
  <2>1. rev' \in [Entities -> Nat]
    BY <1>0, <1>2, BumpedType DEF Tick
  <2>2. conn' = Cast(conn, SweptUpdates(rev'))
    BY <1>2 DEF Tick
  <2>3. SweptUpdates(rev') \in Seq(Messages)
    BY <2>1, SentTypes
  <2> QED
    BY <1>0, <2>1, <2>2, <2>3, CastKeeps DEF Streamed
<1>3. CASE HandleAsk
  <2> DEFINE ask  == Head(asks)
             told == CASE ask.waiting /\ ask.kind = "greet" -> [conn EXCEPT !.state = "open"]
                       [] ask.waiting /\ ask.kind = "state" ->
                            [conn EXCEPT !.direct = Append(@, Snapshot(rev)), !.reqs = Tail(@)]
                       [] ask.waiting /\ ask.kind \in {"control", "setting"} ->
                            [conn EXCEPT !.reqs = Tail(@)]
                       [] OTHER -> conn
  <2>1. /\ rev' = Bumped(ChangedBy(ask.kind))
        /\ conn' = Cast(told, After(ask.kind, rev'))
    BY <1>3 DEF HandleAsk
  <2>2. rev' \in [Entities -> Nat]
    BY <1>0, <2>1, BumpedType
  <2>3. After(ask.kind, rev') \in Seq(Messages)
    BY <2>2, SentTypes
  <2>4. Connection(told)
    <3>1. \/ told = [conn EXCEPT !.state = "open"]
          \/ told = [conn EXCEPT !.direct = Append(@, Snapshot(rev)), !.reqs = Tail(@)]
          \/ told = [conn EXCEPT !.reqs = Tail(@)]
          \/ told = conn
      OBVIOUS
    <3> HIDE DEF told
    <3> QED
      BY <1>0, <3>1 DEF Connection
  <2> QED
    BY <2>1, <2>2, <2>3, <2>4, CastKeeps DEF Streamed
<1>4. CASE Publish \/ Subscribe \/ SessionLost \/ Fetch \/ Work \/ Pong \/ GoStale
  BY <1>4 DEF Publish, Subscribe, SessionLost, Fetch, Work, Pong, GoStale, Streamed
<1>5. CASE Seed
  BY <1>0, <1>5 DEF Seed, Streamed
<1>6. CASE Connect
  BY <1>0, <1>6 DEF Connect, Streamed, Connection, Closed
<1>7. CASE TimeOut
  BY <1>0, <1>7 DEF TimeOut, Streamed, Connection
<1>8. CASE Write("ring")
  <2>1. /\ rev' = rev /\ conn' = [conn EXCEPT !["ring"] = Tail(@)]
        /\ conn["ring"] # <<>>
    BY <1>8 DEF Write
  <2>2. conn.ring \in Seq(Messages) /\ conn.ring # <<>>
    BY <1>0, <2>1 DEF Connection
  <2>3. Tail(conn.ring) \in Seq(Messages)
    BY <2>2
  <2> QED
    BY <1>0, <2>1, <2>3 DEF Streamed, Connection
<1>9. CASE Write("direct")
  BY <1>0, <1>9 DEF Write, Streamed, Connection
<1>10. CASE Lagged \/ Leave
  BY <1>0, <1>10, ClosedOK DEF Lagged, Leave, Close, Streamed
<1>11. CASE Beat
  BY <1>0, <1>11, ClosedOK DEF Beat, Close, Streamed
<1>12. CASE Promote \/ Send
  BY <1>0, <1>12 DEF Promote, Send, Streamed, Connection
<1>13. CASE UNCHANGED vars
  BY <1>13 DEF vars, Streamed
<1> QED
  BY <1>1, <1>2, <1>3, <1>4, <1>5, <1>6, <1>7, <1>8, <1>9, <1>10, <1>11, <1>12, <1>13
     DEF Next

\* A connection without a lag notice has been sent, or still will be, the newest
\* broadcast of every entity, for every capacity of the broadcast channel.
THEOREM StreamComplete == Spec => []NothingSkipped
<1>1. Init => Streamed
  BY ClosedOK DEF Init, Streamed
<1>2. Streamed /\ [Next]_vars => Streamed'
  BY StreamedStep
<1>3. Streamed => NothingSkipped
  BY DEF Streamed, Connection, NothingSkipped
<1> QED
  BY <1>1, <1>2, <1>3, PTL DEF Spec

-----------------------------------------------------------------------------
(* The heartbeat                                                             *)

\* A pending ping is in flight; when one was missed before it, so is that one,
\* and its nonce is still remembered.
Beating ==
  /\ hb \in [cur : BOOLEAN, prev : BOOLEAN, missed : Nat, flight : Nat]
  /\ hb.cur => hb.flight >= 1
  /\ hb.missed >= 1 => hb.cur /\ hb.prev /\ hb.flight >= 2

LEMMA NoBeatOK ==
  /\ NoBeat \in [cur : BOOLEAN, prev : BOOLEAN, missed : Nat, flight : Nat]
  /\ NoBeat.cur = FALSE /\ NoBeat.missed = 0
  BY DEF NoBeat

LEMMA BeatingStep == ASSUME Beating, [Next]_vars PROVE Beating'
<1>1. CASE Beat
  <2>1. CASE hb.cur /\ Missed >= MaxMissed
    BY <1>1, <2>1, NoBeatOK DEF Beat, Close, Beating
  <2>2. CASE ~(hb.cur /\ Missed >= MaxMissed)
    <3>1. hb' = [cur |-> TRUE, prev |-> hb.cur, missed |-> Missed, flight |-> hb.flight + 1]
      BY <1>1, <2>2 DEF Beat
    <3>2. Missed \in Nat /\ (Missed >= 1 => hb.cur)
      BY DEF Missed, Beating
    <3> QED
      BY <3>1, <3>2 DEF Beating
  <2> QED
    BY <2>1, <2>2
<1>2. CASE Pong
  <2>1. CASE Matches
    <3>1. hb' = [NoBeat EXCEPT !.flight = hb.flight - 1] /\ hb.flight > 0
      BY <1>2, <2>1 DEF Pong
    <3>2. hb.flight - 1 \in Nat
      BY <3>1 DEF Beating
    <3>3. /\ hb' \in [cur : BOOLEAN, prev : BOOLEAN, missed : Nat, flight : Nat]
          /\ hb'.cur = NoBeat.cur /\ hb'.missed = NoBeat.missed
      BY <3>1, <3>2, NoBeatOK
    <3> QED
      BY <3>3, NoBeatOK DEF Beating
  <2>2. CASE ~Matches
    <3>1. hb' = [hb EXCEPT !.flight = @ - 1] /\ hb.flight > 0
      BY <1>2, <2>2 DEF Pong
    <3> QED
      BY <2>2, <3>1 DEF Beating, Matches
  <2> QED
    BY <2>1, <2>2
<1>3. CASE Lagged \/ Leave
  BY <1>3, NoBeatOK DEF Lagged, Leave, Close, Beating
<1>4. CASE hb' = hb
  BY <1>4 DEF Beating
<1>5. CASE \/ Publish \/ Subscribe \/ SessionLost \/ Fetch \/ Seed \/ HandleReport
           \/ Tick \/ HandleAsk \/ Connect \/ TimeOut \/ Work \/ Write("ring")
           \/ Write("direct") \/ Promote \/ GoStale \/ Send
  <2>1. hb' = hb
    BY <1>5 DEF Publish, Subscribe, SessionLost, Fetch, Seed, HandleReport, Tick,
                HandleAsk, Connect, TimeOut, Work, Write, Promote, GoStale, Send
  <2> QED
    BY <2>1, <1>4
<1>6. CASE UNCHANGED vars
  BY <1>6, <1>4 DEF vars
<1> QED
  BY <1>1, <1>2, <1>3, <1>5, <1>6 DEF Next

\* With the code's MAX_MISSED_PINGS of 2 the heartbeat closes a connection only
\* when a ping has gone unanswered for two whole intervals, however pongs and
\* pings cross.  (With 3 it would not hold: only two nonces are remembered.)
THEOREM AnsweringIsKept == ASSUME MaxMissed = 2 PROVE Spec => AnsweredKept
<1>1. Init => Beating
  BY NoBeatOK DEF Init, Beating
<1>2. Beating /\ [Next]_vars => Beating'
  BY BeatingStep
<1>3. ASSUME Beating, Beat, conn.state = "open", conn'.state = "closed"
      PROVE  hb.flight >= MaxMissed
  <2>1. hb.cur /\ Missed >= MaxMissed
    BY <1>3 DEF Beat
  <2> QED
    BY <1>3, <2>1 DEF Missed, Beating
<1>4. Beating /\ [Next]_vars
        => [Beat /\ conn.state = "open" /\ conn'.state = "closed"
              => hb.flight >= MaxMissed]_vars
  BY <1>3
<1> QED
  BY <1>1, <1>2, <1>4, PTL DEF Spec, AnsweredKept
=============================================================================
