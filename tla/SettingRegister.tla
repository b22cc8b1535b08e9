-------------------------- MODULE SettingRegister --------------------------
(***************************************************************************)
(* What the dashboard is promised about a setting: one durable register    *)
(* per setting.  A request is stored or it is not, all at once; it is      *)
(* answered with success only when it was stored and with an error only    *)
(* when it was not; a crash may cost the answer but never a stored value,  *)
(* and nothing but a request changes one.                                  *)
(***************************************************************************)
CONSTANTS Keys, Values

VARIABLES value,     \* setting -> its stored value
          request,   \* the request being served
          answer     \* what the client was told last

vars == <<value, request, answer>>

NoRequest == [key |-> "none", value |-> {}, stored |-> FALSE]
Answers   == {"none", "ok", "error"}

Init ==
  /\ value \in [Keys -> Values]
  /\ request = NoRequest
  /\ answer = "none"

Ask(k, v) ==
  /\ request = NoRequest
  /\ request' = [key |-> k, value |-> v, stored |-> FALSE]
  /\ answer' = "none"
  /\ UNCHANGED value

Commit ==
  /\ request # NoRequest /\ ~request.stored
  /\ value' = [value EXCEPT ![request.key] = request.value]
  /\ request' = [key |-> request.key, value |-> request.value, stored |-> TRUE]
  /\ UNCHANGED answer

Accept ==
  /\ request.stored
  /\ request' = NoRequest
  /\ answer' = "ok"
  /\ UNCHANGED value

\* Refused, before or after it was taken up
Refuse ==
  /\ ~request.stored
  /\ request' = NoRequest
  /\ answer' = "error"
  /\ UNCHANGED value

\* The process dies: the client never hears.
Lose ==
  /\ request' = NoRequest
  /\ answer' = "none"
  /\ UNCHANGED value

Next ==
  \/ \E k \in Keys, v \in Values : Ask(k, v)
  \/ Commit \/ Accept \/ Refuse \/ Lose

Spec == Init /\ [][Next]_vars
=============================================================================
