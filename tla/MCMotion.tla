------------------------------- MODULE MCMotion -------------------------------
\* Small houses for Motion.
EXTENDS Motion, TLC

CONSTANTS a, b,       \* bulbs
          p, c,       \* rooms: the parent holds both bulbs, the child bulb a
          m, n,       \* motion rules
          s1, s2      \* sensors

Plain   == [scenes |-> [t \in Slots |-> <<1>>], steps |-> [t \in {} |-> <<>>]]
Stepped == [scenes |-> [t \in Slots |-> <<1>>],
            steps |-> [t \in {"night"} |-> <<[scene |-> 1, lights |-> {a}],
                                             [scene |-> 1, lights |-> {a, b}]>>]]
Short   == [scenes |-> [t \in Slots |-> <<1>>],
            steps |-> [t \in {"night"} |-> <<[scene |-> 1, lights |-> {b}]>>]]

JustPlain   == {Plain}
StepTables  == {Plain, Stepped, Short}
AllPlain    == [r \in Rooms |-> Plain]
AllStepped  == [r \in Rooms |-> Stepped]

\* Rooms
Nested      == (p :> {a, b}) @@ (c :> {a})
NestedDown  == (p :> {c}) @@ (c :> {})
Both        == (p :> {a, b})
Single      == (p :> {a})
Alone       == (p :> {})

\* Rules
NoRule      == [rule \in {} |-> None]
OnOff       == (m :> "OnOff")
OnOffOnOnly == (m :> "OnOff") @@ (n :> "OnOnly")
OffOnly     == (m :> "OffOnly")
OneSensor   == (m :> {s1})
TwoSensors  == (m :> {s1, s2})
SharedOne   == (m :> {s1}) @@ (n :> {s1})

InGroup(r)  == [group |-> r, lights |-> Members[r]]
Only(L)     == [group |-> None, lights |-> L]
ByDay       == (m :> ("day" :> InGroup(c) @@ "night" :> Only({a})))
               @@ (n :> ("day" :> Only({b}) @@ "night" :> Only({b})))
WholeRoom   == (m :> [t \in Slots |-> InGroup(p)])
FirstScene  == [rule \in Rules |-> [t \in Slots |-> 1]]
===============================================================================
