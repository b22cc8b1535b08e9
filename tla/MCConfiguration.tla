-------------------------- MODULE MCConfiguration --------------------------
(* Small configurations, legal ones and near misses.                       *)
EXTENDS Configuration, Relation

MCCatalog == [l1 |-> "light", l2 |-> "light", s1 |-> "motion-sensor", s2 |-> "motion-sensor",
              t1 |-> "trv", t2 |-> "trv", t3 |-> "trv",
              w1 |-> "wall-thermostat", w2 |-> "wall-thermostat",
              p1 |-> "plug", p2 |-> "plug", sw |-> "switch"]
MCManual  == {"t1", "t2", "t3", "w1", "w2"}
MCButtonsOf == [sw |-> {"on"}]

UpTo(S, n) == UNION {[1 .. k -> S] : k \in 0 .. n}

RangeAt(s, e, temp) == [sh |-> s \div 2, sm |-> s % 2, eh |-> e \div 2, em |-> e % 2, temp |-> temp]
MCDayLists == UpTo({RangeAt(se[1], se[2], 20) : se \in {x \in (0 .. 3) \X (1 .. 4) : x[1] < x[2]}}, 3)
              \cup UpTo([sh : 0 .. 2, sm : 0 .. 2, eh : 0 .. 3, em : 0 .. 2, temp : {4, 30}], 1)

MCSlots == [sun : {FALSE}, from : {0, 1, 3, 4}, to : {0, 1, 3, 4, 5}, ids : {{1}}]
           \cup {[sun |-> TRUE, from |-> 0, to |-> 1, ids |-> {2}]}
MCSlotMaps == UNION {[ns -> MCSlots] : ns \in {{"day"}, {"day", "night"}}}

RoomOf(n, parent, members) ==
  [name |-> n, id |-> n, group |-> n, parent |-> parent, members |-> members, scenes |-> {1}, ruled |-> n # "b"]
Parents == {"absent", "a", "b", "c"}
MCRoomLists ==
  {<<RoomOf("a", x, <<<<"l1", 1>>>>), RoomOf("b", y, <<<<"l1", 1>>, <<"l2", 1>>>>), RoomOf("c", z, <<<<"l2", e>>>>)>>
     : x, y, z \in Parents, e \in 1 .. 2}

MCZoneLists ==
  {<<[name |-> "z1", relay |-> "w1", trvs |-> ts], [name |-> n, relay |-> w, trvs |-> us]>>
     : ts, us \in UpTo({"t1", "t2", "t3"}, 2), n \in {"z1", "z2"}, w \in {"w1", "w2", "p1"}}
MCGroupLists == UpTo({<<"t1">>, <<"t1", "t2">>, <<"t2", "t1">>, <<"t2", "t3">>, <<"t1", "t1">>}, 2)

Lamps(ls) == [group |-> "absent", lights |-> ls, scenes |-> {1}]
Whole(g)  == [group |-> g, lights |-> <<>>, scenes |-> {1}]
MCTargets == {Lamps(<<>>), Lamps(<<<<"l1", 1>>>>), Lamps(<<<<"l2", 2>>>>), Lamps(<<<<"l2", 1>>, <<"l2", 2>>>>),
              Whole("a"), [Whole("c") EXCEPT !.scenes = {1, 2}]}
MCRules == {[name |-> n, sensors |-> <<s>>, slots |-> {"day", "night"}, targets |-> [day |-> d, night |-> e]]
              : n \in {"m1", "m2"}, s \in {"s1", "l1"}, d \in MCTargets, e \in {Lamps(<<<<"l1", 1>>>>), Whole("c")}}
MCRuleLists == UpTo(MCRules, 2)

MCStepMaps == {[s \in {n} |-> <<[scene |-> i, lights |-> <<<<"l1", 1>>>>]>>]
                 : n \in {"day", "night"}, i \in {1, 2}}

MCBindingLists ==
  {<<[name |-> "k", on |-> o, device |-> d, button |-> "on", at |-> 1, room |-> "a", target |-> t, confirm |-> 0]>>
     : o \in {"power", "button", "at"}, d \in {"p1", "p2", "sw"}, t \in {"absent", "p1", "p2", "l1"}}

\* Two checks of the definitions the properties rest on: the slots that were
\* accepted add up to the day, and Above is the transitive closure of `parent`.
Span(s) == IF s.from <= s.to THEN s.to - s.from ELSE (DayEnd - s.from) + s.to

ASSUME SpansAddUp ==
  \A slots \in SlotMaps :
    SlotsAccepted(slots, {1}) /\ (\A n \in DOMAIN slots : ~slots[n].sun) =>
      SumFunction([n \in DOMAIN slots |-> Span(slots[n])]) = DayEnd

ASSUME AboveIsClosure ==
  \A rooms \in RoomLists :
    LET names  == Range(Field(rooms, "name"))
        parent == [x, y \in names |-> Named(rooms, x).parent = y]
        above  == TransitiveClosure(parent, names)
    IN \A x \in names : Above(rooms, x) = {y \in names : above[x, y]}
=============================================================================
