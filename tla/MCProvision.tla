---------------------------- MODULE MCProvision ----------------------------
(* Three configured devices, not all of them paired perhaps, a foreign one  *)
(* that may bear any of their names, and two rooms.                         *)
EXTENDS Provision

MCDevices == <<"d1", "d2", "d3">>
MCWanted  == [d \in {"d1", "d2", "d3"} |-> IF d = "d1" THEN <<"lamp">>
                                         ELSE IF d = "d2" THEN <<"desk">> ELSE <<"wall">>]

\* Their names in any order, one of them perhaps none of the configured ones; "x"
\* is the foreign device.
MCStartNames ==
  {ns \in UNION {[ds -> {<<"lamp">>, <<"desk">>, <<"wall">>, <<"spare">>}]
                  : ds \in {{"d1", "d2", "d3"}, {"d1", "d2", "x"}, {"d2", "d3", "x"}, {"d1", "d2"}}}
     : IsInjective(ns)}

MCRooms == <<[id |-> 1, name |-> <<"hall">>, members |-> {<<"lamp">>, <<"desk">>}, scenes |-> TRUE],
             [id |-> 2, name |-> <<"den">>, members |-> {<<"desk">>}, scenes |-> FALSE]>>

Group(i, n, ms) == [id |-> i, name |-> n, members |-> ms]

MCStartGroups ==
  {{}, {Group(1, <<"hall">>, {"d2"}), Group(2, <<"den">>, {})},
   {Group(1, <<"old">>, {"d1"}), Group(2, <<"den">>, {"d2", "x"})},
   {Group(3, <<"hall">>, {"d1"}), Group(2, <<"old">>, {})},
   {Group(1, <<"den">>, {"d2"}), Group(2, <<"hall">>, {"d1"})}}
=============================================================================
