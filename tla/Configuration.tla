--------------------------- MODULE Configuration ---------------------------
(***************************************************************************)
(* What the program accepts as a configuration: the validators of          *)
(* config/heating.rs, config/scenes.rs, topology/build.rs,                 *)
(* topology/motion.rs and topology/switch_steps.rs as operators on the     *)
(* parts of a configuration.  A validator stops at its first error; here   *)
(* it is a conjunction.  The other modules take the shape of a validated   *)
(* configuration for granted in their ASSUMEs; AcceptedIsAssumed is the    *)
(* bridge between the two.                                                 *)
(***************************************************************************)
EXTENDS Integers, SequencesExt

CONSTANTS Hours, Minutes,  \* of a day and of an hour
          Catalog,         \* device -> its kind
          Manual,          \* heating devices with the required mode options in
                           \* their ranges and, for a valve, a schedule that exists
          Metered,         \* plugs with the power capability
          ModelButtons,    \* switch -> the buttons of its model
          DayLists,        \* the parts of configurations that are examined:
          SlotMaps,        \* ranges of a day, scene slots,
          RoomLists,       \* rooms,
          ZoneLists,       \* heating zones,
          GroupLists,      \* pressure groups,
          RuleLists,       \* motion rules,
          StepMaps,        \* switch steps,
          BindingLists     \* bindings

\* The shapes serde gives to a configuration: hours and minutes are unsigned,
\* what is listed is a sequence, what is keyed is a finite map, and a room has
\* a name even where another has no parent.
IsList(s) == s \in Seq(Range(s))

ASSUME DayShape ==
  /\ Hours \in Nat \ {0} /\ Minutes \in Nat \ {0}
  /\ DayLists \subseteq Seq([sh : Nat, sm : Nat, eh : Nat, em : Nat, temp : Int])
ASSUME SlotShape ==
  \A slots \in SlotMaps :
    /\ IsFiniteSet(DOMAIN slots)
    /\ \A n \in DOMAIN slots : ~slots[n].sun => slots[n].from \in Nat /\ slots[n].to \in Nat
ASSUME RoomShape ==
  \A rooms \in RoomLists :
    IsList(rooms) /\ \A r \in Range(rooms) : IsList(r.members) /\ r.name # "absent"
ASSUME RuleShape ==
  \A rules \in RuleLists : \A r \in Range(rules) :
    \A s \in DOMAIN r.targets : IsList(r.targets[s].lights)
ASSUME StepShape ==
  \A steps \in StepMaps : \A s \in DOMAIN steps : \A st \in Range(steps[s]) : IsList(st.lights)

DayEnd    == Hours * Minutes
MinutesOf == 0 .. DayEnd - 1
Absent    == "absent"

IsKind(d, kind) == d \in DOMAIN Catalog /\ Catalog[d] = kind

-----------------------------------------------------------------------------
(* Temperature schedules: ranges [sh, sm, eh, em, temp] *)

RangeStart(r) == r.sh * Minutes + r.sm
RangeEnd(r)   == r.eh * Minutes + r.em

InRange(r, t) == RangeStart(r) <= t /\ t < RangeEnd(r)

\* TemperatureSchedule::validate, one range
RangeLegal(r) ==
  /\ r.sh < Hours /\ r.eh <= Hours
  /\ r.sm < Minutes
  /\ IF r.eh = Hours THEN r.em = 0 ELSE r.em < Minutes
  /\ RangeStart(r) < RangeEnd(r)
  /\ r.temp \in 5 .. 30

\* The orders in which a stable sort by start may leave the ranges; there is one.
Sorting(rs) ==
  LET before(i, j) == \/ RangeStart(rs[i]) < RangeStart(rs[j])
                      \/ RangeStart(rs[i]) = RangeStart(rs[j]) /\ i < j
  IN {p \in [DOMAIN rs -> DOMAIN rs] : \A i, j \in DOMAIN rs : i < j => before(p[i], p[j])}

\* covered_until after i ranges in the order p
CoveredUntil(rs, p, i) == IF i = 0 THEN 0 ELSE RangeEnd(rs[p[i]])

\* A mutant: the last range need not reach the end of the day.
DayCoveredOpen(rs) ==
  /\ rs # <<>>
  /\ \E p \in Sorting(rs) :
       \A i \in DOMAIN rs : RangeStart(rs[p[i]]) = CoveredUntil(rs, p, i - 1)

\* validate_day_coverage: sort by start and sweep
DayCovered(rs) ==
  /\ rs # <<>>
  /\ \E p \in Sorting(rs) :
       /\ \A i \in DOMAIN rs : RangeStart(rs[p[i]]) = CoveredUntil(rs, p, i - 1)
       /\ CoveredUntil(rs, p, Len(rs)) = DayEnd

DayAccepted(rs) == (\A i \in DOMAIN rs : RangeLegal(rs[i])) /\ DayCovered(rs)

\* target_temperature: the range that is found for a minute, if any
TargetTemperature(rs, t) ==
  LET hits == {i \in DOMAIN rs : InRange(rs[i], t)}
  IN {rs[i].temp : i \in {j \in hits : \A k \in hits : j <= k}}

-----------------------------------------------------------------------------
(* Scene schedules: slot name -> [sun, from, to, ids] *)

\* contains_time, with its wrap around midnight
SlotContains(s, t) == IF s.from <= s.to THEN s.from <= t /\ t < s.to
                                        ELSE t >= s.from \/ t < s.to

\* validate_coverage
SlotsCover(slots) ==
  \A t \in MinutesOf : Cardinality({n \in DOMAIN slots : SlotContains(slots[n], t)}) = 1

\* SceneSchedule::validate; what moves with the sun is not examined further.
SlotsAccepted(slots, ids) ==
  /\ \A n \in DOMAIN slots : /\ ~slots[n].sun => slots[n].from <= DayEnd /\ slots[n].to <= DayEnd
                             /\ slots[n].ids \subseteq ids
  /\ (\A n \in DOMAIN slots : ~slots[n].sun) => SlotsCover(slots)

-----------------------------------------------------------------------------
(* Rooms: [name, id, group, parent, members, scenes, ruled], where a member   *)
(* is <<device, endpoint>> and `scenes` the ids of the scenes that light     *)

Field(s, f) == [i \in DOMAIN s |-> s[i][f]]

Named(s, n) == CHOOSE r \in Range(s) : r.name = n

\* The n-th ancestor of a room, as the loops over `parent` walk it
Ancestor(rooms, r) ==
  LET up[n \in 0 .. Len(rooms)] ==
        IF n = 0 THEN r.name
        ELSE IF up[n - 1] = Absent THEN Absent ELSE Named(rooms, up[n - 1]).parent
  IN up

\* The walk with `visited`: it reaches the top before it repeats.
ChainEnds(rooms, r) ==
  LET up == Ancestor(rooms, r)
  IN \A m, n \in DOMAIN up : m # n /\ up[m] = up[n] => up[m] = Absent

\* Names, ids and group names: rooms share the topic namespace with devices.
NamesAccepted(rooms) ==
  /\ \A f \in {"name", "id", "group"} : IsInjective(Field(rooms, f))
  /\ Range(Field(rooms, "group")) \cap DOMAIN Catalog = {}

ParentsAccepted(rooms) ==
  /\ \A r \in Range(rooms) : r.parent # Absent => r.parent # r.name
                                                  /\ r.parent \in Range(Field(rooms, "name"))
  /\ \A r \in Range(rooms) : ChainEnds(rooms, r)

\* A member is "light/endpoint".
MembersAccepted(rooms) ==
  \A r \in Range(rooms) : \A i \in DOMAIN r.members :
    IsKind(r.members[i][1], "light") /\ r.members[i][2] \in 1 .. 240

RoomsAccepted(rooms) ==
  NamesAccepted(rooms) /\ ParentsAccepted(rooms) /\ MembersAccepted(rooms)

\* descendants_by_room: the rooms with rules below a room
Below(rooms, p) ==
  {r.name : r \in {x \in Range(rooms) : x.ruled /\
                     \E n \in 1 .. Len(rooms) : Ancestor(rooms, x)[n] = p}}

Endpoints(rooms) == UNION {Range(r.members) : r \in Range(rooms)}

-----------------------------------------------------------------------------
(* Bindings: [name, on, device, button, at, room, target, confirm] *)

TriggerAccepted(b) ==
  CASE b.on = "button" -> IsKind(b.device, "switch") /\ b.button \in ModelButtons[b.device]
    [] b.on = "power"  -> /\ IsKind(b.device, "plug") /\ b.device \in Metered
                          /\ b.target \in {Absent, b.device}
    [] b.on = "at"     -> b.at < DayEnd

EffectAccepted(b, rooms) ==
  /\ b.room # Absent => b.room \in Range(Field(rooms, "name"))
  /\ b.target # Absent => IsKind(b.target, "plug")
  /\ b.confirm >= 0

BindingsAccepted(bs, rooms) ==
  /\ IsInjective(Field(bs, "name"))
  /\ \A b \in Range(bs) : TriggerAccepted(b) /\ EffectAccepted(b, rooms)

-----------------------------------------------------------------------------
(* Heating: zones [name, relay, trvs] and pressure groups, lists of valves *)

AllTrvs(zones) == UNION {Range(z.trvs) : z \in Range(zones)}

\* No entry occurs twice, in one of the lists or in two of them.
NoneTwice(lists) ==
  \A i, j \in DOMAIN lists : \A k \in DOMAIN lists[i], l \in DOMAIN lists[j] :
    lists[i][k] = lists[j][l] => i = j /\ k = l

ZonesAccepted(zones) ==
  /\ IsInjective(Field(zones, "name")) /\ IsInjective(Field(zones, "relay"))
  /\ \A z \in Range(zones) : /\ z.trvs # <<>>
                             /\ IsKind(z.relay, "wall-thermostat") /\ z.relay \in Manual
  /\ \A t \in AllTrvs(zones) : IsKind(t, "trv") /\ t \in Manual
  /\ NoneTwice(Field(zones, "trvs"))

\* trv_to_zone
ZonesOf(zones, t) == {z \in Range(zones) : t \in Range(z.trvs)}

GroupsAccepted(zones, groups) ==
  /\ \A g \in Range(groups) :
       /\ Len(g) >= 2
       /\ \A i \in DOMAIN g : ZonesOf(zones, g[i]) # {} /\ ZonesOf(zones, g[i]) = ZonesOf(zones, g[1])
  /\ NoneTwice(groups)

-----------------------------------------------------------------------------
(* Switch steps: slot -> steps [scene, lights]; motion rules [name, sensors,  *)
(* slots, targets], where a target is a group or a list of endpoints, with *)
(* the scenes of its slot                                                  *)

\* topology::switch_steps::resolve
StepsAccepted(room, slots, steps, ids) ==
  /\ DOMAIN steps # {} => IsInjective([i \in DOMAIN room.members |-> room.members[i][1]])
  /\ \A s \in DOMAIN steps :
       /\ s \in DOMAIN slots /\ steps[s] # <<>>
       /\ \A st \in Range(steps[s]) :
            /\ st.scene \in ids
            /\ st.lights # <<>> /\ IsInjective(st.lights)
            /\ Range(st.lights) \subseteq Range(room.members)

\* endpoints_observable
EndpointsObservable(room, rooms) ==
  \A m \in Range(room.members) : \A e \in Endpoints(rooms) : e[1] = m[1] => e = m

\* validate_room_override; the slots and steps of the configuration pass the same
\* checks.  The slots may be others than the deployed ones.
RoomOverrideAccepted(room, rooms, slots, steps, ids) ==
  /\ SlotsAccepted(slots, ids) /\ DOMAIN slots # {}
  /\ StepsAccepted(room, slots, steps, ids)
  /\ DOMAIN steps # {} => EndpointsObservable(room, rooms)

Targeted(target, rooms) ==
  IF target.group = Absent THEN target.lights ELSE Named(rooms, target.group).members

RuleAccepted(rule, rooms) ==
  /\ rule.sensors # <<>> /\ IsInjective(rule.sensors)
  /\ \A s \in Range(rule.sensors) : IsKind(s, "motion-sensor")
  /\ rule.slots # {} /\ DOMAIN rule.targets = rule.slots
  /\ \A s \in rule.slots :
       LET t == rule.targets[s] IN
         /\ IF t.group = Absent THEN Range(t.lights) \subseteq Endpoints(rooms)
                                ELSE t.group \in Range(Field(rooms, "name"))
         /\ t.scenes # {}
         /\ t.group # Absent => t.scenes \subseteq Named(rooms, t.group).scenes
         /\ Targeted(t, rooms) # <<>> /\ IsInjective(Targeted(t, rooms))

\* The endpoints of a rule, over all its slots
Controlled(rule, rooms) == UNION {Range(Targeted(rule.targets[s], rooms)) : s \in rule.slots}

\* owners.insert(light.device): one rule and one endpoint per light
OwnersAccepted(rules, rooms) ==
  /\ \A i, j \in DOMAIN rules : \A d \in Controlled(rules[i], rooms), e \in Controlled(rules[j], rooms) :
       d[1] = e[1] => i = j /\ d = e
  /\ \A r \in Range(rules) : \A d \in Controlled(r, rooms), e \in Endpoints(rooms) :
       d[1] = e[1] => d = e

RulesAccepted(rules, rooms) ==
  /\ IsInjective(Field(rules, "name"))
  /\ \A r \in Range(rules) : RuleAccepted(r, rooms)
  /\ OwnersAccepted(rules, rooms)

-----------------------------------------------------------------------------
(* Properties *)

\* The sort-and-sweep check accepts exactly the days in which every minute has
\* one target temperature.
DaysTile ==
  \A rs \in DayLists :
    DayAccepted(rs) <=>
      /\ \A i \in DOMAIN rs : RangeLegal(rs[i])
      /\ \A t \in MinutesOf : Cardinality({i \in DOMAIN rs : InRange(rs[i], t)}) = 1
                              /\ TargetTemperature(rs, t) # {}

\* Slots that may wrap around midnight meet end to start: a slot that holds any
\* minute at all ends where exactly one such slot begins.
OnDial(t)   == IF t = DayEnd THEN 0 ELSE t
Held(slots) == {n \in DOMAIN slots : \E t \in MinutesOf : SlotContains(slots[n], t)}

SlotsMeet(slots) ==
  \A n \in Held(slots) :
    Cardinality({m \in Held(slots) : OnDial(slots[m].from) = OnDial(slots[n].to)}) = 1

SceneIds == UNION {UNION {slots[n].ids : n \in DOMAIN slots} : slots \in SlotMaps}

SlotsTile ==
  \A ids \in SUBSET SceneIds, slots \in SlotMaps :
    SlotsAccepted(slots, ids) /\ (\A n \in DOMAIN slots : ~slots[n].sun) =>
      Held(slots) # {} /\ SlotsMeet(slots)

\* A room with switch steps, deployed or saved from the dashboard: a step belongs
\* to a slot of the same schedule and lights some members of the room
\* (LightsAssumption); and since the steps observe devices, a member's device is
\* in the room once and has one endpoint in all rooms.
StepsForm ==
  \A rooms \in RoomLists, steps \in StepMaps, ids \in SUBSET SceneIds, slots \in SlotMaps :
    \A r \in Range(rooms) : RoomOverrideAccepted(r, rooms, slots, steps, ids) =>
      /\ \A s \in DOMAIN steps : s \in DOMAIN slots /\
           \A st \in Range(steps[s]) : Range(st.lights) \in (SUBSET Range(r.members)) \ {{}}
      /\ DOMAIN steps # {} => \A m \in Range(r.members) :
           /\ Cardinality({i \in DOMAIN r.members : r.members[i][1] = m[1]}) = 1
           /\ Cardinality({e \in Endpoints(rooms) : e[1] = m[1]}) = 1

\* Sets of rooms that hold the parents of their members; what is above a room is
\* in every such set that holds its parent.
ParentClosed(rooms) ==
  {S \in SUBSET Range(Field(rooms, "name")) :
     \A r \in Range(rooms) : r.name \in S => r.parent \in S \cup {Absent}}

Above(rooms, x) ==
  {y \in Range(Field(rooms, "name")) :
     \A S \in ParentClosed(rooms) : Named(rooms, x).parent \in S \cup {Absent} => y \in S}

\* The walk finds every cycle of parents, and the index of descendants is the
\* transitive closure of `parent`.
RoomsForm ==
  \A rooms \in RoomLists :
    LET names == Range(Field(rooms, "name"))
    IN NamesAccepted(rooms) /\ (\A r \in Range(rooms) : r.parent \in names \cup {Absent}) =>
         /\ ParentsAccepted(rooms) <=> \A x \in names : x \notin Above(rooms, x)
         /\ ParentsAccepted(rooms) =>
              \A p \in names :
                Below(rooms, p) = {x \in names : p \in Above(rooms, x) /\ Named(rooms, x).ruled}

\* A valve has one zone, a zone a valve and a relay of its own; pressure groups
\* are disjoint and lie in one zone (HeatingAssumption).
HeatingForms ==
  \A zones \in ZoneLists, groups \in GroupLists :
    ZonesAccepted(zones) /\ GroupsAccepted(zones, groups) =>
      /\ \A t \in AllTrvs(zones) : Cardinality(ZonesOf(zones, t)) = 1
      /\ \A y, z \in Range(zones) : z.trvs # <<>> /\ (y # z => y.relay # z.relay)
      /\ \A i, j \in DOMAIN groups :
           /\ \A t, u \in Range(groups[i]) : ZonesOf(zones, t) = ZonesOf(zones, u)
           /\ i # j => Range(groups[i]) \cap Range(groups[j]) = {}

\* Motion rules have disjoint sets of lights and in every slot a target with
\* scenes that are provisioned for it, and a light report speaks for one endpoint
\* (MotionAssumption); a kill switch switches no plug but the one it watches
\* (Plugs has one plug).
RulesForm ==
  \A rooms \in RoomLists : RoomsAccepted(rooms) =>
    /\ \A rules \in RuleLists : RulesAccepted(rules, rooms) =>
         \A i, j \in DOMAIN rules :
           LET lights(k) == {e[1] : e \in Controlled(rules[k], rooms)} IN
             /\ i # j => lights(i) \cap lights(j) = {}
             /\ \A s \in rules[i].slots :
                  LET t == rules[i].targets[s] IN
                    /\ Range(Targeted(t, rooms)) # {} /\ t.scenes # {}
                    /\ t.group # Absent => \A r \in Range(rooms) :
                         r.name = t.group => t.scenes \subseteq r.scenes
             /\ \A d \in lights(i) : Cardinality({e \in Endpoints(rooms) : e[1] = d}) = 1
    /\ \A bs \in BindingLists : BindingsAccepted(bs, rooms) =>
         \A b \in Range(bs) : b.on = "power" /\ b.target # Absent => b.target = b.device

\* What the other modules assume of a configuration follows from what the
\* validators of the program accept, over all the configurations examined.
AcceptedIsAssumed ==
  DaysTile /\ SlotsTile /\ StepsForm /\ RoomsForm /\ HeatingForms /\ RulesForm
=============================================================================
