----------------------------- MODULE Provision -----------------------------
(***************************************************************************)
(* The provisioning pass (provision/*.rs): reconcile the names, groups,    *)
(* members, scenes and device options of zigbee2mqtt, and the node names   *)
(* of Z-Wave JS UI, with the configuration.  It runs to completion or to   *)
(* its first error before the daemon starts, and again on the next start.  *)
(*                                                                         *)
(* The pass decides from `snap`, what it last read of bridge/groups, and   *)
(* zigbee2mqtt moves on underneath.  The retained message reaches the      *)
(* client's topic cache when it pleases (`Deliver`); a request is served,  *)
(* refused, or times out with or without having been served.               *)
(*                                                                         *)
(* DOMAIN names is what is paired with zigbee2mqtt: perhaps only some of   *)
(* the configured devices (`Ds`), and perhaps foreign ones.  The pass reads *)
(* it once, and nothing is paired or removed while passes run.  A friendly *)
(* name is a sequence: <<"lamp">>, <<"tmp", d>> while names are swapped, or *)
(* the address <<"0x", d>> of a device that was never named.               *)
(***************************************************************************)
EXTENDS Integers, FiniteSets, SequencesExt

CONSTANTS Devices,      \* in the order of name_by_address, a sequence
          Wanted,       \* device -> configured friendly name
          Rooms,        \* the configured groups: [id, name, members, scenes]
          Nodes,        \* Z-Wave nodes with a configured name
          Joined,       \* Z-Wave nodes in the network
          Optioned,     \* devices with a description and options to write
          StartNames,   \* the friendly names zigbee2mqtt may start with
          StartGroups,  \* the groups zigbee2mqtt may start with
          Attempts,     \* SCENE_MAX_ATTEMPTS
          MaxFaults     \* bound: requests that time out or get lost

Ds == Range(Devices)

ASSUME ProvisionAssumption ==
  /\ Devices \in Seq(Ds) /\ IsInjective(Devices)
  /\ Wanted \in [Ds -> Range(Wanted)] /\ IsInjective(Wanted)
  /\ Rooms \in Seq(Range(Rooms))
  /\ \A i, j \in DOMAIN Rooms :
       i # j => Rooms[i].id # Rooms[j].id /\ Rooms[i].name # Rooms[j].name
  /\ \A i \in DOMAIN Rooms : Rooms[i].members \subseteq Range(Wanted)
  /\ \A ns \in StartNames : /\ ns \in [DOMAIN ns -> Range(ns)] /\ IsInjective(ns)
                            /\ IsFiniteSet(DOMAIN ns)
  /\ \A gs \in StartGroups :
       /\ IsFiniteSet(gs)
       /\ \A g \in gs : /\ g \in [id : {g.id}, name : {g.name}, members : SUBSET g.members]
                       /\ IsFiniteSet(g.members)
  /\ MaxFaults \in Nat /\ Attempts \in Nat \ {0}
  /\ Optioned \subseteq Ds /\ IsFiniteSet(Nodes)

Tmp(d) == <<"tmp", d>>
Address(d) == <<"0x", d>>

\* A temporary name is made from an address; no other device has or gets it.
ASSUME TmpReserved ==
  \A e \in Ds : /\ \A d \in Ds \ {e} : Wanted[d] # Tmp(e)
                /\ \A ns \in StartNames : \A d \in DOMAIN ns \ {e} : ns[d] # Tmp(e)

\* Nobody calls a device by the address of another.
ASSUME AddressesReserved ==
  \A d \in Ds : \A ns \in StartNames : \A e \in (Ds \cup DOMAIN ns) \ {d} : Wanted[d] # Address(e)

\* zigbee2mqtt gives every group its own id and name.
Unique(gs) == \A g, h \in gs : g.id = h.id \/ g.name = h.name => g = h

ASSUME GroupsUnique == \A gs \in StartGroups : Unique(gs)

VARIABLES names,      \* zigbee2mqtt: paired device -> friendly name
          groups,     \* zigbee2mqtt: its groups
          scened,     \* names of groups whose bulbs hold the configured scenes
          described,  \* devices with the configured description
          tuned,      \* devices with the options configured for their name
          named,      \* Z-Wave nodes with their configured name
          cache,      \* topic_cache of bridge/groups: {} or {payload}
          due,        \* bridge/groups holds something not received yet
          phase,      \* what the pass is doing ...
          step,       \* ... and how far it is: "fetch", "wait", "plan", "issue"
          snap,       \* the groups the pass works with
          todo,       \* the requests of this phase
          did,        \* the kinds of group requests served in this pass
          prune,      \* --prune, the same for every pass
          faults,     \* bound: faults so far
          unseen,     \* history: something went wrong and the pass cannot know
          cause       \* history: why the pass failed

z2m  == <<names, groups, scened, described, tuned, named>>
pass == <<phase, step, snap, todo, did>>
budget == <<prune, faults>>
vars == <<z2m, cache, due, pass, budget, unseen, cause>>

RoomNames == {Rooms[i].name : i \in DOMAIN Rooms}
GroupNames(gs) == {g.name : g \in gs}

-----------------------------------------------------------------------------
(* The requests of each phase *)

\* Requests are issued in the order of the devices or rooms they are about;
\* `at` is the place of that in the configuration.
InOrder(reqs) ==
  {s \in SetToSeqs(reqs) : \A i, j \in DOMAIN s : i < j => s[i].at <= s[j].at}

\* A mutant: a device that still has a temporary name is left alone.
PlanSkippingTmp(ns) ==
  {i \in DOMAIN Devices : /\ Devices[i] \in DOMAIN ns
                          /\ ns[Devices[i]] # Wanted[Devices[i]]
                          /\ Head(ns[Devices[i]]) # "tmp"}

\* reconcile_names: the devices to rename; one that is not paired is skipped ...
Plan(ns) == {i \in DOMAIN Devices : /\ Devices[i] \in DOMAIN ns
                                    /\ ns[Devices[i]] # Wanted[Devices[i]]}

\* ... and the one of them that has to give up its name first
Holder(ns, i) == {h \in Plan(ns) : h # i /\ ns[Devices[h]] = Wanted[Devices[i]]}

RenameDevice(i, d, to) == [kind |-> "rename_device", at |-> i, dev |-> d, to |-> to]

\* A mutant: names are assigned one after the other.
TmpRenamesNone(ns) == {}

TmpRenames(ns) ==
  UNION {{RenameDevice(i, Devices[h], Tmp(Devices[h])) : h \in Holder(ns, i)} : i \in Plan(ns)}

FinalRenames(ns) == {RenameDevice(i, Devices[i], Wanted[Devices[i]]) : i \in Plan(ns)}

\* reconcile_groups: the groups of a room's id that carry another name
Drifted(r) == {g \in snap : g.id = r.id /\ g.name # r.name}

Collision == \E i \in DOMAIN Rooms :
               Drifted(Rooms[i]) # {} /\ Rooms[i].name \in GroupNames(snap)

GroupRenames ==
  UNION {{[kind |-> "rename_group", at |-> i, from |-> g.name, to |-> Rooms[i].name]
            : g \in Drifted(Rooms[i])} : i \in DOMAIN Rooms}

Removals == {[kind |-> "remove_group", name |-> n] : n \in GroupNames(snap) \ RoomNames}

Creations ==
  {[kind |-> "add_group", at |-> i, name |-> Rooms[i].name, id |-> Rooms[i].id]
     : i \in {j \in DOMAIN Rooms : Rooms[j].name \notin GroupNames(snap)}}

\* normalize_member_key: zigbee2mqtt lists addresses, the configuration names;
\* the address of a foreign device stays.
MemberKey(d) == IF d \in Ds THEN Wanted[d] ELSE Address(d)

MemberNames(g) == {MemberKey(d) : d \in g.members}

\* The member requests of the rooms whose group is in the snapshot; a room's
\* missing members are added before its extra ones are removed.
MemberDiff(kind, at, group, ms) == {[kind |-> kind, at |-> at, group |-> group, member |-> m] : m \in ms}

MemberRequests ==
  UNION {UNION {MemberDiff("add_member", 2 * i, g.name, Rooms[i].members \ MemberNames(g))
                  \cup IF prune
                         THEN MemberDiff("remove_member", 2 * i + 1, g.name, MemberNames(g) \ Rooms[i].members)
                         ELSE {}
                : g \in {x \in snap : x.name = Rooms[i].name}}
         : i \in {j \in DOMAIN Rooms : Rooms[j].members # {} \/ prune}}

SceneRequests ==
  {[kind |-> "add_scene", at |-> i, group |-> Rooms[i].name, attempt |-> 1]
     : i \in {j \in DOMAIN Rooms : Rooms[j].scenes /\ Rooms[j].name \in GroupNames(snap)}}

\* zigbee2mqtt finds a device by its friendly name or its address.
Bearers(m) == {d \in DOMAIN names : m \in {names[d], Address(d)}}

\* reconcile_zwave_names, reconcile_descriptions, reconcile_devices: what differs.
\* Nodes and devices that are not there are skipped; but options go by name, and
\* are written blindly when nothing is known by it.
NodeRequests == {[kind |-> "name_node", dev |-> n] : n \in (Nodes \cap Joined) \ named}

DescriptionRequests ==
  {[kind |-> "describe", dev |-> d] : d \in (Optioned \cap DOMAIN names) \ described}

OptionRequests ==
  {[kind |-> "set_option", dev |-> d]
     : d \in {e \in Optioned : Bearers(Wanted[e]) = {} \/ ~(Bearers(Wanted[e]) \subseteq tuned)}}

\* The members of a room and attributes come out of hash maps: in any order.
Plans(p) ==
  CASE p = "zwave"    -> SetToSeqs(NodeRequests)
    [] p = "names"    -> {t \o f : t \in InOrder(TmpRenames(names)), f \in InOrder(FinalRenames(names))}
    [] p = "describe" -> SetToSeqs(DescriptionRequests)
    [] p = "rename"   -> InOrder(GroupRenames)
    [] p = "prune"    -> IF prune THEN SetToSeqs(Removals) ELSE {<<>>}
    [] p = "create"   -> InOrder(Creations)
    [] p = "members"  -> InOrder(MemberRequests)
    [] p = "scenes"   -> InOrder(SceneRequests)
    [] p = "options"  -> SetToSeqs(OptionRequests)

Phases == <<"zwave", "names", "describe", "rename", "prune", "create",
            "members", "scenes", "options", "done">>

After(p) == Phases[1 + CHOOSE i \in DOMAIN Phases : Phases[i] = p]

\* A mutant: the groups are not read again after creating some.
ReadsNoCreate(p) ==
  CASE p = "rename" -> "cached"
    [] p = "prune"  -> IF "rename_group" \in did THEN "fresh" ELSE "no"
    [] p = "create" -> IF prune /\ did # {} THEN "fresh" ELSE "no"
    [] p = "scenes" -> IF did # {} THEN "fresh" ELSE "cached"
    [] OTHER -> "no"

\* Which phases read bridge/groups first, and how (reconcile, reconcile_groups)
Reads(p) ==
  CASE p = "rename"  -> "cached"
    [] p = "prune"   -> IF "rename_group" \in did THEN "fresh" ELSE "no"
    [] p = "create"  -> IF prune /\ did # {} THEN "fresh" ELSE "no"
    [] p = "members" -> IF did # {} THEN "cached" ELSE "no"
    [] p = "scenes"  -> IF did # {} THEN "fresh" ELSE "cached"
    [] OTHER -> "no"

-----------------------------------------------------------------------------
(* zigbee2mqtt, as the pass uses it *)

Named(n) == {g \in groups : g.name = n}

\* Whether the bridge accepts a request
Possible(q) ==
  CASE q.kind = "rename_device" -> \A d \in DOMAIN names \ {q.dev} : names[d] # q.to
    [] q.kind = "rename_group"  -> Named(q.from) # {} /\ Named(q.to) = {}
    [] q.kind = "remove_group"  -> Named(q.name) # {}
    [] q.kind = "add_group"     -> Named(q.name) = {} /\ \A g \in groups : g.id # q.id
    [] q.kind \in {"add_member", "remove_member"} ->
         Named(q.group) # {} /\ Bearers(q.member) # {}
    [] OTHER -> TRUE

GroupsAfter(q) ==
  LET edited(n, f(_)) == (groups \ Named(n)) \cup {f(g) : g \in Named(n)}
  IN CASE q.kind = "rename_group"  -> edited(q.from, LAMBDA g : [g EXCEPT !.name = q.to])
       [] q.kind = "remove_group"  -> groups \ Named(q.name)
       [] q.kind = "add_group"     -> groups \cup {[id |-> q.id, name |-> q.name, members |-> {}]}
       [] q.kind = "add_member"    -> edited(q.group, LAMBDA g : [g EXCEPT !.members = @ \cup Bearers(q.member)])
       [] q.kind = "remove_member" -> edited(q.group, LAMBDA g : [g EXCEPT !.members = @ \ Bearers(q.member)])
       [] OTHER -> groups

\* A request is carried out; a changed group list is published.
CarryOut(q) ==
  /\ names' = IF q.kind = "rename_device" THEN [names EXCEPT ![q.dev] = q.to] ELSE names
  /\ groups' = GroupsAfter(q)
  /\ due' = (due \/ groups' # groups)
  /\ scened' = IF q.kind = "add_scene" THEN scened \cup {q.group} ELSE scened
  /\ described' = IF q.kind = "describe" THEN described \cup {q.dev} ELSE described
  /\ tuned' = IF q.kind = "set_option" THEN tuned \cup Bearers(Wanted[q.dev]) ELSE tuned
  /\ named' = IF q.kind = "name_node" THEN named \cup {q.dev} ELSE named

-----------------------------------------------------------------------------
Init ==
  /\ names \in StartNames
  /\ groups \in StartGroups /\ \A g \in groups : g.members \subseteq DOMAIN names
  /\ scened = {} /\ described = {} /\ tuned = {} /\ named = {}
  /\ cache = {} /\ due = FALSE
  /\ phase = "idle" /\ step = "issue" /\ snap = {} /\ todo = <<>> /\ did = {}
  /\ prune \in BOOLEAN
  /\ faults = 0 /\ unseen = FALSE /\ cause = "none"

Fail(why) == phase' = "failed" /\ todo' = <<>> /\ step' = "issue" /\ cause' = why

Fault == faults < MaxFaults /\ faults' = faults + 1 /\ UNCHANGED prune

\* A new pass: connect subscribes, so the retained message is on its way.
Begin ==
  /\ phase \in {"idle", "failed", "done"}
  /\ phase' = "zwave" /\ step' = "plan" /\ snap' = {} /\ todo' = <<>> /\ did' = {}
  /\ cache' = {} /\ due' = TRUE
  /\ unseen' = FALSE /\ cause' = "none"
  /\ UNCHANGED <<z2m, budget>>

\* The event-loop task of the client stores the payload and wakes the fetch.
Deliver ==
  /\ due
  /\ cache' = {groups} /\ due' = FALSE
  /\ UNCHANGED <<z2m, pass, budget, unseen, cause>>

\* All requests of a phase are through.  Groups that are still missing fail
\* the pass once the other scenes are written.
Proceed ==
  /\ phase \notin {"idle", "failed", "done"} /\ step = "issue" /\ todo = <<>>
  /\ IF phase = "scenes" /\ \E i \in DOMAIN Rooms : Rooms[i].scenes /\ Rooms[i].name \notin GroupNames(snap)
       THEN Fail("missing")
       ELSE /\ phase' = After(phase)
            /\ step' = IF After(phase) = "done" THEN "issue"
                       ELSE IF Reads(After(phase)) = "no" THEN "plan" ELSE "fetch"
            /\ UNCHANGED <<todo, cause>>
  /\ UNCHANGED <<z2m, cache, due, snap, did, budget, unseen>>

\* fetch_retained with something in the cache: returned as it is, and with
\* force_refresh also taken out of it.
FetchHit ==
  /\ step = "fetch" /\ cache # {}
  /\ snap' = UNION cache
  /\ cache' = IF Reads(phase) = "fresh" THEN {} ELSE cache
  /\ unseen' = (unseen \/ due)
  /\ step' = "plan"
  /\ UNCHANGED <<z2m, due, phase, todo, did, budget, cause>>

\* ... and with nothing: subscribing again brings the retained message.
FetchMiss ==
  /\ step = "fetch" /\ cache = {}
  /\ due' = (due \/ Reads(phase) = "fresh")
  /\ step' = "wait"
  /\ UNCHANGED <<z2m, cache, phase, snap, todo, did, budget, unseen, cause>>

FetchWoken ==
  /\ step = "wait" /\ cache # {}
  /\ snap' = UNION cache
  /\ unseen' = (unseen \/ due)
  /\ step' = "plan"
  /\ UNCHANGED <<z2m, cache, due, phase, todo, did, budget, cause>>

\* Nothing is coming; or it comes too late, or between the look at the cache
\* and the registration of the waiter.  The first read of a pass is retried
\* some times (fetch_attempts).
FetchTimeout ==
  /\ step = "wait"
  /\ IF cache = {} /\ ~due THEN UNCHANGED budget ELSE Fault
  /\ \/ phase = "rename" /\ step' = "fetch" /\ UNCHANGED <<phase, todo, cause>>
     \/ Fail(IF cache = {} /\ ~due THEN "fetch" ELSE "fault")
  /\ UNCHANGED <<z2m, cache, due, snap, did, unseen>>

MakePlan ==
  /\ step = "plan"
  /\ IF phase = "rename" /\ Collision THEN Fail("collision")
     ELSE /\ todo' \in Plans(phase)
          /\ step' = "issue"
          /\ UNCHANGED <<phase, cause>>
  /\ UNCHANGED <<z2m, cache, due, snap, did, budget, unseen>>

\* Requests that are answered, and publishes that are not
Answered(q) == q.kind \notin {"add_scene", "set_option"}

GroupKinds == {"rename_group", "remove_group", "add_group", "add_member", "remove_member"}

Served ==
  /\ todo # <<>> /\ Possible(Head(todo))
  /\ CarryOut(Head(todo))
  /\ did' = did \cup ({Head(todo).kind} \cap GroupKinds)
  /\ todo' = Tail(todo)
  /\ UNCHANGED <<cache, phase, step, snap, budget, unseen, cause>>

\* The bridge answers with an error: the pass ends.
Refused ==
  /\ todo # <<>> /\ ~Possible(Head(todo))
  /\ Fail("refused")
  /\ UNCHANGED <<z2m, cache, due, snap, did, budget, unseen>>

\* The answer does not come in time, whether or not the request was carried out.
\* Z-Wave is best effort: its first error ends only its own phase.
TimedOut ==
  /\ todo # <<>> /\ Answered(Head(todo)) /\ Fault
  /\ \/ Possible(Head(todo)) /\ CarryOut(Head(todo))
     \/ UNCHANGED <<z2m, due>>
  /\ IF phase = "zwave"
       THEN todo' = <<>> /\ unseen' = TRUE /\ UNCHANGED <<phase, step, cause>>
       ELSE Fail("fault") /\ UNCHANGED unseen
  /\ UNCHANGED <<cache, snap, did>>

\* The coordinator rejects a scene and says so in the log within the window.
SceneRejected ==
  /\ todo # <<>> /\ Head(todo).kind = "add_scene" /\ Fault
  /\ IF Head(todo).attempt < Attempts
       THEN todo' = [todo EXCEPT ![1].attempt = @ + 1] /\ UNCHANGED <<phase, step, cause>>
       ELSE Fail("fault")
  /\ UNCHANGED <<z2m, cache, due, snap, did, unseen>>

\* A publish has no effect and nobody says so in time.
PublishLost ==
  /\ todo # <<>> /\ ~Answered(Head(todo)) /\ Fault
  /\ todo' = Tail(todo)
  /\ unseen' = TRUE
  /\ UNCHANGED <<z2m, cache, due, phase, step, snap, did, cause>>

\* The process is stopped.
Kill ==
  /\ phase \notin {"idle", "failed", "done"} /\ Fault
  /\ Fail("fault")
  /\ UNCHANGED <<z2m, cache, due, snap, did, unseen>>

Work == \/ Begin \/ Proceed \/ FetchHit \/ FetchMiss \/ FetchWoken \/ FetchTimeout
        \/ MakePlan \/ Served \/ Refused

Next == Work \/ Deliver \/ TimedOut \/ SceneRejected \/ PublishLost \/ Kill

\* The pass runs at every start of the daemon, and the broker delivers.
Spec == Init /\ [][Next]_vars /\ WF_vars(Work) /\ WF_vars(Deliver)

-----------------------------------------------------------------------------
(* Properties *)

\* The paired devices have their names.
NamesFit == \A d \in Ds \cap DOMAIN names : names[d] = Wanted[d]

\* The paired members of a room
MembersOf(r) == {d \in Ds \cap DOMAIN names : Wanted[d] \in r.members}

\* The foreign devices that bear the name of a configured one.  Members are
\* added by name, so a room may get one in place of a device that is missing.
Impostors == {x \in DOMAIN names \ Ds : names[x] \in Range(Wanted)}

\* What the configuration asks of the bridge, of the devices that are paired
Provisioned ==
  /\ NamesFit
  /\ \A i \in DOMAIN Rooms :
       /\ Rooms[i].members \subseteq Range(names)
       /\ \E g \in groups :
            /\ g.name = Rooms[i].name
            /\ MembersOf(Rooms[i]) \subseteq g.members
            /\ prune => g.members \subseteq MembersOf(Rooms[i]) \cup Impostors
            /\ Rooms[i].scenes => g.name \in scened
  /\ prune => GroupNames(groups) = RoomNames
  /\ Optioned \cap DOMAIN names \subseteq described \cap tuned

\* A pass that reports success has done its work on every paired device, and
\* every room member is the name of one, whatever earlier passes left half done,
\* unless something went wrong that it had no way to see: a group list or an
\* error that came after the settle time.  It says nothing of a configured
\* device that is in no room and not paired: the pass skips it and succeeds.
SuccessMeansProvisioned == phase = "done" /\ ~unseen => Provisioned

\* A group has the id of a room and another group the room's name.
Clash == \E i \in DOMAIN Rooms : /\ Rooms[i].name \in GroupNames(groups)
                                 /\ \E g \in groups : g.id = Rooms[i].id /\ g.name # Rooms[i].name

\* A foreign device bears the name of a paired configured one: reconcile_names
\* makes only configured devices give up a name.
ForeignNames == {names[x] : x \in DOMAIN names \ Ds}

Taken == \E d \in Ds \cap DOMAIN names : Wanted[d] \in ForeignNames

\* Nothing bears the name of a room member, which is not paired.
Unpaired == \E i \in DOMAIN Rooms : \E d \in Ds \ DOMAIN names :
              Wanted[d] \in Rooms[i].members \ ForeignNames

\* A pass in which every request is served and every message is in time fails
\* in three cases only: the groups of the bridge clash, which only the user can
\* resolve; the bridge refuses a name that a foreign device has, or a room
\* member that is not paired; or it renamed or removed groups and created none,
\* and then waits for a group list that the "fresh" read before took from the
\* cache.
CleanPassSucceeds ==
  phase = "failed" /\ cause # "fault" /\ ~unseen =>
    \/ cause = "collision" /\ Clash
    \/ cause = "refused" /\ (Taken \/ Unpaired)
    \/ /\ cause = "fetch"
       /\ did \cap {"rename_group", "remove_group"} # {} /\ "add_group" \notin did

\* Whatever names and groups the bridge starts with and wherever passes were cut
\* short, running the pass again and again ends with the configuration of what
\* is paired in place, for good, unless groups clash, a foreign device keeps a
\* name or a room member is not paired.
Converges == Clash \/ Taken \/ Unpaired \/ <>[]Provisioned
=============================================================================
