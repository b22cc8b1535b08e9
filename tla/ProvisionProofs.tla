-------------------------- MODULE ProvisionProofs --------------------------
(***************************************************************************)
(* A provisioning pass that reports success has done its work, for every   *)
(* set of devices, paired or not, foreign ones among them, all names, rooms *)
(* and groups, any number of faults and whatever earlier passes left.      *)
(*                                                                         *)
(* The argument goes along the phases.  While a phase issues its requests, *)
(* what the configuration asks for is there or still among the requests;   *)
(* when they are through, it is there, and the later phases leave it       *)
(* alone.  The plan of a phase is complete because the group list it is    *)
(* made from is the bridge's (Fresh), as long as nothing went unseen.      *)
(*                                                                         *)
(* The second half shows in the same way that a pass without faults        *)
(* succeeds, but for three cases.                                          *)
(***************************************************************************)
EXTENDS Provision, FiniteSetTheorems, TLAPS

Idle == {"idle", "failed", "done"}

\* The requests of a phase are of its kinds.
KindsOf(p) ==
  CASE p = "zwave"    -> {"name_node"}
    [] p = "names"    -> {"rename_device"}
    [] p = "describe" -> {"describe"}
    [] p = "rename"   -> {"rename_group"}
    [] p = "prune"    -> {"remove_group"}
    [] p = "create"   -> {"add_group"}
    [] p = "members"  -> {"add_member", "remove_member"}
    [] p = "scenes"   -> {"add_scene"}
    [] p = "options"  -> {"set_option"}
    [] OTHER          -> {}

Working == {"zwave", "names", "describe", "rename", "prune", "create", "members", "scenes", "options"}

\* A group has its three fields, and finitely many members.
GroupOK(g) ==
  g \in [id : {g.id}, name : {g.name}, members : SUBSET g.members] /\ IsFiniteSet(g.members)

GroupList(gs) == IsFiniteSet(gs) /\ \A g \in gs : GroupOK(g)

Bridge ==
  /\ names \in [DOMAIN names -> Range(names)]
  /\ \E ns \in StartNames : DOMAIN ns = DOMAIN names
  /\ \A gs \in cache \cup {groups, snap} :
       GroupList(gs) /\ \A g \in gs : g.members \subseteq DOMAIN names
  /\ cache = {} \/ cache = {UNION cache}
  /\ prune \in BOOLEAN /\ due \in BOOLEAN /\ unseen \in BOOLEAN

Schedule ==
  /\ phase \in Idle \cup Working
  /\ step \in {"fetch", "wait", "plan", "issue"}
  /\ todo \in Seq(Range(todo))
  /\ step # "issue" \/ phase \in Idle => todo = <<>>
  /\ phase \in Idle => step = "issue"
  /\ \A q \in Range(todo) : q.kind \in KindsOf(phase)

\* What a phase has achieved holds from the next phase on.
FromDescribe == {"describe", "rename", "prune", "create", "members", "scenes", "options", "done"}
FromRename   == FromDescribe \ {"describe"}
FromCreate   == FromRename \ {"rename", "prune"}
FromMembers  == FromCreate \ {"create"}
FromScenes   == FromMembers \ {"members"}
FromOptions  == {"options", "done"}

\* A paired device has its name for good, or a request to come gives it that
\* name and no later one takes it away.
Renaming(s) ==
  \A d \in Ds \cap DOMAIN names :
    \/ names[d] = Wanted[d] /\ \A i \in DOMAIN s : s[i].dev # d
    \/ \E i \in DOMAIN s : /\ s[i].dev = d /\ s[i].to = Wanted[d]
                           /\ \A j \in DOMAIN s : j > i => s[j].dev # d

NamesInv ==
  /\ phase = "names" /\ step = "issue" => Renaming(todo)
  /\ phase \in FromDescribe => NamesFit

\* Attributes of what is paired: written, or about to be
AttributesInv ==
  /\ phase = "describe" /\ step = "issue" =>
       \A d \in (Optioned \cap DOMAIN names) \ described : \E q \in Range(todo) : q.dev = d
  /\ phase \in FromRename => Optioned \cap DOMAIN names \subseteq described
  /\ ~unseen => /\ phase = "options" /\ step = "issue" =>
                     \A d \in (Optioned \cap DOMAIN names) \ tuned : \E q \in Range(todo) : q.dev = d
                /\ phase = "done" => Optioned \cap DOMAIN names \subseteq tuned

\* A cached group list is the bridge's, or a newer one is on its way.
CacheInv == cache = {} \/ due \/ cache = {groups}

\* The group list that a plan is made from is the bridge's.  After a phase it
\* still is, or the next phase reads it again.
Fresh ==
  /\ phase \in {"zwave", "names", "describe"} => did = {}
  /\ phase = "rename" => did \subseteq {"rename_group"} /\ (step # "issue" => did = {})
  /\ phase = "prune" /\ ~prune => todo = <<>>
  /\ ~unseen =>
       /\ phase \in {"rename", "prune", "create", "members"} /\ step = "plan" => snap = groups
       /\ phase \in {"rename", "create", "members"} /\ step = "issue" /\ did = {} => snap = groups
       /\ phase = "prune" /\ step = "issue" /\ (~prune \/ did = {}) => snap = groups

\* Groups that are not configured are gone, or about to be removed.
PruneInv ==
  prune =>
    /\ phase = "prune" /\ step = "issue" =>
         \A g \in groups : g.name \in RoomNames \/ \E q \in Range(todo) : q.name = g.name
    /\ phase \in FromCreate => GroupNames(groups) \subseteq RoomNames

\* Rooms have their groups, or are about to get them.
CreateInv ==
  /\ phase = "create" /\ step = "issue" =>
       \A i \in DOMAIN Rooms : \/ Rooms[i].name \in GroupNames(groups)
                               \/ \E q \in Range(todo) : q.name = Rooms[i].name
  /\ phase \in FromMembers => \A i \in DOMAIN Rooms : Rooms[i].name \in GroupNames(groups)

\* A group has the members of its room, but for those that are about to be
\* added or removed, and every member of a room is the name of some device.
Adds(n)    == {q \in Range(todo) : q.kind = "add_member" /\ q.group = n}
Removes(n) == {q \in Range(todo) : q.kind = "remove_member" /\ q.group = n}

MembersInv ==
  /\ phase = "members" /\ step = "issue" =>
       \A i \in DOMAIN Rooms : \A g \in groups : g.name = Rooms[i].name =>
         /\ \A d \in MembersOf(Rooms[i]) \ g.members :
              \E q \in Adds(g.name) : q.member = Wanted[d]
         /\ \A m \in Rooms[i].members \ Range(names) : \E q \in Adds(g.name) : q.member = m
         /\ prune => \A d \in g.members \ (MembersOf(Rooms[i]) \cup Impostors) :
                       \E q \in Removes(g.name) : q.member = MemberKey(d)
  /\ phase \in FromScenes =>
       \A i \in DOMAIN Rooms : \A g \in groups : g.name = Rooms[i].name =>
         /\ MembersOf(Rooms[i]) \subseteq g.members
         /\ Rooms[i].members \subseteq Range(names)
         /\ prune => g.members \subseteq MembersOf(Rooms[i]) \cup Impostors

SceneRequest(q) ==
  q = [kind |-> "add_scene", at |-> q.at, group |-> q.group, attempt |-> q.attempt]

\* The requests of a room are about the room's own name and members.
RequestsFit ==
  \A q \in Range(todo) :
    /\ q.kind = "add_group" => q.name \in RoomNames
    /\ q.kind \in {"add_member", "remove_member"} =>
         \A i \in DOMAIN Rooms : q.group = Rooms[i].name =>
           (q.member \in Rooms[i].members) = (q.kind = "add_member")
    /\ q.kind = "remove_member" => \E d \in DOMAIN names : q.member = MemberKey(d)
    /\ q.kind = "add_scene" => SceneRequest(q)

ScenesInv ==
  /\ phase = "scenes" /\ step = "issue" =>
       \A i \in DOMAIN Rooms : Rooms[i].scenes /\ Rooms[i].name \in GroupNames(snap) =>
         Rooms[i].name \in scened \/ \E q \in Range(todo) : q.group = Rooms[i].name
  /\ phase \in FromOptions => \A i \in DOMAIN Rooms : Rooms[i].scenes => Rooms[i].name \in scened

Progress == ~unseen => PruneInv /\ CreateInv /\ MembersInv /\ ScenesInv

PassInv == Bridge /\ Schedule /\ NamesInv /\ AttributesInv /\ CacheInv /\ Fresh /\ RequestsFit /\ Progress

-----------------------------------------------------------------------------
(* Finite sets and their listings *)

\* An image of a finite set is finite.
LEMMA FiniteImage ==
  ASSUME NEW S, IsFiniteSet(S), NEW f
  PROVE  IsFiniteSet({f[x] : x \in S})
<1> DEFINE T == {f[x] : x \in S}
           g == [x \in S |-> f[x]]
<1>1. g \in Surjection(S, T)  BY DEF Surjection
<1>2. QED  BY <1>1, FS_Surjection

\* A listing of a finite set has each of its members once.
LEMMA Listing ==
  ASSUME NEW S, IsFiniteSet(S), NEW s \in SetToSeqs(S)
  PROVE  /\ s \in Seq(Range(s)) /\ Range(s) = S
         /\ \A i, j \in DOMAIN s : s[i] = s[j] => i = j
<1> DEFINE n == Cardinality(S)
<1>1. n \in Nat  BY FS_CardinalityType
<1>2. s \in [1..n -> S] /\ \A i, j \in 1..n : i # j => s[i] # s[j]  BY DEF SetToSeqs
<1>3. s \in Injection(1..n, S)  BY <1>2 DEF Injection, IsInjective
<1>4. IsFiniteSet(1..n) /\ Cardinality(1..n) = n  BY <1>1, FS_Interval
<1>5. s \in Surjection(1..n, S)  BY <1>3, <1>4, FS_Injection
<1>6. Range(s) = S  BY <1>2, <1>5 DEF Range, Surjection
<1>7. s \in Seq(S)  BY <1>1, <1>2
<1>8. QED  BY <1>2, <1>6, <1>7

\* A sequence is one of its own elements.
LEMMA OwnElements ==
  ASSUME NEW S, NEW u \in Seq(S)
  PROVE  u \in Seq(Range(u))
<1> DEFINE R == Range(u)
           n == Len(u)
<1>1. n \in Nat /\ DOMAIN u = 1..n /\ u = [i \in 1..n |-> u[i]]  OBVIOUS
<1>2. \A i \in 1..n : u[i] \in R  BY <1>1 DEF Range
<1> HIDE DEF R
<1>3. [i \in 1..n |-> u[i]] \in Seq(R)  BY <1>1, <1>2
<1>4. u \in Seq(R)  BY <1>1, <1>3
<1>5. QED  BY <1>4 DEF R

\* Taking the first request leaves the others.
LEMMA FirstOf ==
  ASSUME NEW s, s \in Seq(Range(s)), s # <<>>
  PROVE  /\ Head(s) \in Range(s) /\ Head(s) = s[1] /\ 1 \in DOMAIN s
         /\ Tail(s) \in Seq(Range(Tail(s)))
         /\ \A i \in DOMAIN Tail(s) : i + 1 \in DOMAIN s /\ Tail(s)[i] = s[i + 1]
         /\ \A i \in DOMAIN s : i # 1 => i - 1 \in DOMAIN Tail(s) /\ Tail(s)[i - 1] = s[i]
         /\ DOMAIN Tail(s) \subseteq Nat /\ DOMAIN s \subseteq Nat
         /\ Range(s) = {Head(s)} \cup Range(Tail(s))
<1> DEFINE R == Range(s)
           n == Len(s)
           t == Tail(s)
<1>1. n \in Nat \ {0} /\ DOMAIN s = 1..n /\ Head(s) = s[1]  OBVIOUS
<1>2. t \in Seq(R) /\ Len(t) = n - 1 /\ \A i \in 1..(n - 1) : t[i] = s[i + 1]  OBVIOUS
<1>3. DOMAIN t = 1..(n - 1)  BY <1>2
<1>4. \A i \in DOMAIN s : i # 1 => i - 1 \in DOMAIN t /\ t[i - 1] = s[i]  BY <1>1, <1>2, <1>3
<1>5. \A i \in DOMAIN t : i + 1 \in DOMAIN s /\ t[i] = s[i + 1]  BY <1>1, <1>2, <1>3
<1>6. Range(s) = {Head(s)} \cup Range(t)
  <2>1. ASSUME NEW q \in Range(s) PROVE q \in {Head(s)} \cup Range(t)
    <3>1. PICK i \in DOMAIN s : s[i] = q  BY <2>1 DEF Range
    <3>2. QED  BY <3>1, <1>1, <1>4 DEF Range
  <2>2. \A q \in {Head(s)} \cup Range(t) : q \in Range(s)  BY <1>1, <1>5 DEF Range
  <2>3. QED  BY <2>1, <2>2
<1>7. t \in Seq(Range(t))  BY <1>2, OwnElements
<1>8. DOMAIN t \subseteq Nat /\ DOMAIN s \subseteq Nat  BY <1>1, <1>3
<1>9. Head(s) \in Range(s) /\ 1 \in DOMAIN s  BY <1>1, <1>6
<1> HIDE DEF t, R, n
<1>10. QED  BY <1>1, <1>4, <1>5, <1>6, <1>7, <1>8, <1>9 DEF t

-----------------------------------------------------------------------------
(* The requests of a phase are finitely many. *)

LEMMA FiniteConfiguration ==
  /\ IsFiniteSet(Ds) /\ IsFiniteSet(DOMAIN Devices) /\ DOMAIN Devices \subseteq Nat
  /\ IsFiniteSet(DOMAIN Rooms) /\ DOMAIN Rooms \subseteq Nat
  /\ IsFiniteSet(Range(Wanted)) /\ IsFiniteSet(Optioned)
<1>1. Len(Devices) \in Nat /\ DOMAIN Devices = 1..Len(Devices)  BY ProvisionAssumption DEF ProvisionAssumption
<1>2. Len(Rooms) \in Nat /\ DOMAIN Rooms = 1..Len(Rooms)  BY ProvisionAssumption DEF ProvisionAssumption
<1>3. IsFiniteSet(DOMAIN Devices) /\ IsFiniteSet(DOMAIN Rooms)  BY <1>1, <1>2, FS_Interval
<1>4. IsFiniteSet(Ds)  BY <1>3, FiniteImage DEF Ds, Range
<1>5. DOMAIN Wanted = Ds  BY ProvisionAssumption DEF ProvisionAssumption
<1>6. IsFiniteSet(Range(Wanted))  BY <1>4, <1>5, FiniteImage DEF Range
<1>7. IsFiniteSet(Optioned)  BY <1>4, FS_Subset, ProvisionAssumption DEF ProvisionAssumption
<1>8. QED  BY <1>1, <1>2, <1>3, <1>4, <1>6, <1>7

LEMMA FiniteGroupNames ==
  ASSUME NEW gs, GroupList(gs)
  PROVE  IsFiniteSet(GroupNames(gs))
<1> DEFINE f == [g \in gs |-> g.name]
<1>1. IsFiniteSet({f[g] : g \in gs})  BY FiniteImage DEF GroupList
<1>2. {f[g] : g \in gs} = GroupNames(gs)  BY DEF GroupNames
<1>3. QED  BY <1>1, <1>2

LEMMA FiniteMemberNames ==
  ASSUME NEW g, GroupOK(g)
  PROVE  IsFiniteSet(MemberNames(g))
<1>1. IsFiniteSet(g.members)  BY DEF GroupOK
<1> DEFINE f == [d \in g.members |-> MemberKey(d)]
<1>2. IsFiniteSet({f[d] : d \in g.members})  BY <1>1, FiniteImage
<1>3. {f[d] : d \in g.members} = MemberNames(g)  BY DEF MemberNames
<1>4. QED  BY <1>2, <1>3

\* Requests that differ in one field only
LEMMA FiniteKind ==
  ASSUME NEW S, IsFiniteSet(S), NEW k, NEW n, NEW a
  PROVE  /\ IsFiniteSet({[kind |-> k, dev |-> x] : x \in S})
         /\ IsFiniteSet({[kind |-> k, name |-> x] : x \in S})
         /\ IsFiniteSet(MemberDiff(k, a, n, S))
<1> DEFINE f == [x \in S |-> [kind |-> k, dev |-> x]]
           g == [x \in S |-> [kind |-> k, name |-> x]]
           h == [x \in S |-> [kind |-> k, at |-> a, group |-> n, member |-> x]]
<1>1. IsFiniteSet({f[x] : x \in S}) /\ {f[x] : x \in S} = {[kind |-> k, dev |-> x] : x \in S}
  BY FiniteImage
<1>2. IsFiniteSet({g[x] : x \in S}) /\ {g[x] : x \in S} = {[kind |-> k, name |-> x] : x \in S}
  BY FiniteImage
<1>3. IsFiniteSet({h[x] : x \in S}) /\ {h[x] : x \in S} = MemberDiff(k, a, n, S)
  BY FiniteImage DEF MemberDiff
<1>4. QED  BY <1>1, <1>2, <1>3

LEMMA FiniteAttributes ==
  /\ IsFiniteSet(NodeRequests) /\ IsFiniteSet(DescriptionRequests) /\ IsFiniteSet(OptionRequests)
<1> DEFINE N == (Nodes \cap Joined) \ named
           D == (Optioned \cap DOMAIN names) \ described
           O == {e \in Optioned : Bearers(Wanted[e]) = {} \/ ~(Bearers(Wanted[e]) \subseteq tuned)}
<1>1. N \subseteq Nodes /\ D \subseteq Optioned /\ O \subseteq Optioned  OBVIOUS
<1>2. IsFiniteSet(Nodes)  BY ProvisionAssumption DEF ProvisionAssumption
<1>3. NodeRequests = {[kind |-> "name_node", dev |-> n] : n \in N}  BY DEF NodeRequests
<1>4. DescriptionRequests = {[kind |-> "describe", dev |-> d] : d \in D}  BY DEF DescriptionRequests
<1>5. OptionRequests = {[kind |-> "set_option", dev |-> d] : d \in O}  BY DEF OptionRequests
<1> HIDE DEF N, D, O
<1>6. IsFiniteSet(N) /\ IsFiniteSet(D) /\ IsFiniteSet(O)
  BY <1>1, <1>2, FiniteConfiguration, FS_Subset
<1>7. QED  BY <1>3, <1>4, <1>5, <1>6, FiniteKind

LEMMA FiniteRenames ==
  ASSUME NEW ns
  PROVE  IsFiniteSet(TmpRenames(ns)) /\ IsFiniteSet(FinalRenames(ns))
<1> DEFINE I == DOMAIN Devices
           R(i) == {RenameDevice(i, Devices[h], Tmp(Devices[h])) : h \in Holder(ns, i)}
           f == [i \in Plan(ns) |-> R(i)]
           e == [i \in Plan(ns) |-> RenameDevice(i, Devices[i], Wanted[Devices[i]])]
<1>1. IsFiniteSet(Plan(ns))  BY FiniteConfiguration, FS_Subset DEF Plan
<1>2. ASSUME NEW i \in Plan(ns) PROVE IsFiniteSet(R(i))
  <2> DEFINE c == [h \in Holder(ns, i) |-> RenameDevice(i, Devices[h], Tmp(Devices[h]))]
  <2>1. IsFiniteSet(Holder(ns, i))  BY <1>1, FS_Subset DEF Holder
  <2>2. IsFiniteSet({c[h] : h \in Holder(ns, i)})  BY <2>1, FiniteImage
  <2>3. {c[h] : h \in Holder(ns, i)} = R(i)  OBVIOUS
  <2>4. QED  BY <2>2, <2>3
<1>3. IsFiniteSet({f[i] : i \in Plan(ns)})  BY <1>1, FiniteImage
<1>4. {f[i] : i \in Plan(ns)} = {R(i) : i \in Plan(ns)}  OBVIOUS
<1>5. IsFiniteSet(UNION {R(i) : i \in Plan(ns)})
  <2> HIDE DEF R
  <2>1. \A T \in {R(i) : i \in Plan(ns)} : IsFiniteSet(T)  BY <1>2
  <2>2. IsFiniteSet({R(i) : i \in Plan(ns)})  BY <1>3, <1>4
  <2>3. QED  BY <2>1, <2>2, FS_UNION
<1>6. IsFiniteSet({e[i] : i \in Plan(ns)})  BY <1>1, FiniteImage
<1>7. {e[i] : i \in Plan(ns)} = FinalRenames(ns)  BY DEF FinalRenames
<1>8. QED  BY <1>5, <1>6, <1>7 DEF TmpRenames

LEMMA FiniteRoomRequests ==
  ASSUME GroupList(snap)
  PROVE  IsFiniteSet(GroupRenames) /\ IsFiniteSet(Removals) /\ IsFiniteSet(Creations) /\ IsFiniteSet(SceneRequests)
<1> DEFINE I == DOMAIN Rooms
           Q(i, n) == [kind |-> "rename_group", at |-> i, from |-> n, to |-> Rooms[i].name]
           R(i) == {[kind |-> "rename_group", at |-> i, from |-> g.name, to |-> Rooms[i].name]
                      : g \in Drifted(Rooms[i])}
           r == [i \in I |-> R(i)]
           J == {j \in I : Rooms[j].name \notin GroupNames(snap)}
           c == [i \in J |-> [kind |-> "add_group", at |-> i, name |-> Rooms[i].name, id |-> Rooms[i].id]]
           K == {j \in I : Rooms[j].scenes /\ Rooms[j].name \in GroupNames(snap)}
           s == [i \in K |-> [kind |-> "add_scene", at |-> i, group |-> Rooms[i].name, attempt |-> 1]]
<1>1. ASSUME NEW i \in I PROVE IsFiniteSet(R(i))
  <2> DEFINE D == Drifted(Rooms[i])
             f == [g \in D |-> Q(i, g.name)]
  <2>1. IsFiniteSet(D)  BY FS_Subset DEF Drifted, GroupList
  <2>2. IsFiniteSet({f[g] : g \in D})  BY <2>1, FiniteImage
  <2>3. {f[g] : g \in D} = R(i)  OBVIOUS
  <2>4. QED  BY <2>2, <2>3
<1>2. IsFiniteSet(UNION {R(i) : i \in I})
  <2>1. IsFiniteSet({r[i] : i \in I})  BY FiniteConfiguration, FiniteImage
  <2>2. {r[i] : i \in I} = {R(i) : i \in I}  OBVIOUS
  <2> HIDE DEF R, r
  <2>3. \A T \in {R(i) : i \in I} : IsFiniteSet(T)  BY <1>1
  <2>4. QED  BY <2>1, <2>2, <2>3, FS_UNION
<1>3. IsFiniteSet(GroupNames(snap) \ RoomNames)  BY FiniteGroupNames, FS_Difference
<1>4. IsFiniteSet(Removals)  BY <1>3, FiniteKind DEF Removals
<1>5. IsFiniteSet(J) /\ IsFiniteSet(K)  BY FiniteConfiguration, FS_Subset
<1>6. IsFiniteSet({c[i] : i \in J}) /\ IsFiniteSet({s[i] : i \in K})
  <2> HIDE DEF J, K, c, s
  <2>1. QED  BY <1>5, FiniteImage
<1>7. {c[i] : i \in J} = Creations  BY DEF Creations
<1>8. {s[i] : i \in K} = SceneRequests  BY DEF SceneRequests
<1>9. QED  BY <1>2, <1>4, <1>6, <1>7, <1>8 DEF GroupRenames

LEMMA FiniteMemberRequests ==
  ASSUME GroupList(snap)
  PROVE  IsFiniteSet(MemberRequests)
<1> DEFINE Adding(i, g) == MemberDiff("add_member", 2 * i, g.name, Rooms[i].members \ MemberNames(g))
           Removing(i, g) == MemberDiff("remove_member", 2 * i + 1, g.name, MemberNames(g) \ Rooms[i].members)
           R(i, g) == Adding(i, g) \cup IF prune THEN Removing(i, g) ELSE {}
           G(i) == {x \in snap : x.name = Rooms[i].name}
           U(i) == UNION {R(i, g) : g \in G(i)}
           J == {j \in DOMAIN Rooms : Rooms[j].members # {} \/ prune}
<1>1. ASSUME NEW i \in J, NEW g \in G(i) PROVE IsFiniteSet(R(i, g))
  <2>1. IsFiniteSet(MemberNames(g))  BY FiniteMemberNames DEF GroupList
  <2>2. IsFiniteSet(Rooms[i].members)
    BY FiniteConfiguration, FS_Subset, ProvisionAssumption DEF ProvisionAssumption
  <2>3. /\ IsFiniteSet(Rooms[i].members \ MemberNames(g))
        /\ IsFiniteSet(MemberNames(g) \ Rooms[i].members)
    BY <2>1, <2>2, FS_Difference
  <2>4. IsFiniteSet(Adding(i, g)) /\ IsFiniteSet(Removing(i, g))  BY <2>3, FiniteKind
  <2>5. IsFiniteSet({})  BY FS_EmptySet
  <2> HIDE DEF Adding, Removing
  <2>6. QED  BY <2>4, <2>5, FS_Union
<1> HIDE DEF R
<1>2. ASSUME NEW i \in J PROVE IsFiniteSet(U(i))
  <2> DEFINE f == [g \in G(i) |-> R(i, g)]
  <2>1. IsFiniteSet(G(i))  BY FS_Subset DEF GroupList
  <2>2. IsFiniteSet({f[g] : g \in G(i)})  BY <2>1, FiniteImage
  <2>3. {f[g] : g \in G(i)} = {R(i, g) : g \in G(i)}  OBVIOUS
  <2>4. \A T \in {R(i, g) : g \in G(i)} : IsFiniteSet(T)  BY <1>1
  <2>5. QED  BY <2>2, <2>3, <2>4, FS_UNION
<1>3. MemberRequests = UNION {U(i) : i \in J}  BY DEF MemberRequests, R
<1> HIDE DEF U
<1>4. IsFiniteSet(UNION {U(i) : i \in J})
  <2> DEFINE f == [i \in J |-> U(i)]
  <2>1. IsFiniteSet(J)  BY FiniteConfiguration, FS_Subset
  <2>2. IsFiniteSet({f[i] : i \in J})  BY <2>1, FiniteImage
  <2>3. {f[i] : i \in J} = {U(i) : i \in J}  OBVIOUS
  <2>4. \A T \in {U(i) : i \in J} : IsFiniteSet(T)  BY <1>2
  <2>5. QED  BY <2>2, <2>3, <2>4, FS_UNION
<1>5. QED  BY <1>3, <1>4

\* What each phase asks for
RequestsOf(p) ==
  CASE p = "zwave"    -> NodeRequests
    [] p = "describe" -> DescriptionRequests
    [] p = "rename"   -> GroupRenames
    [] p = "prune"    -> IF prune THEN Removals ELSE {}
    [] p = "create"   -> Creations
    [] p = "members"  -> MemberRequests
    [] p = "scenes"   -> SceneRequests
    [] p = "options"  -> OptionRequests
    [] OTHER          -> {}

\* A plan has every request of its phase.
LEMMA PlanIsComplete ==
  ASSUME GroupList(snap), NEW p \in Working \ {"names"}, NEW s \in Plans(p)
  PROVE  s \in Seq(Range(s)) /\ Range(s) = RequestsOf(p)
<1>1. \A S : InOrder(S) \subseteq SetToSeqs(S)  BY DEF InOrder
<1>2. p = "prune" /\ ~prune => s = <<>> /\ RequestsOf(p) = {}  BY DEF Plans, RequestsOf
<1>3. ~(p = "prune" /\ ~prune) => s \in SetToSeqs(RequestsOf(p))
  BY <1>1 DEF Plans, RequestsOf, Working
<1>4. IsFiniteSet(RequestsOf(p))
  BY FiniteAttributes, FiniteRoomRequests, FiniteMemberRequests, FS_EmptySet DEF RequestsOf, Working
<1>5. Range(<<>>) = {} /\ <<>> \in Seq({})  BY DEF Range
<1>6. CASE p = "prune" /\ ~prune  BY <1>2, <1>5, <1>6
<1>7. CASE ~(p = "prune" /\ ~prune)  BY <1>3, <1>4, <1>7, Listing
<1>8. QED  BY <1>6, <1>7

-----------------------------------------------------------------------------
(* What the bridge does with a request *)

LEMMA GroupsAfterRequest ==
  ASSUME NEW q
  PROVE  /\ q.kind = "rename_group" =>
              GroupsAfter(q) = (groups \ Named(q.from)) \cup {[g EXCEPT !.name = q.to] : g \in Named(q.from)}
         /\ q.kind = "remove_group" => GroupsAfter(q) = groups \ Named(q.name)
         /\ q.kind = "add_group" =>
              GroupsAfter(q) = groups \cup {[id |-> q.id, name |-> q.name, members |-> {}]}
         /\ q.kind \in {"add_member", "remove_member"} =>
              GroupsAfter(q) = (groups \ Named(q.group)) \cup
                {[g EXCEPT !.members = IF q.kind = "add_member"
                                       THEN @ \cup Bearers(q.member)
                                       ELSE @ \ Bearers(q.member)] : g \in Named(q.group)}
         /\ q.kind \notin GroupKinds => GroupsAfter(q) = groups
<1>1. q.kind = "rename_group" =>
        GroupsAfter(q) = (groups \ Named(q.from)) \cup {[g EXCEPT !.name = q.to] : g \in Named(q.from)}
  BY DEF GroupsAfter
<1>2. q.kind = "remove_group" => GroupsAfter(q) = groups \ Named(q.name)  BY DEF GroupsAfter
<1>3. q.kind = "add_group" =>
        GroupsAfter(q) = groups \cup {[id |-> q.id, name |-> q.name, members |-> {}]}
  BY DEF GroupsAfter
<1>4. q.kind = "add_member" =>
        GroupsAfter(q) = (groups \ Named(q.group)) \cup
          {[g EXCEPT !.members = @ \cup Bearers(q.member)] : g \in Named(q.group)}
  BY DEF GroupsAfter
<1>5. q.kind = "remove_member" =>
        GroupsAfter(q) = (groups \ Named(q.group)) \cup
          {[g EXCEPT !.members = @ \ Bearers(q.member)] : g \in Named(q.group)}
  BY DEF GroupsAfter
<1>6. q.kind \notin GroupKinds => GroupsAfter(q) = groups  BY DEF GroupsAfter, GroupKinds
<1>7. QED  BY <1>1, <1>2, <1>3, <1>4, <1>5, <1>6

\* Members are added and removed by name, and groups are otherwise left alone.
LEMMA EditedGroup ==
  ASSUME NEW g, GroupOK(g), NEW n, NEW ms, IsFiniteSet(ms)
  PROVE  /\ GroupOK([g EXCEPT !.name = n]) /\ GroupOK([g EXCEPT !.members = ms])
         /\ [g EXCEPT !.name = n].name = n
         /\ [g EXCEPT !.members = ms].name = g.name /\ [g EXCEPT !.members = ms].members = ms
BY DEF GroupOK

\* zigbee2mqtt has finitely many devices, and the names and addresses it finds
\* them by are apart.
LEMMA PairedDevices ==
  ASSUME Bridge
  PROVE  /\ IsFiniteSet(DOMAIN names) /\ \A m : IsFiniteSet(Bearers(m))
         /\ \A d \in Ds, e \in Ds \cup DOMAIN names : Wanted[d] = Address(e) => d = e
         /\ \A d, e : Address(d) = Address(e) => d = e
         /\ \A d, e \in Ds : Wanted[d] = Wanted[e] => d = e
<1>1. PICK ns \in StartNames : DOMAIN ns = DOMAIN names  BY DEF Bridge
<1>2. IsFiniteSet(DOMAIN names)  BY <1>1, ProvisionAssumption DEF ProvisionAssumption
<1>3. \A m : Bearers(m) \subseteq DOMAIN names  BY DEF Bearers
<1>4. \A m : IsFiniteSet(Bearers(m))  BY <1>2, <1>3, FS_Subset
<1>5. \A d \in Ds, e \in Ds \cup DOMAIN names : Wanted[d] = Address(e) => d = e
  BY <1>1, AddressesReserved
<1>6. \A d, e : Address(d) = Address(e) => d = e  BY DEF Address
<1>7. \A d, e \in Ds : Wanted[d] = Wanted[e] => d = e
  BY ProvisionAssumption DEF ProvisionAssumption, IsInjective
<1>8. QED  BY <1>2, <1>4, <1>5, <1>6, <1>7

\* Once names fit, a configured name is that of its device, or of an impostor.
LEMMA KeysFit ==
  ASSUME Bridge, NamesFit
  PROVE  /\ \A d \in DOMAIN names : d \in Bearers(MemberKey(d))
         /\ \A d \in Ds, e \in DOMAIN names : Wanted[d] = MemberKey(e) => d = e
         /\ \A d \in Ds : \A y \in Bearers(Wanted[d]) : names[y] = Wanted[d] /\ (y \in Ds => y = d)
<1>1. \A d \in DOMAIN names : d \in Bearers(MemberKey(d))
  BY DEF Bearers, MemberKey, NamesFit
<1>2. \A d \in Ds, e \in DOMAIN names : Wanted[d] = MemberKey(e) => d = e
  BY PairedDevices DEF MemberKey
<1>3. ASSUME NEW d \in Ds, NEW y \in Bearers(Wanted[d])
      PROVE  names[y] = Wanted[d] /\ (y \in Ds => y = d)
  <2>1. y \in DOMAIN names /\ (names[y] = Wanted[d] \/ Wanted[d] = Address(y))  BY DEF Bearers
  <2>2. Wanted[d] = Address(y) => d = y  BY <2>1, PairedDevices
  <2>3. names[y] = Wanted[d]  BY <2>1, <2>2 DEF NamesFit
  <2>4. y \in Ds => Wanted[y] = Wanted[d]  BY <2>1, <2>3 DEF NamesFit
  <2>5. QED  BY <2>3, <2>4, PairedDevices
<1>4. QED  BY <1>1, <1>2, <1>3

\* A carried out request leaves a list of groups.
LEMMA GroupsStayGroups ==
  ASSUME Bridge, NEW q
  PROVE  /\ GroupList(GroupsAfter(q))
         /\ \A g \in GroupsAfter(q) : g.members \subseteq DOMAIN names
<1> DEFINE F == [g \in groups |-> [g EXCEPT !.name = q.to]]
           D == Bearers(q.member)
           M == [g \in groups |-> [g EXCEPT !.members = IF q.kind = "add_member" THEN @ \cup D ELSE @ \ D]]
           new == [id |-> q.id, name |-> q.name, members |-> {}]
           OK(g) == GroupOK(g) /\ g.members \subseteq DOMAIN names
<1>0. GroupList(groups) /\ \A g \in groups : OK(g)  BY DEF Bridge, GroupList
<1>1. \A n : IsFiniteSet(Named(n)) /\ IsFiniteSet(groups \ Named(n))
  BY <1>0, FS_Subset, FS_Difference DEF Named, GroupList
<1>2. \A g \in groups : OK(F[g]) /\ OK(M[g])
  <2>1. SUFFICES ASSUME NEW g \in groups PROVE OK(F[g]) /\ OK(M[g])
    OBVIOUS
  <2>2. GroupOK(g) /\ g.members \subseteq DOMAIN names /\ IsFiniteSet(g.members)  BY <1>0 DEF GroupOK
  <2>3. IsFiniteSet(D) /\ D \subseteq DOMAIN names  BY PairedDevices DEF Bearers
  <2> HIDE DEF D
  <2>4. IsFiniteSet(g.members \cup D) /\ IsFiniteSet(g.members \ D)
    BY <2>2, <2>3, FS_Union, FS_Difference
  <2>5. OK(F[g])
    <3>1. GroupOK(F[g])  BY <2>2, EditedGroup
    <3>2. F[g].members = g.members  BY <2>2 DEF GroupOK
    <3>3. QED  BY <2>2, <3>1, <3>2
  <2>6. ASSUME NEW ms, IsFiniteSet(ms), ms \subseteq DOMAIN names PROVE OK([g EXCEPT !.members = ms])
    <3>1. /\ GroupOK([g EXCEPT !.members = ms])
          /\ [g EXCEPT !.members = ms].members = ms
      BY <2>2, <2>6, EditedGroup
    <3>2. QED  BY <2>6, <3>1
  <2>7. OK(M[g])
    <3> DEFINE ms == IF q.kind = "add_member" THEN g.members \cup D ELSE g.members \ D
    <3>1. M[g] = [g EXCEPT !.members = ms]  OBVIOUS
    <3>2. IsFiniteSet(ms) /\ ms \subseteq DOMAIN names  BY <2>2, <2>3, <2>4
    <3> HIDE DEF M, ms, OK
    <3>3. QED  BY <3>1, <3>2, <2>6
  <2>8. QED  BY <2>5, <2>7
<1>3. CASE q.kind = "rename_group"
  <2>1. GroupsAfter(q) = (groups \ Named(q.from)) \cup {F[g] : g \in Named(q.from)}
    BY <1>3, GroupsAfterRequest DEF Named
  <2> HIDE DEF F
  <2>2. IsFiniteSet({F[g] : g \in Named(q.from)})  BY <1>1, FiniteImage
  <2>3. IsFiniteSet(GroupsAfter(q))  BY <2>1, <2>2, <1>1, FS_Union
  <2>4. \A g \in GroupsAfter(q) : OK(g)  BY <2>1, <1>0, <1>2 DEF Named
  <2>5. QED  BY <2>3, <2>4 DEF GroupList
<1>4. CASE q.kind = "remove_group"  BY <1>4, <1>0, <1>1, GroupsAfterRequest DEF GroupList
<1>5. CASE q.kind = "add_group"
  <2>1. GroupsAfter(q) = groups \cup {new}  BY <1>5, GroupsAfterRequest
  <2>2. OK(new)  BY FS_EmptySet DEF GroupOK
  <2> HIDE DEF new
  <2>3. IsFiniteSet(groups \cup {new})  BY <1>0, FS_AddElement DEF GroupList
  <2>4. QED  BY <1>0, <2>1, <2>2, <2>3 DEF GroupList
<1>6. CASE q.kind \in {"add_member", "remove_member"}
  <2>1. GroupsAfter(q) = (groups \ Named(q.group)) \cup {M[g] : g \in Named(q.group)}
    BY <1>6, GroupsAfterRequest DEF Named
  <2> HIDE DEF M
  <2>2. IsFiniteSet({M[g] : g \in Named(q.group)})  BY <1>1, FiniteImage
  <2>3. IsFiniteSet(GroupsAfter(q))  BY <2>1, <2>2, <1>1, FS_Union
  <2>4. \A g \in GroupsAfter(q) : OK(g)  BY <2>1, <1>0, <1>2 DEF Named
  <2>5. QED  BY <2>3, <2>4 DEF GroupList
<1>7. CASE q.kind \notin GroupKinds  BY <1>0, <1>7, GroupsAfterRequest
<1>8. QED  BY <1>3, <1>4, <1>5, <1>6, <1>7 DEF GroupKinds

\* Requests neither pair nor remove a device.
LEMMA SameDevices ==
  ASSUME Bridge, NEW q, CarryOut(q)
  PROVE  DOMAIN names' = DOMAIN names
BY DEF CarryOut, Bridge

\* A request that is carried out leaves names, groups and attributes well formed.
LEMMA CarryOutKeepsBridge ==
  ASSUME Bridge, NEW q \in Range(todo), CarryOut(q), UNCHANGED <<cache, snap, prune>>,
         unseen' \in BOOLEAN
  PROVE  Bridge'
<1>1. names' \in [DOMAIN names -> Range(names')] /\ DOMAIN names' = DOMAIN names
  <2>1. CASE q.kind = "rename_device"
    <3>1. names' = [names EXCEPT ![q.dev] = q.to]  BY <2>1 DEF CarryOut
    <3>2. names' = [d \in DOMAIN names |-> IF d = q.dev THEN q.to ELSE names[d]]  BY <3>1 DEF Bridge
    <3>3. \A d \in DOMAIN names : names'[d] \in Range(names')  BY <3>2 DEF Range
    <3>4. QED  BY <3>2, <3>3
  <2>2. CASE q.kind # "rename_device"
    <3>1. names' = names  BY <2>2 DEF CarryOut
    <3>2. QED  BY <3>1 DEF Bridge
  <2>3. QED  BY <2>1, <2>2
<1>2. GroupList(groups') /\ \A g \in groups' : g.members \subseteq DOMAIN names
  BY GroupsStayGroups DEF CarryOut
<1>3. \A gs \in cache' \cup {groups', snap'} :
        GroupList(gs) /\ \A g \in gs : g.members \subseteq DOMAIN names'
  BY <1>1, <1>2 DEF Bridge
<1>4. \E ns \in StartNames : DOMAIN ns = DOMAIN names'  BY <1>1 DEF Bridge
<1>5. cache' = {} \/ cache' = {UNION cache'}  BY DEF Bridge
<1>6. due' \in BOOLEAN /\ prune' \in BOOLEAN  BY DEF CarryOut, Bridge
<1>7. QED  BY <1>1, <1>3, <1>4, <1>5, <1>6 DEF Bridge

\* A changed group list is on its way.
LEMMA CarryOutKeepsCache ==
  ASSUME CacheInv, NEW q, CarryOut(q), UNCHANGED cache
  PROVE  CacheInv'
BY DEF CacheInv, CarryOut

-----------------------------------------------------------------------------
(* Steps that end the pass, and steps that leave requests and bridge alone *)

LEMMA EmptyTodo ==
  ASSUME NEW s, s = <<>>
  PROVE  Range(s) = {} /\ DOMAIN s = {} /\ s \in Seq(Range(s))
<1>1. Range(<<>>) = {}  BY DEF Range
<1>2. DOMAIN <<>> = {} /\ <<>> \in Seq({})  OBVIOUS
<1>3. QED  BY <1>1, <1>2

LEMMA FailedPass ==
  ASSUME NEW why, Fail(why), Bridge', CacheInv'
  PROVE  PassInv'
<1>1. phase' = "failed" /\ step' = "issue" /\ todo' = <<>>  BY DEF Fail
<1>2. Range(todo') = {} /\ todo' \in Seq(Range(todo'))  BY <1>1, EmptyTodo
<1>3. Schedule'  BY <1>1, <1>2 DEF Schedule, Idle
<1>4. phase' \notin FromDescribe  BY <1>1 DEF FromDescribe
<1>5. phase' \notin FromScenes /\ phase' \notin FromMembers /\ phase' \notin FromCreate /\ phase' \notin FromRename
  BY <1>1 DEF FromScenes, FromMembers, FromCreate, FromRename, FromDescribe
<1>6. phase' \notin FromOptions  BY <1>1 DEF FromOptions
<1>7. NamesInv'  BY <1>1, <1>4 DEF NamesInv
<1>8. AttributesInv'  BY <1>1, <1>2, <1>5 DEF AttributesInv
<1>9. Fresh'  BY <1>1 DEF Fresh
<1>10. RequestsFit'  BY <1>2 DEF RequestsFit
<1>11. PruneInv' /\ CreateInv' /\ MembersInv' /\ ScenesInv'
  BY <1>1, <1>5, <1>6 DEF PruneInv, CreateInv, MembersInv, ScenesInv
<1>12. QED  BY <1>3, <1>7, <1>8, <1>9, <1>10, <1>11 DEF PassInv, Progress

\* The part of the bridge, the pass and its requests that progress is about
Done == <<names, groups, scened, described, tuned, phase, todo, prune>>

LEMMA QuietStep ==
  ASSUME NamesInv, AttributesInv, RequestsFit, Progress, UNCHANGED Done, unseen => unseen',
         step' # "issue" \/ UNCHANGED <<step, snap>>
  PROVE  NamesInv' /\ AttributesInv' /\ RequestsFit' /\ Progress'
<1> USE DEF Done
<1>1. NamesInv'  BY DEF NamesInv, Renaming, NamesFit
<1>2. AttributesInv'  BY DEF AttributesInv
<1>3. RequestsFit'  BY DEF RequestsFit, RoomNames
<1>4. ASSUME ~unseen' PROVE PruneInv' /\ CreateInv' /\ MembersInv' /\ ScenesInv'
  <2>1. PruneInv /\ CreateInv /\ MembersInv /\ ScenesInv  BY <1>4 DEF Progress
  <2>2. PruneInv'  BY <2>1 DEF PruneInv, GroupNames, RoomNames
  <2>3. CreateInv'  BY <2>1 DEF CreateInv, GroupNames
  <2>4. MembersInv'  BY <2>1 DEF MembersInv, MembersOf, Impostors, Adds, Removes
  <2>5. ScenesInv'  BY <2>1 DEF ScenesInv, GroupNames
  <2>6. QED  BY <2>2, <2>3, <2>4, <2>5
<1>5. QED  BY <1>1, <1>2, <1>3, <1>4 DEF Progress

LEMMA FetchedList ==
  ASSUME Bridge, CacheInv, cache # {}
  PROVE  /\ GroupList(UNION cache) /\ \A g \in UNION cache : g.members \subseteq DOMAIN names
         /\ ~due => UNION cache = groups
BY DEF Bridge, CacheInv

LEMMA FetchHitStep == PassInv /\ FetchHit => PassInv'
<1> SUFFICES ASSUME PassInv, FetchHit PROVE PassInv'
  OBVIOUS
<1> USE DEF z2m, budget, pass
<1>1. /\ GroupList(UNION cache) /\ \A g \in UNION cache : g.members \subseteq DOMAIN names
      /\ ~due => UNION cache = groups
  BY FetchedList DEF PassInv, FetchHit
<1>2. Bridge'
  <2>1. \A gs \in cache' \cup {groups', snap'} :
          GroupList(gs) /\ \A g \in gs : g.members \subseteq DOMAIN names
    BY <1>1 DEF PassInv, Bridge, FetchHit
  <2>2. QED  BY <2>1 DEF PassInv, Bridge, FetchHit
<1>3. Schedule'  BY DEF PassInv, Schedule, FetchHit, Idle
<1>4. NamesInv' /\ AttributesInv' /\ RequestsFit' /\ Progress'
  BY QuietStep DEF PassInv, FetchHit, Done
<1>5. CacheInv'  BY DEF PassInv, CacheInv, FetchHit
<1>6. Fresh'  BY <1>1 DEF PassInv, Fresh, FetchHit, Schedule
<1>7. QED  BY <1>2, <1>3, <1>4, <1>5, <1>6 DEF PassInv

LEMMA FetchWokenStep == PassInv /\ FetchWoken => PassInv'
<1> SUFFICES ASSUME PassInv, FetchWoken PROVE PassInv'
  OBVIOUS
<1> USE DEF z2m, budget, pass
<1>1. /\ GroupList(UNION cache) /\ \A g \in UNION cache : g.members \subseteq DOMAIN names
      /\ ~due => UNION cache = groups
  BY FetchedList DEF PassInv, FetchWoken
<1>2. Bridge'
  <2>1. \A gs \in cache' \cup {groups', snap'} :
          GroupList(gs) /\ \A g \in gs : g.members \subseteq DOMAIN names
    BY <1>1 DEF PassInv, Bridge, FetchWoken
  <2>2. QED  BY <2>1 DEF PassInv, Bridge, FetchWoken
<1>3. Schedule'  BY DEF PassInv, Schedule, FetchWoken, Idle
<1>4. NamesInv' /\ AttributesInv' /\ RequestsFit' /\ Progress'
  BY QuietStep DEF PassInv, FetchWoken, Done
<1>5. CacheInv'  BY DEF PassInv, CacheInv, FetchWoken
<1>6. Fresh'  BY <1>1 DEF PassInv, Fresh, FetchWoken, Schedule
<1>7. QED  BY <1>2, <1>3, <1>4, <1>5, <1>6 DEF PassInv

LEMMA FetchMissStep == PassInv /\ FetchMiss => PassInv'
<1> SUFFICES ASSUME PassInv, FetchMiss PROVE PassInv'
  OBVIOUS
<1> USE DEF z2m, budget, pass
<1>1. Bridge'  BY DEF PassInv, Bridge, FetchMiss
<1>2. Schedule'  BY DEF PassInv, Schedule, FetchMiss, Idle
<1>3. NamesInv' /\ AttributesInv' /\ RequestsFit' /\ Progress'
  BY QuietStep DEF PassInv, FetchMiss, Done
<1>4. CacheInv'  BY DEF PassInv, CacheInv, FetchMiss
<1>5. Fresh'  BY DEF PassInv, Fresh, FetchMiss, Schedule
<1>6. QED  BY <1>1, <1>2, <1>3, <1>4, <1>5 DEF PassInv

LEMMA DeliverStep == PassInv /\ Deliver => PassInv'
<1> SUFFICES ASSUME PassInv, Deliver PROVE PassInv'
  OBVIOUS
<1> USE DEF z2m, budget, pass
<1>1. Bridge'
  <2>1. UNION {groups} = groups  OBVIOUS
  <2>2. cache' = {groups} /\ UNION cache' = groups  BY <2>1 DEF Deliver
  <2>3. QED  BY <2>2 DEF PassInv, Bridge, Deliver
<1>2. Schedule'  BY DEF PassInv, Schedule, Deliver, Idle
<1>3. NamesInv' /\ AttributesInv' /\ RequestsFit' /\ Progress'
  BY QuietStep DEF PassInv, Deliver, Done
<1>4. CacheInv'  BY DEF PassInv, CacheInv, Deliver
<1>5. Fresh'  BY DEF PassInv, Fresh, Deliver
<1>6. QED  BY <1>1, <1>2, <1>3, <1>4, <1>5 DEF PassInv

LEMMA FetchTimeoutStep == PassInv /\ FetchTimeout => PassInv'
<1> SUFFICES ASSUME PassInv, FetchTimeout PROVE PassInv'
  OBVIOUS
<1> USE DEF z2m, budget, pass, Fault
<1>1. Bridge'  BY DEF PassInv, Bridge, FetchTimeout
<1>2. CacheInv'  BY DEF PassInv, CacheInv, FetchTimeout
<1>3. CASE phase = "rename" /\ step' = "fetch" /\ UNCHANGED <<phase, todo, cause>>
  <2>1. step' = "fetch" /\ UNCHANGED <<phase, todo, cause, prune>>  BY <1>3 DEF FetchTimeout
  <2>2. Schedule'  BY <2>1 DEF PassInv, Schedule, FetchTimeout, Idle
  <2>3. NamesInv' /\ AttributesInv' /\ RequestsFit' /\ Progress'
    BY <2>1, QuietStep DEF PassInv, FetchTimeout, Done
  <2>4. Fresh'  BY <2>1, <1>3 DEF PassInv, Fresh, FetchTimeout
  <2>5. QED  BY <1>1, <1>2, <2>2, <2>3, <2>4 DEF PassInv
<1>4. CASE \E why : Fail(why)  BY <1>4, <1>1, <1>2, FailedPass
<1>5. QED  BY <1>3, <1>4 DEF FetchTimeout

LEMMA KillStep == PassInv /\ (Kill \/ Refused) => PassInv'
<1> SUFFICES ASSUME PassInv, Kill \/ Refused PROVE PassInv'
  OBVIOUS
<1> USE DEF z2m, budget, pass, Fault
<1>1. Bridge' /\ CacheInv'  BY DEF PassInv, Bridge, CacheInv, Kill, Refused
<1>2. \E why : Fail(why)  BY DEF Kill, Refused
<1>3. QED  BY <1>1, <1>2, FailedPass

LEMMA BeginStep == PassInv /\ Begin => PassInv'
<1> SUFFICES ASSUME PassInv, Begin PROVE PassInv'
  OBVIOUS
<1> USE DEF z2m, budget
<1>1. phase' = "zwave" /\ step' = "plan" /\ todo' = <<>> /\ did' = {}  BY DEF Begin
<1>2. Range(todo') = {} /\ todo' \in Seq(Range(todo'))  BY <1>1, EmptyTodo
<1>3. Bridge'
  <2>1. GroupList({})  BY FS_EmptySet DEF GroupList
  <2>2. QED  BY <2>1 DEF PassInv, Bridge, Begin
<1>4. Schedule'  BY <1>1, <1>2 DEF Schedule, Idle, Working
<1>5. phase' \notin FromDescribe /\ phase' \notin FromOptions  BY <1>1 DEF FromDescribe, FromOptions
<1>6. phase' \notin FromScenes /\ phase' \notin FromMembers /\ phase' \notin FromCreate /\ phase' \notin FromRename
  BY <1>5 DEF FromScenes, FromMembers, FromCreate, FromRename
<1>7. NamesInv' /\ AttributesInv'  BY <1>1, <1>2, <1>5, <1>6 DEF NamesInv, AttributesInv
<1>8. CacheInv' /\ Fresh'  BY <1>1 DEF CacheInv, Fresh, Begin
<1>9. RequestsFit'  BY <1>2 DEF RequestsFit
<1>10. PruneInv' /\ CreateInv' /\ MembersInv' /\ ScenesInv'
  BY <1>1, <1>5, <1>6 DEF PruneInv, CreateInv, MembersInv, ScenesInv
<1>11. QED  BY <1>3, <1>4, <1>7, <1>8, <1>9, <1>10 DEF PassInv, Progress

-----------------------------------------------------------------------------
(* Plans *)

\* Names are swapped through temporary ones, each device ending with its own.
LEMMA NamePlan ==
  ASSUME NEW s \in Plans("names")
  PROVE  /\ s \in Seq(Range(s)) /\ \A q \in Range(s) : q.kind = "rename_device"
         /\ Renaming(s)
<1>1. PICK t \in InOrder(TmpRenames(names)), f \in InOrder(FinalRenames(names)) : s = t \o f
  BY DEF Plans
<1>2. t \in Seq(Range(t)) /\ Range(t) = TmpRenames(names)  BY FiniteRenames, Listing DEF InOrder
<1>3. /\ f \in Seq(Range(f)) /\ Range(f) = FinalRenames(names)
      /\ \A i, j \in DOMAIN f : f[i] = f[j] => i = j
  BY FiniteRenames, Listing DEF InOrder
<1> DEFINE R == TmpRenames(names)
           F == FinalRenames(names)
           m == Len(t)
           n == Len(f)
<1>4. ASSUME NEW q \in R \cup F
      PROVE  q.kind = "rename_device" /\ \E h \in DOMAIN Devices : /\ Devices[h] \in DOMAIN names
                                                                 /\ names[Devices[h]] # Wanted[Devices[h]]
                                                                 /\ q.dev = Devices[h]
  BY DEF TmpRenames, FinalRenames, RenameDevice, Holder, Plan
<1>5. ASSUME NEW q \in F PROVE \E i \in DOMAIN Devices : q = RenameDevice(i, Devices[i], Wanted[Devices[i]])
  BY DEF FinalRenames, Plan
<1>6. ASSUME NEW d \in Ds \cap DOMAIN names, names[d] # Wanted[d]
      PROVE  \E i \in DOMAIN Devices : Devices[i] = d /\ RenameDevice(i, d, Wanted[d]) \in F
  BY <1>6 DEF FinalRenames, Plan, Ds, Range
<1> HIDE DEF R, F
<1>7. t \in Seq(R) /\ f \in Seq(F)  BY <1>2, <1>3 DEF R, F
<1>8. /\ m \in Nat /\ n \in Nat /\ DOMAIN t = 1..m /\ DOMAIN f = 1..n /\ DOMAIN s = 1..(m + n)
      /\ \A i \in 1..(m + n) : s[i] = IF i <= m THEN t[i] ELSE f[i - m]
  BY <1>1, <1>7
<1>9. s \in Seq(R \cup F)  BY <1>1, <1>7
<1> HIDE DEF m, n
<1>10. \A i \in DOMAIN s : s[i] \in R \cup F  BY <1>9
<1>11. \A j \in DOMAIN s : j > m => j - m \in DOMAIN f /\ s[j] = f[j - m] /\ f[j - m] \in F
  BY <1>7, <1>8
<1>12. ASSUME NEW d \in Ds \cap DOMAIN names, names[d] = Wanted[d], NEW i \in DOMAIN s PROVE s[i].dev # d
  BY <1>12, <1>10, <1>4
<1>13. ASSUME NEW d \in Ds \cap DOMAIN names, names[d] # Wanted[d]
       PROVE \E i \in DOMAIN s : /\ s[i].dev = d /\ s[i].to = Wanted[d]
                                 /\ \A j \in DOMAIN s : j > i => s[j].dev # d
  <2>1. PICK i \in DOMAIN Devices : Devices[i] = d /\ RenameDevice(i, d, Wanted[d]) \in F
    BY <1>13, <1>6
  <2> DEFINE q == RenameDevice(i, d, Wanted[d])
  <2>2. q.dev = d /\ q.to = Wanted[d]  BY DEF RenameDevice
  <2>3. PICK k \in DOMAIN f : f[k] = q  BY <2>1, <1>3 DEF Range, F
  <2>4. m + k \in DOMAIN s /\ s[m + k] = q  BY <2>3, <1>8
  <2>5. ASSUME NEW j \in DOMAIN s, j > m + k, s[j].dev = d PROVE FALSE
    <3>1. j > m  BY <2>5, <2>3, <1>8
    <3>2. j - m \in DOMAIN f /\ s[j] = f[j - m] /\ f[j - m] \in F  BY <3>1, <1>11
    <3>3. PICK h \in DOMAIN Devices : f[j - m] = RenameDevice(h, Devices[h], Wanted[Devices[h]])
      BY <3>2, <1>5
    <3>4. Devices[h] = d  BY <2>5, <3>2, <3>3 DEF RenameDevice
    <3>5. h = i  BY <3>4, <2>1, ProvisionAssumption DEF ProvisionAssumption, IsInjective
    <3>6. f[j - m] = f[k]  BY <3>3, <3>4, <3>5, <2>3
    <3>7. j - m = k  BY <3>6, <3>2, <1>3
    <3>8. QED  BY <3>7, <2>5, <2>3, <1>8
  <2>6. QED  BY <2>2, <2>4, <2>5
<1>14. Renaming(s)  BY <1>12, <1>13 DEF Renaming
<1>15. s \in Seq(Range(s))  BY <1>9, OwnElements
<1>16. \A q \in Range(s) : q.kind = "rename_device"  BY <1>10, <1>4 DEF Range
<1>17. QED  BY <1>14, <1>15, <1>16

LEMMA RequestKinds ==
  ASSUME NEW p \in Working \ {"names"}, NEW q \in RequestsOf(p)
  PROVE  q.kind \in KindsOf(p)
<1>1. p = "zwave" => q.kind = "name_node"  BY DEF RequestsOf, NodeRequests
<1>2. p = "describe" => q.kind = "describe"  BY DEF RequestsOf, DescriptionRequests
<1>3. p = "rename" => q.kind = "rename_group"  BY DEF RequestsOf, GroupRenames
<1>4. p = "prune" => q.kind = "remove_group"  BY DEF RequestsOf, Removals
<1>5. p = "create" => q.kind = "add_group"  BY DEF RequestsOf, Creations
<1>6. p = "members" => q.kind \in {"add_member", "remove_member"}
  BY DEF RequestsOf, MemberRequests, MemberDiff
<1>7. p = "scenes" => q.kind = "add_scene"  BY DEF RequestsOf, SceneRequests
<1>8. p = "options" => q.kind = "set_option"  BY DEF RequestsOf, OptionRequests
<1>9. QED  BY <1>1, <1>2, <1>3, <1>4, <1>5, <1>6, <1>7, <1>8 DEF KindsOf, Working

\* A member request comes from a room and its group.
LEMMA MemberRequestFrom ==
  ASSUME NEW q \in MemberRequests
  PROVE  \E j \in DOMAIN Rooms, g \in snap :
           /\ g.name = Rooms[j].name
           /\ \/ q \in MemberDiff("add_member", 2 * j, g.name, Rooms[j].members \ MemberNames(g))
              \/ q \in MemberDiff("remove_member", 2 * j + 1, g.name, MemberNames(g) \ Rooms[j].members)
<1> DEFINE A(j, h) == MemberDiff("add_member", 2 * j, h.name, Rooms[j].members \ MemberNames(h))
           D(j, h) == MemberDiff("remove_member", 2 * j + 1, h.name, MemberNames(h) \ Rooms[j].members)
           U(j) == UNION {A(j, h) \cup IF prune THEN D(j, h) ELSE {} : h \in {y \in snap : y.name = Rooms[j].name}}
<1>1. MemberRequests = UNION {U(j) : j \in {k \in DOMAIN Rooms : Rooms[k].members # {} \/ prune}}
  BY DEF MemberRequests
<1>2. ASSUME NEW j, q \in U(j)
      PROVE  \E h \in snap : h.name = Rooms[j].name /\ (q \in A(j, h) \/ q \in D(j, h))
  <2> HIDE DEF A, D
  <2>1. PICK h \in snap : h.name = Rooms[j].name /\ q \in A(j, h) \cup IF prune THEN D(j, h) ELSE {}
    BY <1>2
  <2>2. QED  BY <2>1
<1> HIDE DEF U
<1>3. PICK j \in DOMAIN Rooms : q \in U(j)  BY <1>1
<1>4. QED  BY <1>2, <1>3

\* A member request is about the name of a room and what differs there.
LEMMA MemberRequestsFit ==
  ASSUME NEW q \in MemberRequests
  PROVE  /\ \A i \in DOMAIN Rooms : q.group = Rooms[i].name =>
              (q.member \in Rooms[i].members) = (q.kind = "add_member")
         /\ Bridge /\ q.kind = "remove_member" => \E d \in DOMAIN names : q.member = MemberKey(d)
<1>1. PICK j \in DOMAIN Rooms, g \in snap :
        /\ g.name = Rooms[j].name
        /\ \/ q \in MemberDiff("add_member", 2 * j, g.name, Rooms[j].members \ MemberNames(g))
           \/ q \in MemberDiff("remove_member", 2 * j + 1, g.name, MemberNames(g) \ Rooms[j].members)
  BY MemberRequestFrom
<1>2. /\ q.group = g.name
      /\ \/ q.kind = "add_member" /\ q.member \in Rooms[j].members
         \/ /\ q.kind = "remove_member" /\ q.member \notin Rooms[j].members
            /\ q.member \in MemberNames(g)
  BY <1>1 DEF MemberDiff
<1>3. ASSUME NEW i \in DOMAIN Rooms, q.group = Rooms[i].name PROVE i = j
  BY <1>1, <1>2, <1>3, ProvisionAssumption DEF ProvisionAssumption
<1>4. Bridge => g.members \subseteq DOMAIN names  BY DEF Bridge
<1>5. Bridge /\ q.member \in MemberNames(g) => \E d \in DOMAIN names : q.member = MemberKey(d)
  BY <1>4 DEF MemberNames
<1>6. QED  BY <1>2, <1>3, <1>5

LEMMA InMemberRequests ==
  ASSUME NEW i \in DOMAIN Rooms, Rooms[i].members # {} \/ prune,
         NEW g \in snap, g.name = Rooms[i].name, NEW x,
         \/ x \in MemberDiff("add_member", 2 * i, g.name, Rooms[i].members \ MemberNames(g))
         \/ prune /\ x \in MemberDiff("remove_member", 2 * i + 1, g.name, MemberNames(g) \ Rooms[i].members)
  PROVE  x \in MemberRequests
<1> DEFINE R(j, h) == MemberDiff("add_member", 2 * j, h.name, Rooms[j].members \ MemberNames(h))
                        \cup IF prune THEN MemberDiff("remove_member", 2 * j + 1, h.name, MemberNames(h) \ Rooms[j].members)
                                      ELSE {}
           U(j) == UNION {R(j, h) : h \in {y \in snap : y.name = Rooms[j].name}}
<1>1. x \in R(i, g)  OBVIOUS
<1>2. MemberRequests = UNION {U(j) : j \in {k \in DOMAIN Rooms : Rooms[k].members # {} \/ prune}}
  BY DEF MemberRequests
<1> HIDE DEF R
<1>3. x \in U(i)  BY <1>1
<1> HIDE DEF U
<1>4. QED  BY <1>2, <1>3

\* What differs between a room and its group is requested.
LEMMA MemberRequestsSuffice ==
  ASSUME NEW i \in DOMAIN Rooms, NEW g \in snap, g.name = Rooms[i].name
  PROVE  /\ \A m \in Rooms[i].members \ MemberNames(g) :
              \E q \in MemberRequests : q.kind = "add_member" /\ q.group = g.name /\ q.member = m
         /\ prune => \A m \in MemberNames(g) \ Rooms[i].members :
              \E q \in MemberRequests : q.kind = "remove_member" /\ q.group = g.name /\ q.member = m
<1> DEFINE A(m) == [kind |-> "add_member", at |-> 2 * i, group |-> g.name, member |-> m]
           R(m) == [kind |-> "remove_member", at |-> 2 * i + 1, group |-> g.name, member |-> m]
<1>1. ASSUME NEW m \in Rooms[i].members \ MemberNames(g) PROVE A(m) \in MemberRequests
  <2>1. A(m) \in MemberDiff("add_member", 2 * i, g.name, Rooms[i].members \ MemberNames(g))  BY DEF MemberDiff
  <2>2. Rooms[i].members # {}  OBVIOUS
  <2> HIDE DEF A
  <2>3. QED  BY <2>1, <2>2, InMemberRequests
<1>2. ASSUME prune, NEW m \in MemberNames(g) \ Rooms[i].members PROVE R(m) \in MemberRequests
  <2>1. R(m) \in MemberDiff("remove_member", 2 * i + 1, g.name, MemberNames(g) \ Rooms[i].members)  BY DEF MemberDiff
  <2> HIDE DEF R
  <2>2. QED  BY <2>1, <1>2, InMemberRequests
<1>3. QED  BY <1>1, <1>2

\* ... so a group gets the paired members of its room and, with --prune, loses
\* the others, but for impostors.
LEMMA MembersRequested ==
  ASSUME Bridge, NamesFit, NEW i \in DOMAIN Rooms, NEW g \in snap, g.name = Rooms[i].name
  PROVE  /\ \A d \in MembersOf(Rooms[i]) \ g.members :
              \E q \in MemberRequests : q.kind = "add_member" /\ q.group = g.name /\ q.member = Wanted[d]
         /\ \A m \in Rooms[i].members \ Range(names) :
              \E q \in MemberRequests : q.kind = "add_member" /\ q.group = g.name /\ q.member = m
         /\ prune => \A d \in g.members \ (MembersOf(Rooms[i]) \cup Impostors) :
              \E q \in MemberRequests :
                q.kind = "remove_member" /\ q.group = g.name /\ q.member = MemberKey(d)
<1>1. g.members \subseteq DOMAIN names /\ Rooms[i].members \subseteq Range(Wanted)
  BY ProvisionAssumption DEF Bridge, ProvisionAssumption
<1>2. ASSUME NEW d \in MembersOf(Rooms[i]) \ g.members
      PROVE  Wanted[d] \in Rooms[i].members \ MemberNames(g)
  BY <1>1, KeysFit DEF MembersOf, MemberNames
<1>3. ASSUME NEW m \in Rooms[i].members \ Range(names)
      PROVE  m \in Rooms[i].members \ MemberNames(g)
  <2>1. PICK d \in Ds : m = Wanted[d]  BY <1>1, ProvisionAssumption DEF Range, ProvisionAssumption
  <2>2. d \notin DOMAIN names  BY <2>1, <1>3 DEF NamesFit, Range
  <2>3. QED  BY <1>1, <2>1, <2>2, KeysFit DEF MemberNames
<1>4. ASSUME NEW d \in g.members \ (MembersOf(Rooms[i]) \cup Impostors)
      PROVE  MemberKey(d) \in MemberNames(g) \ Rooms[i].members
  <2>1. d \in DOMAIN names /\ MemberKey(d) \in MemberNames(g)  BY <1>1 DEF MemberNames
  <2>2. d \in Ds => MemberKey(d) \notin Rooms[i].members  BY <2>1, <1>4 DEF MemberKey, MembersOf
  <2>3. ASSUME d \notin Ds, Address(d) \in Rooms[i].members PROVE FALSE
    <3>1. PICK e \in Ds : Address(d) = Wanted[e]
      BY <1>1, <2>3, ProvisionAssumption DEF Range, ProvisionAssumption
    <3>2. QED  BY <3>1, <2>1, <2>3, PairedDevices
  <2>4. QED  BY <2>1, <2>2, <2>3 DEF MemberKey
<1>5. QED  BY <1>2, <1>3, <1>4, MemberRequestsSuffice

\* A plan is made: everything that is missing is now among the requests.
LEMMA PlannedNames ==
  ASSUME PassInv, MakePlan, phase = "names"
  PROVE  PassInv'
<1> USE DEF z2m, budget
<1>1. todo' \in Plans("names") /\ step' = "issue" /\ UNCHANGED <<phase, names>>  BY DEF MakePlan
<1>2. /\ todo' \in Seq(Range(todo')) /\ \A q \in Range(todo') : q.kind = "rename_device"
      /\ Renaming(todo')
  BY <1>1, NamePlan
<1>3. Bridge' /\ CacheInv'  BY DEF PassInv, Bridge, CacheInv, MakePlan
<1>4. Schedule'  BY <1>1, <1>2 DEF PassInv, Schedule, KindsOf, Idle
<1>5. NamesInv'
  <2>1. Renaming(todo)'  BY <1>1, <1>2 DEF Renaming
  <2>2. phase' \notin FromDescribe  BY <1>1 DEF FromDescribe
  <2>3. QED  BY <2>1, <2>2 DEF NamesInv
<1>6. phase' \notin FromOptions /\ phase' \notin FromScenes /\ phase' \notin FromMembers
      /\ phase' \notin FromCreate /\ phase' \notin FromRename
  BY <1>1 DEF FromScenes, FromMembers, FromCreate, FromRename, FromDescribe, FromOptions
<1>7. AttributesInv'  BY <1>1, <1>2, <1>6 DEF AttributesInv
<1>8. Fresh'  BY <1>1 DEF PassInv, Fresh, MakePlan
<1>9. RequestsFit'  BY <1>2 DEF RequestsFit
<1>10. PruneInv' /\ CreateInv' /\ MembersInv' /\ ScenesInv'
  BY <1>1, <1>6 DEF PruneInv, CreateInv, MembersInv, ScenesInv
<1>11. QED  BY <1>3, <1>4, <1>5, <1>7, <1>8, <1>9, <1>10 DEF PassInv, Progress

LEMMA PlannedRequests ==
  ASSUME PassInv, MakePlan, phase # "names", todo' \in Plans(phase), step' = "issue", UNCHANGED phase
  PROVE  PassInv'
<1> USE DEF z2m, budget
<1>1. step = "plan" /\ UNCHANGED <<names, groups, scened, described, tuned, cache, due, snap, did, prune, unseen>>
  BY DEF MakePlan
<1>2. phase \in Working \ {"names"}  BY <1>1 DEF PassInv, Schedule
<1>3. todo' \in Seq(Range(todo')) /\ Range(todo') = RequestsOf(phase)
  <2>1. GroupList(snap)  BY DEF PassInv, Bridge
  <2>2. QED  BY <2>1, <1>2, PlanIsComplete
<1>4. Bridge' /\ CacheInv'  BY <1>1 DEF PassInv, Bridge, CacheInv
<1>5. Schedule'  BY <1>2, <1>3, RequestKinds DEF PassInv, Schedule, Idle, Working
<1>6. NamesInv'  BY <1>1 DEF PassInv, NamesInv, NamesFit
<1>7. AttributesInv'
  <2>1. phase = "describe" =>
          \A d \in (Optioned \cap DOMAIN names) \ described : \E q \in Range(todo') : q.dev = d
    <3>1. SUFFICES ASSUME phase = "describe", NEW d \in (Optioned \cap DOMAIN names) \ described
                   PROVE \E q \in DescriptionRequests : q.dev = d
      BY <1>3 DEF RequestsOf
    <3>2. [kind |-> "describe", dev |-> d] \in DescriptionRequests  BY DEF DescriptionRequests
    <3>3. QED  BY <3>2
  <2>2. phase = "options" =>
          \A d \in (Optioned \cap DOMAIN names) \ tuned : \E q \in Range(todo') : q.dev = d
    <3>1. SUFFICES ASSUME phase = "options", NEW d \in (Optioned \cap DOMAIN names) \ tuned
                   PROVE \E q \in OptionRequests : q.dev = d
      BY <1>3 DEF RequestsOf
    <3>2. NamesFit /\ d \in Ds
      BY <3>1, ProvisionAssumption DEF PassInv, NamesInv, FromDescribe, ProvisionAssumption
    <3>3. d \in Bearers(Wanted[d])  BY <3>1, <3>2 DEF NamesFit, Bearers
    <3>4. ~(Bearers(Wanted[d]) \subseteq tuned)  BY <3>1, <3>3
    <3>5. [kind |-> "set_option", dev |-> d] \in OptionRequests  BY <3>1, <3>4 DEF OptionRequests
    <3>6. QED  BY <3>5
  <2>3. QED  BY <1>1, <2>1, <2>2 DEF PassInv, AttributesInv
<1>8. Fresh'
  <2>1. phase = "prune" /\ ~prune => todo' = <<>>  BY DEF Plans
  <2>2. QED  BY <1>1, <2>1 DEF PassInv, Fresh
<1>9. RequestsFit'
  <2>1. SUFFICES ASSUME NEW q \in RequestsOf(phase)
                 PROVE  /\ q.kind = "add_group" => q.name \in RoomNames
                        /\ q.kind \in {"add_member", "remove_member"} =>
                             \A i \in DOMAIN Rooms : q.group = Rooms[i].name =>
                               (q.member \in Rooms[i].members) = (q.kind = "add_member")
                        /\ q.kind = "remove_member" => \E d \in DOMAIN names : q.member = MemberKey(d)
                        /\ q.kind = "add_scene" => SceneRequest(q)
    BY <1>1, <1>3 DEF RequestsFit, RoomNames
  <2>2. q.kind \in KindsOf(phase)  BY <1>2, RequestKinds
  <2>3. CASE q.kind = "add_group"
    <3>1. q \in Creations  BY <1>2, <2>2, <2>3 DEF KindsOf, Working, RequestsOf
    <3>2. QED  BY <3>1, <2>3 DEF Creations, RoomNames
  <2>4. CASE q.kind \in {"add_member", "remove_member"}
    <3>1. q \in MemberRequests  BY <1>2, <2>2, <2>4 DEF KindsOf, Working, RequestsOf
    <3>2. Bridge  BY DEF PassInv
    <3>3. QED  BY <3>1, <3>2, <2>4, MemberRequestsFit
  <2>5. CASE q.kind = "add_scene"
    <3>1. q \in SceneRequests  BY <1>2, <2>2, <2>5 DEF KindsOf, Working, RequestsOf
    <3>2. QED  BY <3>1, <2>5 DEF SceneRequests, SceneRequest
  <2>6. QED  BY <2>3, <2>4, <2>5
<1>10. ASSUME ~unseen' PROVE PruneInv' /\ CreateInv' /\ MembersInv' /\ ScenesInv'
  <2>1. /\ PruneInv /\ CreateInv /\ MembersInv /\ ScenesInv
        /\ phase \in {"prune", "create", "members"} => snap = groups
    BY <1>1, <1>10 DEF PassInv, Progress, Fresh
  <2>2. PruneInv'
    <3>1. ASSUME prune, phase = "prune", NEW g \in groups, g.name \notin RoomNames
          PROVE  \E q \in Range(todo') : q.name = g.name
      <4>1. Range(todo') = Removals  BY <1>3, <3>1 DEF RequestsOf
      <4>2. g.name \in GroupNames(snap) \ RoomNames  BY <2>1, <3>1 DEF GroupNames
      <4>3. [kind |-> "remove_group", name |-> g.name] \in Removals  BY <4>2 DEF Removals
      <4>4. QED  BY <4>1, <4>3
    <3>2. QED  BY <1>1, <2>1, <3>1 DEF PruneInv, RoomNames, GroupNames
  <2>3. CreateInv'
    <3>1. ASSUME phase = "create", NEW i \in DOMAIN Rooms, Rooms[i].name \notin GroupNames(groups)
          PROVE  \E q \in Range(todo') : q.name = Rooms[i].name
      <4>1. Range(todo') = Creations  BY <1>3, <3>1 DEF RequestsOf
      <4>2. [kind |-> "add_group", at |-> i, name |-> Rooms[i].name, id |-> Rooms[i].id] \in Creations
        BY <2>1, <3>1 DEF Creations
      <4>3. QED  BY <4>1, <4>2
    <3>2. QED  BY <1>1, <2>1, <3>1 DEF CreateInv, GroupNames
  <2>4. MembersInv'
    <3>1. ASSUME phase = "members", NEW i \in DOMAIN Rooms, NEW g \in groups, g.name = Rooms[i].name
          PROVE  /\ \A d \in MembersOf(Rooms[i]) \ g.members :
                      \E q \in Adds(g.name)' : q.member = Wanted[d]
                 /\ \A m \in Rooms[i].members \ Range(names) : \E q \in Adds(g.name)' : q.member = m
                 /\ prune => \A d \in g.members \ (MembersOf(Rooms[i]) \cup Impostors) :
                               \E q \in Removes(g.name)' : q.member = MemberKey(d)
      <4>1. Range(todo') = MemberRequests  BY <1>3, <3>1 DEF RequestsOf
      <4>2. g \in snap  BY <2>1, <3>1
      <4>3. Bridge /\ NamesFit  BY <3>1 DEF PassInv, NamesInv, FromDescribe
      <4>4. QED  BY <4>1, <4>2, <4>3, <3>1, MembersRequested DEF Adds, Removes
    <3>2. QED  BY <1>1, <2>1, <3>1 DEF MembersInv, MembersOf, Impostors
  <2>5. ScenesInv'
    <3>1. ASSUME phase = "scenes", NEW i \in DOMAIN Rooms, Rooms[i].scenes, Rooms[i].name \in GroupNames(snap)
          PROVE  \E q \in Range(todo') : q.group = Rooms[i].name
      <4>1. Range(todo') = SceneRequests  BY <1>3, <3>1 DEF RequestsOf
      <4>2. [kind |-> "add_scene", at |-> i, group |-> Rooms[i].name, attempt |-> 1] \in SceneRequests
        BY <3>1 DEF SceneRequests
      <4>3. QED  BY <4>1, <4>2
    <3>2. QED  BY <1>1, <2>1, <3>1 DEF ScenesInv, GroupNames
  <2>6. QED  BY <2>2, <2>3, <2>4, <2>5
<1>11. QED  BY <1>4, <1>5, <1>6, <1>7, <1>8, <1>9, <1>10 DEF PassInv, Progress

LEMMA MakePlanStep == PassInv /\ MakePlan => PassInv'
<1> SUFFICES ASSUME PassInv, MakePlan PROVE PassInv'
  OBVIOUS
<1>1. CASE phase = "rename" /\ Collision
  <2>1. Fail("collision")  BY <1>1 DEF MakePlan
  <2>2. Bridge' /\ CacheInv'  BY DEF PassInv, Bridge, CacheInv, MakePlan, z2m, budget
  <2>3. QED  BY <2>1, <2>2, FailedPass
<1>2. CASE phase = "names"  BY <1>2, PlannedNames
<1>3. CASE phase # "names" /\ ~(phase = "rename" /\ Collision)
  <2>1. todo' \in Plans(phase) /\ step' = "issue" /\ UNCHANGED phase  BY <1>3 DEF MakePlan
  <2>2. QED  BY <2>1, <1>3, PlannedRequests
<1>4. QED  BY <1>1, <1>2, <1>3

-----------------------------------------------------------------------------
(* The end of a phase: nothing is left to request, so its work is done. *)

LEMMA PhaseAfter ==
  /\ After("zwave") = "names" /\ After("names") = "describe" /\ After("describe") = "rename"
  /\ After("rename") = "prune" /\ After("prune") = "create" /\ After("create") = "members"
  /\ After("members") = "scenes" /\ After("scenes") = "options" /\ After("options") = "done"
<1> DEFINE Is(k, p) == \A i \in DOMAIN Phases : Phases[i] = p <=> i = k
<1>1. DOMAIN Phases = 1..10  BY DEF Phases
<1>2. Is(1, "zwave") /\ Is(2, "names") /\ Is(3, "describe")  BY DEF Phases
<1>3. Is(4, "rename") /\ Is(5, "prune") /\ Is(6, "create")  BY DEF Phases
<1>4. Is(7, "members") /\ Is(8, "scenes") /\ Is(9, "options")  BY DEF Phases
<1>5. ASSUME NEW k \in 1..9, NEW p, Is(k, p) PROVE After(p) = Phases[1 + k]
  <2>1. k \in DOMAIN Phases  BY <1>1
  <2>2. (CHOOSE i \in DOMAIN Phases : Phases[i] = p) = k  BY <2>1, <1>5
  <2>3. QED  BY <2>2 DEF After
<1>6. /\ Phases[2] = "names" /\ Phases[3] = "describe" /\ Phases[4] = "rename"
      /\ Phases[5] = "prune" /\ Phases[6] = "create" /\ Phases[7] = "members"
      /\ Phases[8] = "scenes" /\ Phases[9] = "options" /\ Phases[10] = "done"
  BY DEF Phases
<1> HIDE DEF Is
<1>7. After("zwave") = "names" /\ After("names") = "describe" /\ After("describe") = "rename"
  BY <1>2, <1>5, <1>6
<1>8. After("rename") = "prune" /\ After("prune") = "create" /\ After("create") = "members"
  BY <1>3, <1>5, <1>6
<1>9. After("members") = "scenes" /\ After("scenes") = "options" /\ After("options") = "done"
  BY <1>4, <1>5, <1>6
<1>10. QED  BY <1>7, <1>8, <1>9

LEMMA ProceedStep == PassInv /\ Proceed => PassInv'
<1> SUFFICES ASSUME PassInv, Proceed PROVE PassInv'
  OBVIOUS
<1> USE DEF z2m, budget
<1>1. /\ phase \in Working /\ step = "issue" /\ todo = <<>>
      /\ UNCHANGED <<names, groups, scened, described, tuned, cache, due, snap, did, prune, unseen>>
  BY DEF PassInv, Schedule, Proceed, Idle
<1>2. Bridge' /\ CacheInv'  BY <1>1 DEF PassInv, Bridge, CacheInv
<1>3. Range(todo) = {} /\ DOMAIN todo = {}  BY <1>1, EmptyTodo
<1>4. ASSUME NEW why, Fail(why) PROVE PassInv'  BY <1>2, <1>4, FailedPass
<1>5. CASE phase' = After(phase) /\ UNCHANGED todo
           /\ step' = (IF After(phase) = "done" THEN "issue"
                       ELSE IF Reads(After(phase)) = "no" THEN "plan" ELSE "fetch")
           /\ (phase = "scenes" =>
                 \A i \in DOMAIN Rooms : Rooms[i].scenes => Rooms[i].name \in GroupNames(snap))
  <2>1. \/ phase' \in Working \ {"zwave"} /\ step' \in {"plan", "fetch"}
        \/ phase' = "done" /\ step' = "issue"
    BY <1>1, <1>5, PhaseAfter DEF Working
  <2>2. Schedule'  BY <1>1, <1>3, <1>5, <2>1 DEF PassInv, Schedule, Idle, Working
  <2>3. phase' \in FromDescribe => phase = "names" \/ phase \in FromDescribe
    BY <1>1, <1>5, PhaseAfter DEF Working, FromDescribe
  <2>4. phase' \in FromRename => phase = "describe" \/ phase \in FromRename
    BY <1>1, <1>5, PhaseAfter DEF Working, FromDescribe, FromRename
  <2>5. phase' \in FromCreate => phase = "prune" \/ phase \in FromCreate
    BY <1>1, <1>5, PhaseAfter DEF Working, FromDescribe, FromRename, FromCreate
  <2>6. phase' \in FromMembers => phase = "create" \/ phase \in FromMembers
    BY <1>1, <1>5, PhaseAfter DEF Working, FromDescribe, FromRename, FromCreate, FromMembers
  <2>7. phase' \in FromScenes => phase = "members" \/ phase \in FromScenes
    BY <1>1, <1>5, PhaseAfter DEF Working, FromDescribe, FromRename, FromCreate, FromMembers, FromScenes
  <2>8. phase' \in FromOptions => phase = "scenes" \/ phase \in FromOptions
    BY <1>1, <1>5, PhaseAfter DEF Working, FromOptions
  <2>9. phase' = "done" => phase = "options"
    BY <1>1, <1>5, PhaseAfter DEF Working
  <2>10. NamesInv'
    <3>1. Renaming(todo) => NamesFit  BY <1>3 DEF Renaming, NamesFit
    <3>2. phase' \in FromDescribe => NamesFit  BY <2>3, <3>1, <1>1 DEF PassInv, NamesInv
    <3>3. QED  BY <3>2, <2>1, <1>1 DEF NamesInv, NamesFit
  <2>11. AttributesInv'
    <3>1. phase = "describe" => Optioned \cap DOMAIN names \subseteq described
      BY <1>1, <1>3 DEF PassInv, AttributesInv
    <3>2. ~unseen /\ phase = "options" => Optioned \cap DOMAIN names \subseteq tuned
      BY <1>1, <1>3 DEF PassInv, AttributesInv
    <3>3. phase' \in FromRename => Optioned \cap DOMAIN names' \subseteq described'
      BY <1>1, <2>4, <3>1 DEF PassInv, AttributesInv
    <3>4. ~unseen' /\ phase' = "done" => Optioned \cap DOMAIN names' \subseteq tuned'
      BY <1>1, <2>9, <3>2
    <3>5. QED  BY <2>1, <3>3, <3>4 DEF AttributesInv
  <2>12. RequestsFit'  BY <1>3, <1>5 DEF RequestsFit
  <2>13. Fresh'
    <3>1. phase \in {"zwave", "names", "describe"} => did = {} /\ (phase' = "names" \/ phase' = "describe" \/ phase' = "rename")
      BY <1>1, <1>5, PhaseAfter DEF PassInv, Fresh
    <3>2. phase' \in {"zwave", "names", "describe"} => phase \in {"zwave", "names"}
      BY <1>1, <1>5, PhaseAfter DEF Working
    <3>3. phase' = "rename" => phase = "describe"  BY <1>1, <1>5, PhaseAfter DEF Working
    <3>4. ASSUME ~unseen', phase' \in {"rename", "prune", "create", "members"}, step' = "plan"
          PROVE  snap' = groups'
      <4>1. Reads(phase') = "no" /\ phase' # "rename"  BY <1>5, <3>4 DEF Reads
      <4>2. CASE phase' = "prune"
        <5>1. phase = "rename"  BY <4>2, <1>1, <1>5, PhaseAfter DEF Working
        <5>2. "rename_group" \notin did  BY <4>1, <4>2, <1>1 DEF Reads
        <5>3. did = {}  BY <5>1, <5>2 DEF PassInv, Fresh
        <5>4. QED  BY <5>1, <5>3, <3>4, <1>1 DEF PassInv, Fresh
      <4>3. CASE phase' = "create"
        <5>1. phase = "prune"  BY <4>3, <1>1, <1>5, PhaseAfter DEF Working
        <5>2. ~prune \/ did = {}  BY <4>1, <4>3, <1>1 DEF Reads
        <5>3. QED  BY <5>1, <5>2, <3>4, <1>1 DEF PassInv, Fresh
      <4>4. CASE phase' = "members"
        <5>1. phase = "create"  BY <4>4, <1>1, <1>5, PhaseAfter DEF Working
        <5>2. did = {}  BY <4>1, <4>4, <1>1 DEF Reads
        <5>3. QED  BY <5>1, <5>2, <3>4, <1>1 DEF PassInv, Fresh
      <4>5. QED  BY <4>1, <4>2, <4>3, <4>4, <3>4
    <3>5. phase' \in {"rename", "prune", "create", "members"} => step' # "issue"  BY <2>1
    <3>6. todo' = <<>>  BY <1>1, <1>5
    <3>7. QED  BY <1>1, <3>1, <3>2, <3>3, <3>4, <3>5, <3>6 DEF Fresh
  <2>14. ASSUME ~unseen' PROVE PruneInv' /\ CreateInv' /\ MembersInv' /\ ScenesInv'
    <3>1. PruneInv /\ CreateInv /\ MembersInv /\ ScenesInv  BY <1>1, <2>14 DEF PassInv, Progress
    <3>2. step' = "issue" => phase' = "done"  BY <2>1
    <3>3. PruneInv'
      <4>1. prune /\ phase = "prune" => GroupNames(groups) \subseteq RoomNames
        BY <1>1, <1>3, <3>1 DEF PruneInv, GroupNames
      <4>2. prune /\ phase' \in FromCreate => GroupNames(groups) \subseteq RoomNames
        BY <2>5, <3>1, <4>1 DEF PruneInv
      <4>3. QED  BY <1>1, <3>2, <4>2 DEF PruneInv, GroupNames, RoomNames
    <3>4. CreateInv'
      <4>1. phase' \in FromMembers => \A i \in DOMAIN Rooms : Rooms[i].name \in GroupNames(groups)
        BY <1>1, <1>3, <2>6, <3>1 DEF CreateInv
      <4>2. QED  BY <1>1, <3>2, <4>1 DEF CreateInv, GroupNames
    <3>5. MembersInv'
      <4>1. \A n : Adds(n) = {} /\ Removes(n) = {}  BY <1>3 DEF Adds, Removes
      <4>2. phase = "members" =>
              \A i \in DOMAIN Rooms : \A g \in groups : g.name = Rooms[i].name =>
                /\ MembersOf(Rooms[i]) \subseteq g.members
                /\ Rooms[i].members \subseteq Range(names)
                /\ prune => g.members \subseteq MembersOf(Rooms[i]) \cup Impostors
        BY <1>1, <4>1, <3>1 DEF MembersInv
      <4>3. phase' \in FromScenes =>
              \A i \in DOMAIN Rooms : \A g \in groups : g.name = Rooms[i].name =>
                /\ MembersOf(Rooms[i]) \subseteq g.members
                /\ Rooms[i].members \subseteq Range(names)
                /\ prune => g.members \subseteq MembersOf(Rooms[i]) \cup Impostors
        BY <2>7, <3>1, <4>2 DEF MembersInv
      <4>4. QED  BY <1>1, <3>2, <4>3 DEF MembersInv, MembersOf, Impostors
    <3>6. ScenesInv'
      <4>1. phase' \in FromOptions => \A i \in DOMAIN Rooms : Rooms[i].scenes => Rooms[i].name \in scened
        BY <1>1, <1>3, <1>5, <2>8, <3>1 DEF ScenesInv
      <4>2. QED  BY <1>1, <3>2, <4>1 DEF ScenesInv
    <3>7. QED  BY <3>3, <3>4, <3>5, <3>6
  <2>15. QED  BY <1>2, <2>2, <2>10, <2>11, <2>12, <2>13, <2>14 DEF PassInv, Progress
<1>6. QED  BY <1>4, <1>5 DEF Proceed

-----------------------------------------------------------------------------
(* Requests *)

\* The first request leaves the list.
LEMMA TakenRequest ==
  ASSUME PassInv, todo # <<>>
  PROVE  /\ step = "issue" /\ phase \in Working
         /\ Head(todo) \in Range(todo) /\ Head(todo).kind \in KindsOf(phase)
         /\ Range(todo) = {Head(todo)} \cup Range(Tail(todo))
         /\ todo' = Tail(todo) /\ UNCHANGED <<phase, step, DOMAIN names>> => Schedule' /\ RequestsFit'
<1>1. todo \in Seq(Range(todo))  BY DEF PassInv, Schedule
<1>2. /\ Head(todo) \in Range(todo) /\ Range(todo) = {Head(todo)} \cup Range(Tail(todo))
      /\ Tail(todo) \in Seq(Range(Tail(todo)))
  BY <1>1, FirstOf
<1>3. step = "issue" /\ phase \in Working /\ \A q \in Range(todo) : q.kind \in KindsOf(phase)
  BY DEF PassInv, Schedule
<1>4. ASSUME todo' = Tail(todo), UNCHANGED <<phase, step, DOMAIN names>> PROVE Schedule' /\ RequestsFit'
  <2>1. Schedule'  BY <1>2, <1>3, <1>4 DEF Schedule, Idle, Working
  <2>2. \A q \in Range(todo') : q \in Range(todo)  BY <1>2, <1>4
  <2>3. RequestsFit'  BY <1>4, <2>2 DEF PassInv, RequestsFit, RoomNames
  <2>4. QED  BY <2>1, <2>3
<1>5. QED  BY <1>2, <1>3, <1>4

LEMMA PublishLostStep == PassInv /\ PublishLost => PassInv'
<1> SUFFICES ASSUME PassInv, PublishLost PROVE PassInv'
  OBVIOUS
<1> USE DEF z2m, Fault
<1>1. /\ todo # <<>> /\ todo' = Tail(todo) /\ unseen' = TRUE /\ ~Answered(Head(todo))
      /\ UNCHANGED <<names, groups, scened, described, tuned, cache, due, phase, step, snap, did, prune>>
  BY DEF PublishLost
<1>2. /\ phase \in Working /\ Head(todo).kind \in KindsOf(phase)
      /\ Range(todo) = {Head(todo)} \cup Range(Tail(todo)) /\ Schedule' /\ RequestsFit'
  BY <1>1, TakenRequest
<1>3. phase \in {"scenes", "options"}  BY <1>1, <1>2 DEF Answered, KindsOf, Working
<1>4. Bridge' /\ CacheInv'  BY <1>1 DEF PassInv, Bridge, CacheInv
<1>5. NamesInv'  BY <1>1, <1>3 DEF PassInv, NamesInv, NamesFit
<1>6. AttributesInv'  BY <1>1, <1>2, <1>3 DEF PassInv, AttributesInv
<1>7. Fresh'  BY <1>1, <1>3 DEF PassInv, Fresh
<1>8. Progress'  BY <1>1 DEF Progress
<1>9. QED  BY <1>2, <1>4, <1>5, <1>6, <1>7, <1>8 DEF PassInv

\* Only the number of the attempt changes.
LEMMA AnotherAttempt ==
  ASSUME NEW s, s \in Seq(Range(s)), s # <<>>,
         \A q \in Range(s) : SceneRequest(q),
         NEW u, u = [s EXCEPT ![1].attempt = @ + 1]
  PROVE  /\ u \in Seq(Range(u)) /\ u # <<>>
         /\ \A q \in Range(u) : SceneRequest(q)
         /\ \A q \in Range(s) : \E r \in Range(u) : r.group = q.group
<1> DEFINE n == Len(s)
           e == [s[1] EXCEPT !.attempt = @ + 1]
<1>1. n \in Nat \ {0} /\ DOMAIN s = 1..n  OBVIOUS
<1>2. s[1] \in Range(s)  BY <1>1 DEF Range
<1>3. s[1] = [kind |-> "add_scene", at |-> s[1].at, group |-> s[1].group, attempt |-> s[1].attempt]
  BY <1>2 DEF SceneRequest
<1>4. e = [kind |-> "add_scene", at |-> s[1].at, group |-> s[1].group, attempt |-> s[1].attempt + 1]
  BY <1>3
<1>5. u = [s EXCEPT ![1] = e]  OBVIOUS
<1> HIDE DEF e
<1>6. DOMAIN u = 1..n /\ \A i \in 1..n : u[i] = IF i = 1 THEN e ELSE s[i]  BY <1>1, <1>5
<1>7. u \in Seq(Range(s) \cup {e})
  <2>1. s \in Seq(Range(s) \cup {e})
    <3>1. \A i \in 1..n : s[i] \in Range(s) \cup {e}  BY <1>1 DEF Range
    <3>2. s = [i \in 1..n |-> s[i]]  BY <1>1
    <3>3. [i \in 1..n |-> s[i]] \in Seq(Range(s) \cup {e})  BY <1>1, <3>1
    <3>4. QED  BY <3>2, <3>3
  <2>2. QED  BY <2>1, <1>1, <1>5
<1>8. u \in Seq(Range(u)) /\ u # <<>>
  <2>1. u # <<>>  BY <1>1, <1>6
  <2>2. QED  BY <2>1, <1>7, OwnElements
<1>9. ASSUME NEW q \in Range(u)
      PROVE  SceneRequest(q)
  <2>1. PICK i \in 1..n : u[i] = q  BY <1>6 DEF Range
  <2>2. q = e \/ q \in Range(s)  BY <2>1, <1>6, <1>1 DEF Range
  <2>3. QED  BY <2>2, <1>4 DEF SceneRequest
<1>10. ASSUME NEW q \in Range(s) PROVE \E r \in Range(u) : r.group = q.group
  <2>1. PICK i \in 1..n : s[i] = q  BY <1>1 DEF Range
  <2>2. u[i] \in Range(u)  BY <1>6 DEF Range
  <2>3. u[i].group = q.group  BY <2>1, <1>4, <1>6
  <2>4. QED  BY <2>2, <2>3
<1>11. QED  BY <1>8, <1>9, <1>10

LEMMA SceneRejectedStep == PassInv /\ SceneRejected => PassInv'
<1> SUFFICES ASSUME PassInv, SceneRejected PROVE PassInv'
  OBVIOUS
<1> USE DEF z2m, Fault
<1>1. /\ todo # <<>> /\ Head(todo).kind = "add_scene"
      /\ UNCHANGED <<names, groups, scened, described, tuned, cache, due, snap, did, unseen, prune>>
  BY DEF SceneRejected
<1>2. Bridge' /\ CacheInv'  BY <1>1 DEF PassInv, Bridge, CacheInv
<1>3. step = "issue" /\ phase \in Working /\ Head(todo).kind \in KindsOf(phase)  BY <1>1, TakenRequest
<1>4. phase = "scenes"  BY <1>1, <1>3 DEF KindsOf, Working
<1>5. CASE todo' = [todo EXCEPT ![1].attempt = @ + 1] /\ UNCHANGED <<phase, step>>
  <2>1. todo \in Seq(Range(todo)) /\ \A q \in Range(todo) : q.kind = "add_scene"
    BY <1>4 DEF PassInv, Schedule, KindsOf
  <2>2. \A q \in Range(todo) : SceneRequest(q)
    BY <2>1 DEF PassInv, RequestsFit
  <2>3. /\ todo' \in Seq(Range(todo')) /\ todo' # <<>>
        /\ \A q \in Range(todo') : SceneRequest(q)
        /\ \A q \in Range(todo) : \E r \in Range(todo') : r.group = q.group
    BY <1>1, <1>5, <2>1, <2>2, AnotherAttempt
  <2>4. \A q \in Range(todo') : q.kind = "add_scene"  BY <2>3 DEF SceneRequest
  <2>5. phase' = "scenes" /\ step' = "issue"  BY <1>3, <1>4, <1>5
  <2>6. Schedule'  BY <2>3, <2>4, <2>5 DEF Schedule, KindsOf, Idle, Working
  <2>7. NamesInv'  BY <1>1, <1>4, <2>5 DEF PassInv, NamesInv, NamesFit
  <2>8. AttributesInv'  BY <1>1, <1>4, <2>4, <2>5 DEF PassInv, AttributesInv
  <2>9. Fresh'  BY <2>5 DEF Fresh
  <2>10. RequestsFit'  BY <2>3, <2>4 DEF RequestsFit
  <2>11. ASSUME ~unseen' PROVE PruneInv' /\ CreateInv' /\ MembersInv' /\ ScenesInv'
    <3>1. PruneInv /\ CreateInv /\ MembersInv /\ ScenesInv  BY <1>1, <2>11 DEF PassInv, Progress
    <3>2. PruneInv' /\ CreateInv'  BY <1>1, <1>4, <2>5, <3>1 DEF PruneInv, CreateInv, GroupNames, RoomNames
    <3>3. MembersInv'  BY <1>1, <1>4, <2>5, <3>1 DEF MembersInv, MembersOf, Impostors
    <3>4. phase' \notin FromOptions  BY <2>5 DEF FromOptions
    <3>5. ScenesInv'  BY <1>1, <1>3, <1>4, <2>3, <3>1, <3>4 DEF ScenesInv, GroupNames
    <3>6. QED  BY <3>2, <3>3, <3>5
  <2>12. QED  BY <1>2, <2>6, <2>7, <2>8, <2>9, <2>10, <2>11 DEF PassInv, Progress
<1>6. CASE Fail("fault")  BY <1>2, <1>6, FailedPass
<1>7. QED  BY <1>5, <1>6 DEF SceneRejected

LEMMA TimedOutStep == PassInv /\ TimedOut => PassInv'
<1> SUFFICES ASSUME PassInv, TimedOut PROVE PassInv'
  OBVIOUS
<1> USE DEF z2m, Fault
<1> DEFINE q == Head(todo)
<1>1. /\ todo # <<>> /\ UNCHANGED <<cache, snap, did, prune>>
      /\ CarryOut(q) \/ UNCHANGED <<names, groups, scened, described, tuned, due>>
      /\ IF phase = "zwave" THEN todo' = <<>> /\ unseen' = TRUE /\ UNCHANGED <<phase, step>>
                            ELSE Fail("fault") /\ UNCHANGED unseen
  BY DEF TimedOut
<1>2. q \in Range(todo) /\ step = "issue" /\ phase \in Working /\ q.kind \in KindsOf(phase)
  BY <1>1, TakenRequest
<1> HIDE DEF q
<1>3. Bridge'
  <2>1. unseen' \in BOOLEAN  BY <1>1 DEF PassInv, Bridge
  <2>2. CASE CarryOut(q)  BY <1>1, <1>2, <2>1, <2>2, CarryOutKeepsBridge DEF PassInv
  <2>3. CASE UNCHANGED <<names, groups, scened, described, tuned, due>>
    BY <1>1, <2>1, <2>3 DEF PassInv, Bridge
  <2>4. QED  BY <1>1, <2>2, <2>3
<1>4. CacheInv'
  <2>1. CASE CarryOut(q)  BY <1>1, <2>1, CarryOutKeepsCache DEF PassInv
  <2>2. CASE UNCHANGED <<names, groups, scened, described, tuned, due>>
    BY <1>1, <2>2 DEF PassInv, CacheInv
  <2>3. QED  BY <1>1, <2>1, <2>2
<1>5. CASE phase # "zwave"  BY <1>1, <1>3, <1>4, <1>5, FailedPass
<1>6. CASE phase = "zwave"
  <2>1. phase' = "zwave" /\ step' = "issue" /\ todo' = <<>> /\ unseen'  BY <1>1, <1>2, <1>6
  <2>2. Range(todo') = {} /\ todo' \in Seq(Range(todo'))  BY <2>1, EmptyTodo
  <2>3. Schedule'  BY <2>1, <2>2 DEF Schedule, Idle, Working
  <2>4. NamesInv' /\ AttributesInv'
    BY <2>1, <2>2 DEF NamesInv, AttributesInv, FromDescribe, FromRename
  <2>5. Fresh'  BY <1>1, <1>6, <2>1 DEF PassInv, Fresh
  <2>6. RequestsFit' /\ Progress'  BY <2>1, <2>2 DEF RequestsFit, Progress
  <2>7. QED  BY <1>3, <1>4, <2>3, <2>4, <2>5, <2>6 DEF PassInv
<1>7. QED  BY <1>5, <1>6

-----------------------------------------------------------------------------
(* A served request: its work is done, and the rest is still requested. *)

\* The device renamed last keeps its name, the others wait for theirs.
LEMMA RenamedDevice ==
  ASSUME Bridge, todo \in Seq(Range(todo)), todo # <<>>, Renaming(todo),
         todo' = Tail(todo), names' = [names EXCEPT ![Head(todo).dev] = Head(todo).to]
  PROVE  Renaming(todo)'
<1> DEFINE q == Head(todo)
           t == Tail(todo)
<1>1. q = todo[1] /\ 1 \in DOMAIN todo /\ DOMAIN t \subseteq Nat /\ DOMAIN todo \subseteq Nat
      /\ \A i \in DOMAIN t : i + 1 \in DOMAIN todo /\ t[i] = todo[i + 1]
  BY FirstOf
<1>0. \A i \in DOMAIN todo : i # 1 => i - 1 \in DOMAIN t /\ t[i - 1] = todo[i]
  BY FirstOf
<1>2. \A i \in DOMAIN todo : i = 1 \/ i > 1
  <2>1. Len(todo) \in Nat /\ DOMAIN todo = 1..Len(todo)  OBVIOUS
  <2>2. QED  BY <2>1
<1>3. /\ DOMAIN names' = DOMAIN names
      /\ \A d \in DOMAIN names : names'[d] = IF d = q.dev THEN q.to ELSE names[d]
  BY DEF Bridge
<1> HIDE DEF q, t
<1>4. SUFFICES ASSUME NEW d \in Ds \cap DOMAIN names
               PROVE  \/ names'[d] = Wanted[d] /\ \A i \in DOMAIN t : t[i].dev # d
                      \/ \E i \in DOMAIN t : /\ t[i].dev = d /\ t[i].to = Wanted[d]
                                             /\ \A j \in DOMAIN t : j > i => t[j].dev # d
  BY <1>3 DEF Renaming, t
<1>5. CASE names[d] = Wanted[d] /\ \A i \in DOMAIN todo : todo[i].dev # d
  BY <1>1, <1>3, <1>5
<1>6. ASSUME NEW i \in DOMAIN todo, todo[i].dev = d, todo[i].to = Wanted[d],
             \A j \in DOMAIN todo : j > i => todo[j].dev # d
      PROVE  \/ names'[d] = Wanted[d] /\ \A k \in DOMAIN t : t[k].dev # d
             \/ \E k \in DOMAIN t : /\ t[k].dev = d /\ t[k].to = Wanted[d]
                                    /\ \A j \in DOMAIN t : j > k => t[j].dev # d
  <2>1. CASE i = 1
    <3>1. names'[d] = Wanted[d]  BY <2>1, <1>1, <1>3, <1>6
    <3>2. \A k \in DOMAIN t : t[k].dev # d
      <4>1. SUFFICES ASSUME NEW k \in DOMAIN t PROVE t[k].dev # d
        OBVIOUS
      <4>2. k + 1 \in DOMAIN todo /\ t[k] = todo[k + 1] /\ k + 1 # 1
        <5>1. k \in Nat /\ k + 1 \in DOMAIN todo /\ t[k] = todo[k + 1]  BY <1>1
        <5>2. k # 0
          <6>1. Tail(todo) \in Seq(Range(Tail(todo)))  BY FirstOf
          <6>2. DOMAIN t = 1..Len(t) /\ Len(t) \in Nat  BY <6>1 DEF t
          <6>3. QED  BY <6>2
        <5>3. QED  BY <5>1, <5>2
      <4>3. k + 1 > 1  BY <4>2, <1>2
      <4>4. QED  BY <4>2, <4>3, <2>1, <1>6
    <3>3. QED  BY <3>1, <3>2
  <2>2. CASE i # 1
    <3>1. i - 1 \in DOMAIN t /\ t[i - 1] = todo[i]  BY <2>2, <1>0
    <3>2. ASSUME NEW j \in DOMAIN t, j > i - 1 PROVE t[j].dev # d
      <4>1. j \in Nat /\ i \in Nat /\ j + 1 \in DOMAIN todo /\ t[j] = todo[j + 1]  BY <1>1
      <4>2. j + 1 > i  BY <4>1, <3>2
      <4>3. QED  BY <4>1, <4>2, <1>6
    <3>3. QED  BY <3>1, <3>2, <1>6
  <2>3. QED  BY <2>1, <2>2
<1>7. QED  BY <1>5, <1>6 DEF Renaming

\* A group after a member request
EditedFrom(q, g, h) ==
  /\ h.name = g.name
  /\ g.name # q.group => h = g
  /\ g.name = q.group => h.members = IF q.kind = "add_member" THEN g.members \cup Bearers(q.member)
                                                              ELSE g.members \ Bearers(q.member)

\* Editing the members of a group leaves the other groups and all names alone.
LEMMA MemberEdit ==
  ASSUME Bridge, NEW q, q.kind \in {"add_member", "remove_member"}
  PROVE  /\ \A h \in GroupsAfter(q) : \E g \in groups : EditedFrom(q, g, h)
         /\ \A g \in groups : \E h \in GroupsAfter(q) : h.name = g.name
<1> DEFINE D == Bearers(q.member)
           E(g) == IF q.kind = "add_member" THEN g.members \cup D ELSE g.members \ D
           M(g) == [g EXCEPT !.members = E(g)]
<1>1. GroupsAfter(q) = (groups \ Named(q.group)) \cup {M(g) : g \in Named(q.group)}
  BY GroupsAfterRequest
<1>2. ASSUME NEW g \in groups PROVE M(g).name = g.name /\ M(g).members = E(g)
  <2>1. GroupOK(g) /\ IsFiniteSet(g.members) /\ IsFiniteSet(D)
    BY PairedDevices DEF Bridge, GroupList, GroupOK
  <2> HIDE DEF D
  <2>2. IsFiniteSet(E(g))  BY <2>1, FS_Union, FS_Difference
  <2> HIDE DEF E
  <2>3. QED  BY <2>1, <2>2, EditedGroup
<1> HIDE DEF M, E
<1>3. ASSUME NEW h \in GroupsAfter(q)
      PROVE  \E g \in groups : /\ h.name = g.name
                               /\ g.name # q.group => h = g
                               /\ g.name = q.group => h.members = E(g)
  <2>1. CASE h \in groups \ Named(q.group)
    <3>1. h \in groups /\ h.name # q.group  BY <2>1 DEF Named
    <3>2. QED  BY <3>1
  <2>2. CASE \E g \in Named(q.group) : h = M(g)
    <3>1. PICK g \in Named(q.group) : h = M(g)  BY <2>2
    <3>2. g \in groups /\ g.name = q.group  BY DEF Named
    <3>3. QED  BY <3>1, <3>2, <1>2
  <2>3. QED  BY <2>1, <2>2, <1>1
<1>4. ASSUME NEW g \in groups PROVE \E h \in GroupsAfter(q) : h.name = g.name
  <2>1. CASE g \in Named(q.group)  BY <2>1, <1>1, <1>2
  <2>2. CASE g \notin Named(q.group)  BY <2>2, <1>1
  <2>3. QED  BY <2>1, <2>2
<1>5. QED  BY <1>3, <1>4 DEF E, EditedFrom

LEMMA ServedNames ==
  ASSUME PassInv, Served
  PROVE  NamesInv' /\ AttributesInv'
<1> DEFINE q == Head(todo)
<1>1. /\ todo # <<>> /\ todo' = Tail(todo) /\ CarryOut(q)
      /\ UNCHANGED <<phase, step, unseen>>
  BY DEF Served
<1>2. /\ step = "issue" /\ phase \in Working /\ q \in Range(todo) /\ q.kind \in KindsOf(phase)
      /\ Range(todo) = {q} \cup Range(todo')
  BY <1>1, TakenRequest
<1>3. todo \in Seq(Range(todo))  BY DEF PassInv, Schedule
<1>4. NamesInv'
  <2>1. CASE phase = "names"
    <3>1. q.kind = "rename_device"  BY <1>2, <2>1 DEF KindsOf
    <3>2. names' = [names EXCEPT ![q.dev] = q.to]  BY <1>1, <3>1 DEF CarryOut
    <3>3. Renaming(todo)  BY <1>2, <2>1 DEF PassInv, NamesInv
    <3>4. Renaming(todo)'  BY <1>1, <1>3, <3>2, <3>3, RenamedDevice DEF PassInv
    <3>5. QED  BY <1>1, <2>1, <3>4 DEF NamesInv, FromDescribe
  <2>2. CASE phase # "names"
    <3>1. q.kind # "rename_device"  BY <1>2, <2>2 DEF KindsOf, Working
    <3>2. names' = names  BY <1>1, <3>1 DEF CarryOut
    <3>3. QED  BY <1>1, <2>2, <3>2 DEF PassInv, NamesInv, NamesFit
  <2>3. QED  BY <2>1, <2>2
<1> HIDE DEF q
<1>5. AttributesInv'
  <2>1. /\ described' = IF q.kind = "describe" THEN described \cup {q.dev} ELSE described
        /\ tuned' = IF q.kind = "set_option" THEN tuned \cup Bearers(Wanted[q.dev]) ELSE tuned
        /\ DOMAIN names' = DOMAIN names
    BY <1>1, SameDevices DEF CarryOut, PassInv
  <2>2. phase = "describe" <=> q.kind = "describe"  BY <1>2 DEF KindsOf, Working
  <2>3. phase = "options" <=> q.kind = "set_option"  BY <1>2 DEF KindsOf, Working
  <2>4. phase = "describe" =>
          \A d \in (Optioned \cap DOMAIN names) \ described' : \E r \in Range(todo') : r.dev = d
    BY <1>2, <2>1, <2>2 DEF PassInv, AttributesInv
  <2>5. ~unseen /\ phase = "options" =>
          \A d \in (Optioned \cap DOMAIN names) \ tuned' : \E r \in Range(todo') : r.dev = d
    <3>1. SUFFICES ASSUME ~unseen, phase = "options", NEW d \in (Optioned \cap DOMAIN names) \ tuned'
                   PROVE  \E r \in Range(todo') : r.dev = d
      OBVIOUS
    <3>2. tuned' = tuned \cup Bearers(Wanted[q.dev])  BY <2>1, <2>3, <3>1
    <3>3. PICK r \in Range(todo) : r.dev = d  BY <1>2, <3>1, <3>2 DEF PassInv, AttributesInv
    <3>4. NamesFit /\ d \in Ds
      BY <3>1, ProvisionAssumption DEF PassInv, NamesInv, FromDescribe, ProvisionAssumption
    <3>5. d \in Bearers(Wanted[d])  BY <3>1, <3>4 DEF NamesFit, Bearers
    <3>6. r # q  BY <3>1, <3>2, <3>3, <3>5
    <3>7. QED  BY <1>2, <3>3, <3>6
  <2>6. phase \in FromRename => Optioned \cap DOMAIN names \subseteq described'
    BY <2>1, <2>2 DEF PassInv, AttributesInv, FromRename
  <2>7. phase # "done"  BY <1>2 DEF Working
  <2>8. QED  BY <1>1, <2>1, <2>4, <2>5, <2>6, <2>7 DEF AttributesInv
<1>6. QED  BY <1>4, <1>5

LEMMA ServedFresh ==
  ASSUME PassInv, Served
  PROVE  Fresh'
<1> DEFINE q == Head(todo)
<1>1. /\ todo # <<>> /\ CarryOut(q)
      /\ did' = did \cup ({q.kind} \cap GroupKinds)
      /\ UNCHANGED <<phase, step, unseen, snap, prune>>
  BY DEF Served, budget
<1>2. step = "issue" /\ phase \in Working /\ q.kind \in KindsOf(phase)  BY <1>1, TakenRequest
<1> HIDE DEF q
<1>3. phase \in {"zwave", "names", "describe"} => q.kind \notin GroupKinds
  BY <1>2 DEF KindsOf, GroupKinds
<1>4. phase \in {"rename", "prune", "create", "members"} => q.kind \in GroupKinds
  BY <1>2 DEF KindsOf, GroupKinds
<1>5. phase = "rename" => q.kind = "rename_group"  BY <1>2 DEF KindsOf
<1>6. phase \in {"zwave", "names", "describe"} => did' = {}  BY <1>1, <1>3 DEF PassInv, Fresh
<1>7. phase \in {"rename", "prune", "create", "members"} => did' # {}  BY <1>1, <1>4
<1>8. phase = "rename" => did' \subseteq {"rename_group"}  BY <1>1, <1>5 DEF PassInv, Fresh
<1>9. ~(phase = "prune" /\ ~prune)  BY <1>1 DEF PassInv, Fresh
<1>10. QED  BY <1>1, <1>2, <1>6, <1>7, <1>8, <1>9 DEF Fresh

\* What a served request changes of the groups, by phase
LEMMA ServedGroups ==
  ASSUME PassInv, Served
  PROVE  LET q == Head(todo)
         IN /\ step = "issue" /\ step' = "issue" /\ phase \in Working /\ UNCHANGED <<phase, unseen, snap, prune>>
            /\ q \in Range(todo) /\ Range(todo) = {q} \cup Range(todo')
            /\ phase = "prune" => groups' = groups \ Named(q.name)
            /\ phase = "create" =>
                 /\ q.name \in RoomNames
                 /\ groups' = groups \cup {[id |-> q.id, name |-> q.name, members |-> {}]}
            /\ phase = "members" => /\ q.kind \in {"add_member", "remove_member"}
                                    /\ groups' = GroupsAfter(q)
                                    /\ UNCHANGED names /\ Bearers(q.member) # {}
            /\ phase \in {"scenes", "options"} => UNCHANGED <<groups, names>>
            /\ phase = "scenes" => scened' = scened \cup {q.group}
            /\ phase # "scenes" => UNCHANGED scened
<1> DEFINE q == Head(todo)
<1>1. /\ todo # <<>> /\ CarryOut(q) /\ Possible(q) /\ todo' = Tail(todo)
      /\ UNCHANGED <<phase, step, unseen, snap, prune>>
  BY DEF Served, budget
<1>2. /\ step = "issue" /\ phase \in Working /\ q \in Range(todo) /\ q.kind \in KindsOf(phase)
      /\ Range(todo) = {q} \cup Range(todo')
  BY <1>1, TakenRequest
<1> HIDE DEF q
<1>3. groups' = GroupsAfter(q)  BY <1>1 DEF CarryOut
<1>4. phase = "prune" => groups' = groups \ Named(q.name)
  BY <1>2, <1>3, GroupsAfterRequest DEF KindsOf
<1>5. phase = "create" => /\ q.name \in RoomNames
                          /\ groups' = groups \cup {[id |-> q.id, name |-> q.name, members |-> {}]}
  <2>1. SUFFICES ASSUME phase = "create"
                 PROVE  /\ q.name \in RoomNames
                        /\ groups' = groups \cup {[id |-> q.id, name |-> q.name, members |-> {}]}
    OBVIOUS
  <2>2. q.kind = "add_group"  BY <2>1, <1>2 DEF KindsOf
  <2>3. q.name \in RoomNames  BY <2>2, <1>2 DEF PassInv, RequestsFit
  <2>4. QED  BY <2>2, <2>3, <1>3, GroupsAfterRequest
<1>6. phase = "members" => q.kind \in {"add_member", "remove_member"}  BY <1>2 DEF KindsOf
<1>7. q.kind \in {"add_member", "remove_member"} => UNCHANGED names /\ Bearers(q.member) # {}
  <2>1. SUFFICES ASSUME q.kind \in {"add_member", "remove_member"}
                 PROVE  UNCHANGED names /\ Bearers(q.member) # {}
    OBVIOUS
  <2>2. UNCHANGED names  BY <1>1, <2>1 DEF CarryOut
  <2>3. Bearers(q.member) # {}  BY <1>1, <2>1 DEF Possible
  <2>4. QED  BY <2>2, <2>3
<1>8. phase \in {"scenes", "options"} => q.kind \in {"add_scene", "set_option"}  BY <1>2 DEF KindsOf
<1>9. q.kind \in {"add_scene", "set_option"} => UNCHANGED <<groups, names>>
  <2>1. SUFFICES ASSUME q.kind \in {"add_scene", "set_option"} PROVE UNCHANGED <<groups, names>>
    OBVIOUS
  <2>2. q.kind \notin GroupKinds  BY <2>1 DEF GroupKinds
  <2>3. QED  BY <1>1, <1>3, <2>1, <2>2, GroupsAfterRequest DEF CarryOut
<1>10. phase = "scenes" <=> q.kind = "add_scene"  BY <1>2 DEF KindsOf, Working
<1>11. scened' = IF q.kind = "add_scene" THEN scened \cup {q.group} ELSE scened  BY <1>1 DEF CarryOut
<1>12. QED
  BY <1>1, <1>2, <1>3, <1>4, <1>5, <1>6, <1>7, <1>8, <1>9, <1>10, <1>11 DEF q

LEMMA ServedRooms ==
  ASSUME PassInv, Served, ~unseen
  PROVE  PruneInv' /\ CreateInv'
<1> DEFINE q == Head(todo)
<1>1. /\ step = "issue" /\ step' = "issue" /\ phase \in Working /\ UNCHANGED <<phase, prune>>
      /\ Range(todo) = {q} \cup Range(todo')
      /\ phase = "prune" => groups' = groups \ Named(q.name)
      /\ phase = "create" =>
           /\ q.name \in RoomNames
           /\ groups' = groups \cup {[id |-> q.id, name |-> q.name, members |-> {}]}
      /\ phase = "members" => q.kind \in {"add_member", "remove_member"} /\ groups' = GroupsAfter(q)
      /\ phase \in {"scenes", "options"} => UNCHANGED groups
  BY ServedGroups
<1> HIDE DEF q
<1>2. PruneInv /\ CreateInv  BY DEF PassInv, Progress
<1>3. phase = "create" => GroupNames(groups') = GroupNames(groups) \cup {q.name}
  <2>1. SUFFICES ASSUME phase = "create" PROVE GroupNames(groups') = GroupNames(groups) \cup {q.name}
    OBVIOUS
  <2> DEFINE new == [id |-> q.id, name |-> q.name, members |-> {}]
  <2>2. groups' = groups \cup {new} /\ new.name = q.name  BY <1>1, <2>1
  <2> HIDE DEF new
  <2>3. QED  BY <2>2 DEF GroupNames
<1>4. phase = "members" => GroupNames(groups') = GroupNames(groups)
  <2>1. SUFFICES ASSUME phase = "members" PROVE GroupNames(groups') = GroupNames(groups)
    OBVIOUS
  <2>2. Bridge  BY DEF PassInv
  <2>3. /\ \A h \in groups' : \E g \in groups : h.name = g.name
        /\ \A g \in groups : \E h \in groups' : h.name = g.name
    <3>1. /\ \A h \in groups' : \E g \in groups : EditedFrom(q, g, h)
          /\ \A g \in groups : \E h \in groups' : h.name = g.name
      BY <1>1, <2>1, <2>2, MemberEdit
    <3>2. \A g, h : EditedFrom(q, g, h) => h.name = g.name  BY DEF EditedFrom
    <3>3. QED  BY <3>1, <3>2
  <2>4. QED  BY <2>3 DEF GroupNames
<1>5. phase \in FromCreate => phase \in {"create", "members", "scenes", "options"}
  BY <1>1 DEF FromCreate, FromRename, FromDescribe, Working
<1>6. phase \in FromMembers => phase \in {"members", "scenes", "options"}
  BY <1>5 DEF FromMembers
<1>7. PruneInv'
  <2>1. ASSUME prune, phase = "prune", NEW g \in groups', g.name \notin RoomNames
        PROVE  \E r \in Range(todo') : r.name = g.name
    <3>1. g \in groups /\ g.name # q.name  BY <1>1, <2>1 DEF Named
    <3>2. PICK r \in Range(todo) : r.name = g.name  BY <1>1, <1>2, <2>1, <3>1 DEF PruneInv
    <3>3. QED  BY <1>1, <3>1, <3>2
  <2>2. ASSUME prune, phase \in FromCreate PROVE GroupNames(groups') \subseteq RoomNames
    <3>1. GroupNames(groups) \subseteq RoomNames  BY <1>2, <2>2 DEF PruneInv
    <3>2. QED  BY <1>1, <1>3, <1>4, <1>5, <2>2, <3>1
  <2>3. prune' = prune /\ phase' = phase /\ RoomNames' = RoomNames  BY <1>1 DEF RoomNames
  <2>4. GroupNames(groups)' = GroupNames(groups')  BY DEF GroupNames
  <2>5. QED  BY <2>1, <2>2, <2>3, <2>4 DEF PruneInv
<1>8. CreateInv'
  <2>1. ASSUME phase = "create", NEW i \in DOMAIN Rooms, Rooms[i].name \notin GroupNames(groups')
        PROVE  \E r \in Range(todo') : r.name = Rooms[i].name
    <3>1. Rooms[i].name \notin GroupNames(groups) /\ Rooms[i].name # q.name  BY <1>3, <2>1
    <3>2. PICK r \in Range(todo) : r.name = Rooms[i].name  BY <1>1, <1>2, <2>1, <3>1 DEF CreateInv
    <3>3. QED  BY <1>1, <3>1, <3>2
  <2>2. ASSUME phase \in FromMembers, NEW i \in DOMAIN Rooms PROVE Rooms[i].name \in GroupNames(groups')
    <3>1. Rooms[i].name \in GroupNames(groups)  BY <1>2, <2>2 DEF CreateInv
    <3>2. QED  BY <1>1, <1>4, <1>6, <2>2, <3>1
  <2>3. phase' = phase /\ GroupNames(groups)' = GroupNames(groups')  BY <1>1 DEF GroupNames
  <2>4. QED  BY <2>1, <2>2, <2>3 DEF CreateInv
<1>9. QED  BY <1>7, <1>8

\* What a member of a room adds to a group are members, or impostors.
LEMMA AddedMembers ==
  ASSUME Bridge, NamesFit, NEW i \in DOMAIN Rooms, NEW m \in Rooms[i].members
  PROVE  /\ Bearers(m) \subseteq MembersOf(Rooms[i]) \cup Impostors
         /\ \A d \in MembersOf(Rooms[i]) : Wanted[d] = m => d \in Bearers(m)
         /\ Bearers(m) # {} => m \in Range(names)
<1>1. PICK d \in Ds : m = Wanted[d]
  BY ProvisionAssumption DEF ProvisionAssumption, Range
<1>2. ASSUME NEW y \in Bearers(m)
      PROVE  m \in Range(names) /\ y \in MembersOf(Rooms[i]) \cup Impostors
  <2>1. y \in DOMAIN names /\ names[y] = m /\ (y \in Ds => y = d)  BY <1>1, KeysFit DEF Bearers
  <2>2. m \in Range(Wanted)  BY ProvisionAssumption DEF ProvisionAssumption
  <2>3. QED  BY <1>1, <2>1, <2>2 DEF Range, MembersOf, Impostors
<1>3. \A e \in MembersOf(Rooms[i]) : Wanted[e] = m => e \in Bearers(m)
  BY DEF MembersOf, NamesFit, Bearers
<1>4. QED  BY <1>2, <1>3

\* What is no member of a room takes none of them from its group.
LEMMA RemovedMembers ==
  ASSUME Bridge, NamesFit, NEW i \in DOMAIN Rooms,
         NEW e \in DOMAIN names, MemberKey(e) \notin Rooms[i].members
  PROVE  /\ \A d \in MembersOf(Rooms[i]) : d \notin Bearers(MemberKey(e))
         /\ \A d \in DOMAIN names : MemberKey(d) = MemberKey(e) => d \in Bearers(MemberKey(e))
<1>1. ASSUME NEW d \in MembersOf(Rooms[i]), d \in Bearers(MemberKey(e)) PROVE FALSE
  <2>1. d \in Ds /\ d \in DOMAIN names /\ Wanted[d] \in Rooms[i].members /\ names[d] = Wanted[d]
    BY DEF MembersOf, NamesFit
  <2>2. Address(d) = MemberKey(e)  BY <1>1, <2>1 DEF Bearers
  <2>3. e = d  BY <2>1, <2>2, PairedDevices DEF MemberKey
  <2>4. QED  BY <2>1, <2>3 DEF MemberKey
<1>2. QED  BY <1>1, KeysFit

LEMMA ServedMembers ==
  ASSUME PassInv, Served, ~unseen
  PROVE  MembersInv'
<1> DEFINE q == Head(todo)
<1>1. /\ step = "issue" /\ step' = "issue" /\ phase \in Working /\ UNCHANGED <<phase, prune>>
      /\ q \in Range(todo) /\ Range(todo) = {q} \cup Range(todo')
      /\ phase = "members" => /\ q.kind \in {"add_member", "remove_member"} /\ groups' = GroupsAfter(q)
                              /\ UNCHANGED names /\ Bearers(q.member) # {}
      /\ phase \in {"scenes", "options"} => UNCHANGED <<groups, names>>
  BY ServedGroups
<1> HIDE DEF q
<1>2. MembersInv  BY DEF PassInv, Progress
<1>3. Bridge  BY DEF PassInv
<1>4. ASSUME phase = "members", NEW i \in DOMAIN Rooms, NEW h \in groups', h.name = Rooms[i].name
      PROVE  /\ \A d \in MembersOf(Rooms[i]) \ h.members :
                  \E r \in Range(todo') : r.kind = "add_member" /\ r.group = h.name /\ r.member = Wanted[d]
             /\ \A m \in Rooms[i].members \ Range(names) :
                  \E r \in Range(todo') : r.kind = "add_member" /\ r.group = h.name /\ r.member = m
             /\ prune => \A d \in h.members \ (MembersOf(Rooms[i]) \cup Impostors) :
                  \E r \in Range(todo') :
                    r.kind = "remove_member" /\ r.group = h.name /\ r.member = MemberKey(d)
  <2>1. PICK g \in groups : EditedFrom(q, g, h)  BY <1>1, <1>3, <1>4, MemberEdit
  <2>2. g.name = Rooms[i].name /\ h.name = g.name /\ g.members \subseteq DOMAIN names
    BY <1>3, <1>4, <2>1 DEF EditedFrom, Bridge
  <2>3. NamesFit  BY <1>4 DEF PassInv, NamesInv, FromDescribe
  <2>4. /\ \A d \in MembersOf(Rooms[i]) \ g.members : \E r \in Adds(g.name) : r.member = Wanted[d]
        /\ \A m \in Rooms[i].members \ Range(names) : \E r \in Adds(g.name) : r.member = m
        /\ prune => \A d \in g.members \ (MembersOf(Rooms[i]) \cup Impostors) :
                      \E r \in Removes(g.name) : r.member = MemberKey(d)
    BY <1>1, <1>2, <1>4, <2>2 DEF MembersInv
  <2>5. CASE g.name # q.group
    <3>1. h = g  BY <2>1, <2>5 DEF EditedFrom
    <3>2. \A r \in Range(todo) : r.group = g.name => r \in Range(todo')  BY <1>1, <2>5
    <3>3. QED  BY <2>4, <3>1, <3>2 DEF Adds, Removes
  <2>6. CASE g.name = q.group /\ q.kind = "add_member"
    <3>1. h.members = g.members \cup Bearers(q.member)  BY <2>1, <2>6 DEF EditedFrom
    <3>2. q.member \in Rooms[i].members  BY <1>1, <2>2, <2>6 DEF PassInv, RequestsFit
    <3>3. /\ Bearers(q.member) \subseteq MembersOf(Rooms[i]) \cup Impostors
          /\ \A d \in MembersOf(Rooms[i]) : Wanted[d] = q.member => d \in Bearers(q.member)
          /\ q.member \in Range(names)
      BY <1>1, <1>3, <1>4, <2>3, <3>2, AddedMembers
    <3>4. \A r \in Range(todo) : r.kind = "remove_member" \/ r.member # q.member => r \in Range(todo')
      BY <1>1, <2>6
    <3>5. ASSUME NEW d \in MembersOf(Rooms[i]) \ h.members
          PROVE  \E r \in Range(todo') : r.kind = "add_member" /\ r.group = h.name /\ r.member = Wanted[d]
      <4>1. d \notin g.members /\ Wanted[d] # q.member  BY <3>1, <3>3, <3>5
      <4>2. QED  BY <2>2, <2>4, <3>4, <4>1 DEF Adds
    <3>6. ASSUME NEW m \in Rooms[i].members \ Range(names)
          PROVE  \E r \in Range(todo') : r.kind = "add_member" /\ r.group = h.name /\ r.member = m
      BY <2>2, <2>4, <3>3, <3>4 DEF Adds
    <3>7. ASSUME prune, NEW d \in h.members \ (MembersOf(Rooms[i]) \cup Impostors)
          PROVE  \E r \in Range(todo') :
                   r.kind = "remove_member" /\ r.group = h.name /\ r.member = MemberKey(d)
      <4>1. d \in g.members  BY <3>1, <3>3, <3>7
      <4>2. QED  BY <2>2, <2>4, <3>4, <3>7, <4>1 DEF Removes
    <3>8. QED  BY <3>5, <3>6, <3>7
  <2>7. CASE g.name = q.group /\ q.kind = "remove_member"
    <3>1. h.members = g.members \ Bearers(q.member)  BY <2>1, <2>7 DEF EditedFrom
    <3>2. q.member \notin Rooms[i].members  BY <1>1, <2>2, <2>7 DEF PassInv, RequestsFit
    <3>3. PICK e \in DOMAIN names : q.member = MemberKey(e)
      BY <1>1, <2>7 DEF PassInv, RequestsFit
    <3>4. /\ \A d \in MembersOf(Rooms[i]) : d \notin Bearers(q.member)
          /\ \A d \in DOMAIN names : MemberKey(d) = q.member => d \in Bearers(q.member)
      BY <1>3, <2>3, <3>2, <3>3, RemovedMembers
    <3>5. \A r \in Range(todo) : r.kind = "add_member" \/ r.member # q.member => r \in Range(todo')
      BY <1>1, <2>7
    <3>6. \A d \in MembersOf(Rooms[i]) \ h.members : d \notin g.members  BY <3>1, <3>4
    <3>7. \A d \in h.members : d \in g.members /\ MemberKey(d) # q.member  BY <2>2, <3>1, <3>4
    <3>8. QED  BY <2>2, <2>4, <3>5, <3>6, <3>7 DEF Adds, Removes
  <2>8. QED  BY <1>1, <1>4, <2>5, <2>6, <2>7
<1>5. phase \in FromScenes => phase \in {"scenes", "options"}
  BY <1>1 DEF FromScenes, FromMembers, FromCreate, FromRename, FromDescribe, Working
<1>6. phase \in FromScenes =>
        \A i \in DOMAIN Rooms : \A g \in groups' : g.name = Rooms[i].name =>
          /\ MembersOf(Rooms[i]) \subseteq g.members
          /\ Rooms[i].members \subseteq Range(names)
          /\ prune => g.members \subseteq MembersOf(Rooms[i]) \cup Impostors
  BY <1>1, <1>2, <1>5 DEF MembersInv
<1>7. \A n : /\ Adds(n)' = {r \in Range(todo') : r.kind = "add_member" /\ r.group = n}
             /\ Removes(n)' = {r \in Range(todo') : r.kind = "remove_member" /\ r.group = n}
  BY DEF Adds, Removes
<1>8. phase' = phase /\ prune' = prune /\ (phase = "members" \/ phase \in FromScenes => names' = names)
  BY <1>1, <1>5
<1>9. phase = "members" =>
        \A i \in DOMAIN Rooms : \A g \in groups' : g.name = Rooms[i].name =>
          /\ \A d \in MembersOf(Rooms[i]) \ g.members : \E r \in Adds(g.name)' : r.member = Wanted[d]
          /\ \A m \in Rooms[i].members \ Range(names) : \E r \in Adds(g.name)' : r.member = m
          /\ prune => \A d \in g.members \ (MembersOf(Rooms[i]) \cup Impostors) :
                        \E r \in Removes(g.name)' : r.member = MemberKey(d)
  BY <1>4, <1>7
<1>10. QED  BY <1>6, <1>8, <1>9 DEF MembersInv, MembersOf, Impostors

LEMMA ServedScenes ==
  ASSUME PassInv, Served, ~unseen
  PROVE  ScenesInv'
<1> DEFINE q == Head(todo)
<1>1. /\ step = "issue" /\ step' = "issue" /\ phase \in Working /\ UNCHANGED <<phase, snap>>
      /\ Range(todo) = {q} \cup Range(todo')
      /\ phase = "scenes" => scened' = scened \cup {q.group}
      /\ phase # "scenes" => UNCHANGED scened
  BY ServedGroups
<1> HIDE DEF q
<1>2. ScenesInv  BY DEF PassInv, Progress
<1>3. phase = "scenes" =>
        \A i \in DOMAIN Rooms : Rooms[i].scenes /\ Rooms[i].name \in GroupNames(snap) =>
          Rooms[i].name \in scened' \/ \E r \in Range(todo') : r.group = Rooms[i].name
  BY <1>1, <1>2 DEF ScenesInv
<1>4. phase \in FromOptions => \A i \in DOMAIN Rooms : Rooms[i].scenes => Rooms[i].name \in scened'
  BY <1>1, <1>2 DEF ScenesInv
<1>5. QED  BY <1>1, <1>3, <1>4 DEF ScenesInv, GroupNames

LEMMA ServedStep == PassInv /\ Served => PassInv'
<1> SUFFICES ASSUME PassInv, Served PROVE PassInv'
  OBVIOUS
<1>1. /\ todo # <<>> /\ todo' = Tail(todo) /\ CarryOut(Head(todo))
      /\ UNCHANGED <<cache, phase, step, snap, prune, unseen>>
  BY DEF Served, budget
<1>2. Head(todo) \in Range(todo) /\ Schedule' /\ RequestsFit'
  BY <1>1, TakenRequest, SameDevices DEF PassInv
<1>3. unseen' \in BOOLEAN  BY <1>1 DEF PassInv, Bridge
<1>4. Bridge'  BY <1>1, <1>2, <1>3, CarryOutKeepsBridge DEF PassInv
<1>5. CacheInv'  BY <1>1, CarryOutKeepsCache DEF PassInv
<1>6. NamesInv' /\ AttributesInv' /\ Fresh'  BY ServedNames, ServedFresh
<1>7. Progress'
  <2>1. ASSUME ~unseen PROVE PruneInv' /\ CreateInv' /\ MembersInv' /\ ScenesInv'
    BY <2>1, ServedRooms, ServedMembers, ServedScenes
  <2>2. QED  BY <1>1, <2>1 DEF Progress
<1>8. QED  BY <1>2, <1>4, <1>5, <1>6, <1>7 DEF PassInv

-----------------------------------------------------------------------------
(* The invariant and what it means for a pass that succeeds *)

LEMMA PassInitially == Init => PassInv
<1> SUFFICES ASSUME Init PROVE PassInv
  OBVIOUS
<1>1. phase = "idle" /\ step = "issue" /\ todo = <<>>  BY DEF Init
<1>2. Range(todo) = {} /\ todo \in Seq(Range(todo))  BY <1>1, EmptyTodo
<1>3. Bridge
  <2>1. names \in [DOMAIN names -> Range(names)] /\ \E ns \in StartNames : DOMAIN ns = DOMAIN names
    BY ProvisionAssumption DEF ProvisionAssumption, Init
  <2>2. GroupList(groups) /\ \A g \in groups : g.members \subseteq DOMAIN names
    BY ProvisionAssumption DEF ProvisionAssumption, Init, GroupList, GroupOK
  <2>3. GroupList({})  BY FS_EmptySet DEF GroupList
  <2>4. \A gs \in cache \cup {groups, snap} : GroupList(gs) /\ \A g \in gs : g.members \subseteq DOMAIN names
    BY <2>2, <2>3 DEF Init
  <2>5. QED  BY <2>1, <2>4 DEF Bridge, Init
<1>4. Schedule  BY <1>1, <1>2 DEF Schedule, Idle
<1>5. phase \notin FromDescribe /\ phase \notin FromOptions  BY <1>1 DEF FromDescribe, FromOptions
<1>6. phase \notin FromScenes /\ phase \notin FromMembers /\ phase \notin FromCreate /\ phase \notin FromRename
  BY <1>5 DEF FromScenes, FromMembers, FromCreate, FromRename
<1>7. NamesInv /\ AttributesInv  BY <1>1, <1>2, <1>5, <1>6 DEF NamesInv, AttributesInv
<1>8. CacheInv /\ Fresh  BY <1>1 DEF CacheInv, Fresh, Init
<1>9. RequestsFit  BY <1>2 DEF RequestsFit
<1>10. PruneInv /\ CreateInv /\ MembersInv /\ ScenesInv
  BY <1>1, <1>5, <1>6 DEF PruneInv, CreateInv, MembersInv, ScenesInv
<1>11. QED  BY <1>3, <1>4, <1>7, <1>8, <1>9, <1>10 DEF PassInv, Progress

LEMMA PassStep == PassInv /\ [Next]_vars => PassInv'
<1> SUFFICES ASSUME PassInv, [Next]_vars PROVE PassInv'
  OBVIOUS
<1>1. CASE Work
  BY <1>1, BeginStep, ProceedStep, FetchHitStep, FetchMissStep, FetchWokenStep, FetchTimeoutStep,
     MakePlanStep, ServedStep, KillStep DEF Work
<1>2. CASE Deliver  BY <1>2, DeliverStep
<1>3. CASE TimedOut  BY <1>3, TimedOutStep
<1>4. CASE SceneRejected  BY <1>4, SceneRejectedStep
<1>5. CASE PublishLost  BY <1>5, PublishLostStep
<1>6. CASE Kill  BY <1>6, KillStep
<1>7. CASE UNCHANGED vars
  <2> USE <1>7 DEF vars, z2m, pass, budget
  <2>1. Bridge' /\ Schedule' /\ CacheInv' /\ Fresh'
    BY DEF PassInv, Bridge, Schedule, CacheInv, Fresh
  <2>2. NamesInv' /\ AttributesInv' /\ RequestsFit' /\ Progress'
    BY QuietStep DEF PassInv, Done
  <2>3. QED  BY <2>1, <2>2 DEF PassInv
<1>8. QED  BY <1>1, <1>2, <1>3, <1>4, <1>5, <1>6, <1>7 DEF Next

\* At the end of a pass nothing is left to do.
LEMMA PassDone == PassInv => SuccessMeansProvisioned
<1> SUFFICES ASSUME PassInv, phase = "done", ~unseen PROVE Provisioned
  BY DEF SuccessMeansProvisioned
<1>1. /\ phase \in FromDescribe /\ phase \in FromRename /\ phase \in FromCreate
      /\ phase \in FromMembers /\ phase \in FromScenes /\ phase \in FromOptions
  BY DEF FromDescribe, FromRename, FromCreate, FromMembers, FromScenes, FromOptions
<1>2. PruneInv /\ CreateInv /\ MembersInv /\ ScenesInv  BY DEF PassInv, Progress
<1>3. NamesFit  BY <1>1 DEF PassInv, NamesInv
<1>4. Optioned \cap DOMAIN names \subseteq described \cap tuned  BY <1>1 DEF PassInv, AttributesInv
<1>5. \A i \in DOMAIN Rooms : Rooms[i].name \in GroupNames(groups)  BY <1>1, <1>2 DEF CreateInv
<1>6. ASSUME NEW i \in DOMAIN Rooms
      PROVE  /\ Rooms[i].members \subseteq Range(names)
             /\ \E g \in groups : /\ g.name = Rooms[i].name
                                  /\ MembersOf(Rooms[i]) \subseteq g.members
                                  /\ prune => g.members \subseteq MembersOf(Rooms[i]) \cup Impostors
                                  /\ Rooms[i].scenes => g.name \in scened
  <2>1. PICK g \in groups : g.name = Rooms[i].name  BY <1>5 DEF GroupNames
  <2>2. /\ MembersOf(Rooms[i]) \subseteq g.members
        /\ Rooms[i].members \subseteq Range(names)
        /\ prune => g.members \subseteq MembersOf(Rooms[i]) \cup Impostors
    BY <1>1, <1>2, <2>1 DEF MembersInv
  <2>3. Rooms[i].scenes => g.name \in scened  BY <1>1, <1>2, <2>1 DEF ScenesInv
  <2>4. QED  BY <2>1, <2>2, <2>3
<1>7. prune => GroupNames(groups) = RoomNames
  <2>1. prune => GroupNames(groups) \subseteq RoomNames  BY <1>1, <1>2 DEF PruneInv
  <2>2. RoomNames \subseteq GroupNames(groups)  BY <1>5 DEF RoomNames
  <2>3. QED  BY <2>1, <2>2
<1>8. QED  BY <1>3, <1>4, <1>6, <1>7 DEF Provisioned

\* While a phase issues its requests, what the configuration asks for, of the
\* devices that are paired, is there or still requested; once they are through it
\* is there, and stays (reconcile and what it calls).
THEOREM PassInvariant == Spec => []PassInv
<1>1. QED  BY PassInitially, PassStep, PTL DEF Spec

\* A pass that reports success has set up the names of all paired devices, the
\* groups, members and scenes of all rooms, and the descriptions and options of
\* what is paired (reconcile), for any configuration, any devices, names and
\* groups found, foreign ones among them, and any faults and half-done passes
\* before.  Every room member is then the name of a paired device.
THEOREM SuccessProvisions == Spec => []SuccessMeansProvisioned
<1>1. QED  BY PassInvariant, PassDone, PTL

-----------------------------------------------------------------------------
(***************************************************************************)
(* A pass without faults fails only where the bridge's groups clash, where *)
(* a foreign device has a wanted name or a room member is not paired, or   *)
(* where the group list it waits for is not coming.                        *)
(*                                                                         *)
(* The invariant says of the requests still to be issued that each of them *)
(* will be accepted when its turn comes: no configured device has the name *)
(* it takes, or one before it gives it up, and no other request of the     *)
(* phase takes what it needs; a foreign device with that name, or a member *)
(* that is not paired, is all that can be in the way.  Of the group list   *)
(* it says where it can be: in the cache, on its way, or taken by a        *)
(* "fresh" read.                                                           *)
(***************************************************************************)

\* Devices have different names, and none has the temporary name of another.
NamesApart ==
  /\ \A d, e \in DOMAIN names : d # e => names[d] # names[e]
  /\ \A e \in Ds : \A d \in DOMAIN names \ {e} : names[d] # Tmp(e)

\* A configured device that bears the name another is about to get moves out of
\* the way first.
Unblocked(s) ==
  \A i \in DOMAIN s : \A d \in (Ds \cap DOMAIN names) \ {s[i].dev} :
    names[d] = s[i].to => \E j \in DOMAIN s : j < i /\ s[j].dev = d

\* A paired device gets its name, or its temporary one.
Renames(q) == q.dev \in Ds \cap DOMAIN names /\ q.to \in {Tmp(q.dev), Wanted[q.dev]}

NamesReady ==
  phase = "names" /\ step = "issue" =>
    /\ \A q \in Range(todo) : Renames(q)
    /\ Unblocked(todo)

\* Two requests of a phase do not need or take the same name or id.
Apart(q, r) ==
  /\ q.kind = "rename_group" => q.from # r.from /\ q.to # r.to
  /\ q.kind = "remove_group" => q.name # r.name
  /\ q.kind = "add_group" => q.name # r.name /\ q.id # r.id

\* The bridge accepts a request, but for a member that is not paired.
Acceptable(q) ==
  IF q.kind = "add_member"
    THEN Named(q.group) # {} /\ (Bearers(q.member) # {} \/ Unpaired)
    ELSE Possible(q)

Ready(s) ==
  /\ \A i \in DOMAIN s : Acceptable(s[i])
  /\ \A i, j \in DOMAIN s : i # j => Apart(s[i], s[j])

\* A request renames a group with a room's id to that room's name.
RenamesRoom(q) ==
  /\ q.at \in DOMAIN Rooms /\ q.to = Rooms[q.at].name
  /\ \A g \in Named(q.from) : g.id = Rooms[q.at].id

\* A group with a room's id has the room's name, or is about to get it.
IdsAgree ==
  /\ phase = "rename" /\ step = "issue" =>
       /\ \A q \in Range(todo) : RenamesRoom(q)
       /\ \A i \in DOMAIN Rooms : \A g \in groups : g.id = Rooms[i].id =>
            g.name = Rooms[i].name \/ \E q \in Range(todo) : q.from = g.name
  /\ phase = "prune" \/ (phase = "create" /\ step # "issue") =>
       \A i \in DOMAIN Rooms : \A g \in groups : g.id = Rooms[i].id => g.name = Rooms[i].name

GroupsReady ==
  ~unseen =>
    /\ phase \in {"rename", "prune", "create", "members"} /\ step = "issue" => Ready(todo)
    /\ phase = "scenes" /\ step \in {"plan", "issue"} => snap = groups
    /\ IdsAgree

\* Where the group list is that a phase waits for
ListInv ==
  /\ step \in {"fetch", "wait"} =>
       phase \in {"rename", "prune", "create", "members", "scenes"} /\ Reads(phase) # "no"
  /\ phase \in {"zwave", "names", "describe", "rename"} => due \/ cache # {}
  /\ phase = "prune" \/ (phase = "create" /\ step # "issue") => did \subseteq {"rename_group", "remove_group"}
  /\ phase = "create" \/ (phase = "members" /\ step # "issue") =>
       did \subseteq {"rename_group", "remove_group", "add_group"}
  /\ did = {} /\ (phase \in {"prune", "create", "members", "scenes"}
                  \/ (phase = "rename" /\ step \in {"plan", "issue"})) => cache # {}
  /\ phase \in {"create", "members"} /\ "add_group" \in did => due \/ cache # {}
  /\ step = "wait" /\ Reads(phase) = "fresh" => due \/ cache # {}

CleanInv == /\ NamesApart /\ NamesReady
            /\ Unique(groups) /\ GroupsReady
            /\ ListInv /\ CleanPassSucceeds

-----------------------------------------------------------------------------
(* What a request leaves of names and groups *)

\* Devices are not renamed to the same name.
LEMMA TargetsApart ==
  ASSUME NEW d \in Ds, NEW e \in Ds, d # e,
         NEW a \in {Tmp(d), Wanted[d]}, NEW b \in {Tmp(e), Wanted[e]}
  PROVE  a # b
<1>1. Tmp(d) # Tmp(e)  BY DEF Tmp
<1>2. Wanted[d] # Tmp(e) /\ Wanted[e] # Tmp(d)  BY TmpReserved
<1>3. Wanted[d] # Wanted[e]  BY ProvisionAssumption DEF ProvisionAssumption, IsInjective
<1>4. QED  BY <1>1, <1>2, <1>3

LEMMA RenamedApart ==
  ASSUME names \in [DOMAIN names -> Range(names)], NamesApart,
         NEW q, q.kind = "rename_device", Renames(q),
         Possible(q), names' = [names EXCEPT ![q.dev] = q.to]
  PROVE  NamesApart'
<1>1. /\ DOMAIN names' = DOMAIN names
      /\ \A d \in DOMAIN names : names'[d] = IF d = q.dev THEN q.to ELSE names[d]
  OBVIOUS
<1>2. \A d \in DOMAIN names \ {q.dev} : names[d] # q.to  BY DEF Possible
<1>3. \A e \in Ds : e # q.dev => q.to # Tmp(e)  BY TargetsApart DEF Renames
<1>4. \A d, e \in DOMAIN names : d # e => names'[d] # names'[e]
  BY <1>1, <1>2 DEF NamesApart
<1>5. \A e \in Ds : \A d \in DOMAIN names \ {e} : names'[d] # Tmp(e)
  BY <1>1, <1>3 DEF NamesApart
<1>6. QED  BY <1>1, <1>4, <1>5 DEF NamesApart, Tmp

\* Who is in the way of a request depends on names only.
LEMMA SameNames ==
  ASSUME UNCHANGED names
  PROVE  /\ Taken' = Taken /\ Unpaired' = Unpaired
         /\ \A m : Bearers(m)' = Bearers(m)
BY DEF Taken, Unpaired, ForeignNames, Bearers

\* A group after a request that renames it or edits its members
Editing == {"rename_group", "add_member", "remove_member"}

Edited(q, g) ==
  IF q.kind = "rename_group"
    THEN IF g.name = q.from THEN [g EXCEPT !.name = q.to] ELSE g
    ELSE IF g.name = q.group
           THEN [g EXCEPT !.members = IF q.kind = "add_member" THEN @ \cup Bearers(q.member)
                                                               ELSE @ \ Bearers(q.member)]
           ELSE g

LEMMA EditedGroups ==
  ASSUME GroupList(groups), NEW q, q.kind \in Editing
  PROVE  /\ GroupsAfter(q) = {Edited(q, g) : g \in groups}
         /\ \A g \in groups : Edited(q, g).id = g.id
         /\ \A g \in groups : Edited(q, g).name = IF q.kind = "rename_group" /\ g.name = q.from THEN q.to ELSE g.name
<1>1. CASE q.kind = "rename_group"
  <2>1. \A g \in groups : Edited(q, g) = IF g.name = q.from THEN [g EXCEPT !.name = q.to] ELSE g
    BY <1>1 DEF Edited
  <2>2. GroupsAfter(q) = (groups \ Named(q.from)) \cup {[g EXCEPT !.name = q.to] : g \in Named(q.from)}
    BY <1>1, GroupsAfterRequest
  <2>3. GroupsAfter(q) = {Edited(q, g) : g \in groups}  BY <2>1, <2>2 DEF Named
  <2>4. \A g \in groups : /\ [g EXCEPT !.name = q.to].id = g.id
                          /\ [g EXCEPT !.name = q.to].name = q.to
    BY DEF GroupList, GroupOK
  <2>5. QED  BY <1>1, <2>1, <2>3, <2>4
<1>2. CASE q.kind # "rename_group"
  <2> DEFINE D == Bearers(q.member)
             M(g) == [g EXCEPT !.members = IF q.kind = "add_member" THEN @ \cup D ELSE @ \ D]
  <2>1. \A g \in groups : Edited(q, g) = IF g.name = q.group THEN M(g) ELSE g
    BY <1>2 DEF Edited
  <2>2. GroupsAfter(q) = (groups \ Named(q.group)) \cup {M(g) : g \in Named(q.group)}
    BY <1>2, GroupsAfterRequest DEF Editing
  <2>3. \A g \in groups : M(g).id = g.id /\ M(g).name = g.name  BY DEF GroupList, GroupOK
  <2> HIDE DEF M
  <2>4. GroupsAfter(q) = {Edited(q, g) : g \in groups}  BY <2>1, <2>2 DEF Named
  <2>5. QED  BY <1>2, <2>1, <2>3, <2>4
<1>3. QED  BY <1>1, <1>2

\* Ids and names of groups stay unique.
LEMMA UniqueAfter ==
  ASSUME GroupList(groups), Unique(groups), NEW q, Possible(q)
  PROVE  Unique(GroupsAfter(q))
<1>1. CASE q.kind \in Editing
  <2>1. /\ GroupsAfter(q) = {Edited(q, g) : g \in groups}
        /\ \A g \in groups : Edited(q, g).id = g.id
        /\ \A g \in groups : Edited(q, g).name = IF q.kind = "rename_group" /\ g.name = q.from THEN q.to ELSE g.name
    BY <1>1, EditedGroups
  <2>2. q.kind = "rename_group" => \A g \in groups : g.name # q.to  BY DEF Possible, Named
  <2>3. ASSUME NEW g \in groups, NEW h \in groups,
               Edited(q, g).id = Edited(q, h).id \/ Edited(q, g).name = Edited(q, h).name
        PROVE  g = h
    BY <2>1, <2>2, <2>3 DEF Unique
  <2>4. QED  BY <2>1, <2>3 DEF Unique
<1>2. CASE q.kind = "remove_group"
  BY <1>2, GroupsAfterRequest DEF Unique
<1>3. CASE q.kind = "add_group"
  <2> DEFINE new == [id |-> q.id, name |-> q.name, members |-> {}]
  <2>1. GroupsAfter(q) = groups \cup {new}  BY <1>3, GroupsAfterRequest
  <2>2. \A g \in groups : g.name # q.name /\ g.id # q.id  BY <1>3 DEF Possible, Named
  <2>3. new.id = q.id /\ new.name = q.name  OBVIOUS
  <2> HIDE DEF new
  <2>4. QED  BY <2>1, <2>2, <2>3 DEF Unique
<1>4. CASE q.kind \notin GroupKinds  BY <1>4, GroupsAfterRequest
<1>5. QED  BY <1>1, <1>2, <1>3, <1>4 DEF GroupKinds, Editing

\* A request leaves the others of its phase possible.
LEMMA StaysAcceptable ==
  ASSUME GroupList(groups), NEW p \in {"rename", "prune", "create", "members"},
         NEW q, NEW r, q.kind \in KindsOf(p), r.kind \in KindsOf(p),
         Possible(q), Acceptable(r), Apart(q, r), groups' = GroupsAfter(q), UNCHANGED names
  PROVE  Acceptable(r)'
<1>0. r.kind # "add_member" => Possible(r) /\ (Possible(r)' => Acceptable(r)')  BY DEF Acceptable
<1>1. CASE p = "rename"
  <2>1. q.kind = "rename_group" /\ r.kind = "rename_group"  BY <1>1 DEF KindsOf
  <2>2. /\ groups' = {Edited(q, g) : g \in groups}
        /\ \A g \in groups : Edited(q, g).name = IF g.name = q.from THEN q.to ELSE g.name
    BY <2>1, EditedGroups DEF Editing
  <2>3. q.from # r.from /\ q.to # r.to  BY <2>1 DEF Apart
  <2>4. (\E g \in groups : g.name = r.from) /\ \A g \in groups : g.name # r.to
    BY <1>0, <2>1 DEF Possible, Named
  <2>5. (\E g \in groups' : g.name = r.from) /\ \A g \in groups' : g.name # r.to
    BY <2>2, <2>3, <2>4
  <2>6. Possible(r)'  BY <2>1, <2>5 DEF Possible, Named
  <2>7. QED  BY <1>0, <2>1, <2>6
<1>2. CASE p = "prune"
  <2>1. q.kind = "remove_group" /\ r.kind = "remove_group"  BY <1>2 DEF KindsOf
  <2>2. groups' = groups \ Named(q.name)  BY <2>1, GroupsAfterRequest
  <2>3. q.name # r.name  BY <2>1 DEF Apart
  <2>4. \E g \in groups : g.name = r.name  BY <1>0, <2>1 DEF Possible, Named
  <2>5. \E g \in groups' : g.name = r.name  BY <2>2, <2>3, <2>4 DEF Named
  <2>6. Possible(r)'  BY <2>1, <2>5 DEF Possible, Named
  <2>7. QED  BY <1>0, <2>1, <2>6
<1>3. CASE p = "create"
  <2> DEFINE new == [id |-> q.id, name |-> q.name, members |-> {}]
  <2>1. q.kind = "add_group" /\ r.kind = "add_group"  BY <1>3 DEF KindsOf
  <2>2. groups' = groups \cup {new}  BY <2>1, GroupsAfterRequest
  <2>3. new.id = q.id /\ new.name = q.name  OBVIOUS
  <2> HIDE DEF new
  <2>4. q.name # r.name /\ q.id # r.id  BY <2>1 DEF Apart
  <2>5. \A g \in groups : g.name # r.name /\ g.id # r.id  BY <1>0, <2>1 DEF Possible, Named
  <2>6. \A g \in groups' : g.name # r.name /\ g.id # r.id  BY <2>2, <2>3, <2>4, <2>5
  <2>7. Possible(r)'  BY <2>1, <2>6 DEF Possible, Named
  <2>8. QED  BY <1>0, <2>1, <2>7
<1>4. CASE p = "members"
  <2>1. q.kind \in {"add_member", "remove_member"} /\ r.kind \in {"add_member", "remove_member"}
    BY <1>4 DEF KindsOf
  <2>2. /\ groups' = {Edited(q, g) : g \in groups}
        /\ \A g \in groups : Edited(q, g).name = g.name
    BY <2>1, EditedGroups DEF Editing
  <2>3. \E g \in groups : g.name = r.group  BY <2>1 DEF Acceptable, Possible, Named
  <2>4. \E g \in groups' : g.name = r.group  BY <2>2, <2>3
  <2>5. Named(r.group)' # {}  BY <2>4 DEF Named
  <2>6. Bearers(r.member)' = Bearers(r.member) /\ Unpaired' = Unpaired  BY SameNames
  <2>7. CASE r.kind = "add_member"  BY <2>5, <2>6, <2>7 DEF Acceptable
  <2>8. CASE r.kind = "remove_member"
    <3>1. Bearers(r.member) # {}  BY <1>0, <2>8 DEF Possible
    <3>2. Possible(r)'  BY <2>5, <2>6, <2>8, <3>1 DEF Possible
    <3>3. QED  BY <1>0, <2>8, <3>2
  <2>9. QED  BY <2>1, <2>7, <2>8
<1>5. QED  BY <1>1, <1>2, <1>3, <1>4

-----------------------------------------------------------------------------
(* Plans that the bridge accepts *)

\* A configured device that bears a name that is wanted is itself to be renamed.
LEMMA HolderMoves ==
  ASSUME NEW i \in Plan(names), NEW d \in (Ds \cap DOMAIN names) \ {Devices[i]},
         names[d] = Wanted[Devices[i]]
  PROVE  \E q \in TmpRenames(names) : q.dev = d
<1>1. PICK h \in DOMAIN Devices : Devices[h] = d  BY DEF Ds, Range
<1>2. i \in DOMAIN Devices /\ Devices[i] \in Ds  BY DEF Plan, Ds, Range
<1>3. h # i  BY <1>1
<1>4. Wanted[d] # Wanted[Devices[i]]
  BY <1>2, ProvisionAssumption DEF ProvisionAssumption, IsInjective
<1>5. h \in Holder(names, i)  BY <1>1, <1>3, <1>4 DEF Plan, Holder
<1>6. RenameDevice(i, Devices[h], Tmp(Devices[h])) \in TmpRenames(names)  BY <1>5 DEF TmpRenames
<1>7. QED  BY <1>1, <1>6 DEF RenameDevice

LEMMA NamePlanReady ==
  ASSUME NamesApart, NEW s \in Plans("names")
  PROVE  (\A q \in Range(s) : Renames(q)) /\ Unblocked(s)
<1>1. PICK t \in InOrder(TmpRenames(names)), f \in InOrder(FinalRenames(names)) : s = t \o f
  BY DEF Plans
<1>2. t \in Seq(Range(t)) /\ Range(t) = TmpRenames(names)  BY FiniteRenames, Listing DEF InOrder
<1>3. f \in Seq(Range(f)) /\ Range(f) = FinalRenames(names)  BY FiniteRenames, Listing DEF InOrder
<1> DEFINE R == TmpRenames(names)
           F == FinalRenames(names)
           m == Len(t)
           n == Len(f)
<1>4. \A q \in R : q.dev \in Ds \cap DOMAIN names /\ q.to = Tmp(q.dev)
  BY DEF TmpRenames, RenameDevice, Holder, Plan, Ds, Range
<1>5. \A q \in F : \E i \in Plan(names) :
        q.dev = Devices[i] /\ q.dev \in Ds \cap DOMAIN names /\ q.to = Wanted[q.dev]
  BY DEF FinalRenames, RenameDevice, Plan, Ds, Range
<1> HIDE DEF R, F
<1>6. t \in Seq(R) /\ f \in Seq(F)  BY <1>2, <1>3 DEF R, F
<1>7. /\ m \in Nat /\ n \in Nat /\ DOMAIN t = 1..m /\ DOMAIN f = 1..n /\ DOMAIN s = 1..(m + n)
      /\ \A i \in 1..(m + n) : s[i] = IF i <= m THEN t[i] ELSE f[i - m]
  BY <1>1, <1>6
<1> HIDE DEF m, n
<1>8. \A i \in DOMAIN s : i <= m => s[i] = t[i] /\ s[i] \in R  BY <1>6, <1>7
<1>9. \A i \in DOMAIN s : i > m => s[i] \in F  BY <1>6, <1>7
<1>10. \A i \in DOMAIN s : i \in Nat /\ (i <= m \/ i > m)  BY <1>7
<1>11. \A q \in Range(s) : Renames(q)
  BY <1>4, <1>5, <1>8, <1>9, <1>10 DEF Range, Renames
<1>12. ASSUME NEW i \in DOMAIN s, NEW d \in (Ds \cap DOMAIN names) \ {s[i].dev}, names[d] = s[i].to
       PROVE  \E j \in DOMAIN s : j < i /\ s[j].dev = d
  <2>1. CASE i <= m
    <3>1. s[i].dev \in Ds /\ s[i].to = Tmp(s[i].dev)  BY <2>1, <1>4, <1>8
    <3>2. QED  BY <3>1, <1>12 DEF NamesApart
  <2>2. CASE i > m
    <3>1. PICK k \in Plan(names) : s[i].dev = Devices[k] /\ s[i].to = Wanted[Devices[k]]
      BY <2>2, <1>5, <1>9
    <3>2. PICK q \in R : q.dev = d  BY <3>1, <1>12, HolderMoves DEF R
    <3>3. PICK j \in DOMAIN t : t[j] = q  BY <1>2, <3>2 DEF Range, R
    <3>4. j \in DOMAIN s /\ j <= m /\ j < i  BY <3>3, <2>2, <1>7
    <3>5. s[j] = q  BY <3>3, <3>4, <1>8
    <3>6. QED  BY <3>2, <3>4, <3>5
  <2>3. QED  BY <2>1, <2>2, <1>10
<1>13. QED  BY <1>11, <1>12 DEF Unblocked

\* A plan of group requests asks for nothing twice.
LEMMA GroupPlan ==
  ASSUME GroupList(snap), NEW p \in {"rename", "prune", "create", "members"}, NEW s \in Plans(p)
  PROVE  /\ s \in Seq(Range(s)) /\ Range(s) \subseteq RequestsOf(p)
         /\ \A i, j \in DOMAIN s : s[i] = s[j] => i = j
<1>1. p \in Working \ {"names"}  BY DEF Working
<1>2. s \in Seq(Range(s)) /\ Range(s) = RequestsOf(p)  BY <1>1, PlanIsComplete
<1>3. CASE p = "prune" /\ ~prune
  <2>1. s = <<>>  BY <1>3 DEF Plans
  <2>2. QED  BY <2>1, <1>2, EmptyTodo
<1>4. CASE ~(p = "prune" /\ ~prune)
  <2>1. \A S : InOrder(S) \subseteq SetToSeqs(S)  BY DEF InOrder
  <2>2. s \in SetToSeqs(RequestsOf(p))  BY <2>1, <1>4 DEF Plans, RequestsOf
  <2>3. IsFiniteSet(RequestsOf(p))
    BY FiniteRoomRequests, FiniteMemberRequests, FS_EmptySet DEF RequestsOf
  <2>4. QED  BY <2>2, <2>3, <1>2, Listing
<1>5. QED  BY <1>3, <1>4

\* A group is renamed to the name of the room with its id.
LEMMA RenameRequests ==
  ASSUME Unique(groups), snap = groups, NEW q \in GroupRenames
  PROVE  /\ q.kind = "rename_group" /\ RenamesRoom(q)
         /\ \E g \in Drifted(Rooms[q.at]) : g \in groups /\ q.from = g.name
         /\ q = [kind |-> "rename_group", at |-> q.at, from |-> q.from, to |-> Rooms[q.at].name]
<1>1. PICK i \in DOMAIN Rooms : \E g \in Drifted(Rooms[i]) :
        q = [kind |-> "rename_group", at |-> i, from |-> g.name, to |-> Rooms[i].name]
  BY DEF GroupRenames
<1>2. PICK g \in Drifted(Rooms[i]) :
        q = [kind |-> "rename_group", at |-> i, from |-> g.name, to |-> Rooms[i].name]
  BY <1>1
<1>3. q.kind = "rename_group" /\ q.at = i /\ q.from = g.name /\ q.to = Rooms[i].name  BY <1>2
<1>4. g \in groups /\ g.id = Rooms[i].id  BY <1>2 DEF Drifted
<1>5. \A h \in Named(q.from) : h.id = Rooms[i].id  BY <1>3, <1>4 DEF Named, Unique
<1>6. RenamesRoom(q)  BY <1>3, <1>5 DEF RenamesRoom
<1>7. QED  BY <1>2, <1>3, <1>4, <1>6

LEMMA RenamePlanReady ==
  ASSUME GroupList(snap), Unique(groups), snap = groups, ~Collision, NEW s \in Plans("rename")
  PROVE  Ready(s) /\ \A q \in Range(s) : RenamesRoom(q)
<1>1. /\ s \in Seq(Range(s)) /\ Range(s) \subseteq RequestsOf("rename")
      /\ \A i, j \in DOMAIN s : s[i] = s[j] => i = j
  BY GroupPlan
<1>2. \A i \in DOMAIN s : s[i] \in GroupRenames  BY <1>1 DEF Range, RequestsOf
<1>3. ASSUME NEW i \in DOMAIN s PROVE Acceptable(s[i])
  <2>1. /\ s[i].kind = "rename_group" /\ RenamesRoom(s[i])
        /\ \E g \in Drifted(Rooms[s[i].at]) : g \in groups /\ s[i].from = g.name
    BY <1>2, RenameRequests
  <2>2. Named(s[i].from) # {}  BY <2>1 DEF Named
  <2>3. Named(s[i].to) = {}  BY <2>1 DEF Named, RenamesRoom, Collision, GroupNames
  <2>4. QED  BY <2>1, <2>2, <2>3 DEF Acceptable, Possible
<1>4. ASSUME NEW i \in DOMAIN s, NEW j \in DOMAIN s, i # j PROVE Apart(s[i], s[j])
  <2> DEFINE q == s[i]
             r == s[j]
  <2>1. q \in GroupRenames /\ r \in GroupRenames /\ q # r  BY <1>1, <1>2, <1>4
  <2> HIDE DEF q, r
  <2>2. /\ q.kind = "rename_group" /\ RenamesRoom(q)
        /\ \E g \in Drifted(Rooms[q.at]) : g \in groups /\ q.from = g.name
        /\ q = [kind |-> "rename_group", at |-> q.at, from |-> q.from, to |-> Rooms[q.at].name]
    BY <2>1, RenameRequests
  <2>3. /\ r.kind = "rename_group" /\ RenamesRoom(r)
        /\ \E g \in Drifted(Rooms[r.at]) : g \in groups /\ r.from = g.name
        /\ r = [kind |-> "rename_group", at |-> r.at, from |-> r.from, to |-> Rooms[r.at].name]
    BY <2>1, RenameRequests
  <2>4. PICK g \in Drifted(Rooms[q.at]) : g \in groups /\ q.from = g.name  BY <2>2
  <2>5. PICK h \in Drifted(Rooms[r.at]) : h \in groups /\ r.from = h.name  BY <2>3
  <2>6. g.id = Rooms[q.at].id /\ h.id = Rooms[r.at].id  BY <2>4, <2>5 DEF Drifted
  <2>7. q.at # r.at
    <3>1. SUFFICES ASSUME q.at = r.at PROVE FALSE
      OBVIOUS
    <3>2. g = h  BY <2>4, <2>5, <2>6, <3>1 DEF Unique
    <3>3. q.from = r.from  BY <3>2, <2>4, <2>5
    <3>4. q = r  BY <3>1, <3>3, <2>2, <2>3
    <3>5. QED  BY <3>4, <2>1
  <2>8. q.at \in DOMAIN Rooms /\ r.at \in DOMAIN Rooms /\ q.to = Rooms[q.at].name /\ r.to = Rooms[r.at].name
    BY <2>2, <2>3 DEF RenamesRoom
  <2>9. q.to # r.to /\ g.id # h.id  BY <2>6, <2>7, <2>8, ProvisionAssumption DEF ProvisionAssumption
  <2>10. q.from # r.from  BY <2>4, <2>5, <2>9 DEF Unique
  <2>11. QED  BY <2>2, <2>9, <2>10 DEF Apart, q, r
<1>5. \A q \in Range(s) : RenamesRoom(q)
  <2>1. \A q \in Range(s) : q \in GroupRenames  BY <1>1 DEF RequestsOf
  <2>2. QED  BY <2>1, RenameRequests
<1>6. QED  BY <1>3, <1>4, <1>5 DEF Ready

LEMMA PrunePlanReady ==
  ASSUME GroupList(snap), snap = groups, NEW s \in Plans("prune")
  PROVE  Ready(s)
<1>1. /\ s \in Seq(Range(s)) /\ Range(s) \subseteq RequestsOf("prune")
      /\ \A i, j \in DOMAIN s : s[i] = s[j] => i = j
  BY GroupPlan
<1>2. RequestsOf("prune") \subseteq Removals  BY DEF RequestsOf
<1>3. \A i \in DOMAIN s : s[i] \in Removals  BY <1>1, <1>2 DEF Range
<1>4. \A q \in Removals : /\ q.kind = "remove_group" /\ q = [kind |-> "remove_group", name |-> q.name]
                          /\ q.name \in GroupNames(groups)
  BY DEF Removals
<1>5. \A q \in Removals : Acceptable(q)  BY <1>4 DEF Acceptable, Possible, Named, GroupNames
<1>6. \A q, r \in Removals : q # r => q.name # r.name  BY <1>4
<1>7. \A q, r \in Removals : q # r => Apart(q, r)  BY <1>4, <1>6 DEF Apart
<1>8. QED  BY <1>1, <1>3, <1>5, <1>7 DEF Ready

LEMMA CreatePlanReady ==
  ASSUME GroupList(snap), snap = groups, NEW s \in Plans("create"),
         \A i \in DOMAIN Rooms : \A g \in groups : g.id = Rooms[i].id => g.name = Rooms[i].name
  PROVE  Ready(s)
<1>1. /\ s \in Seq(Range(s)) /\ Range(s) \subseteq RequestsOf("create")
      /\ \A i, j \in DOMAIN s : s[i] = s[j] => i = j
  BY GroupPlan
<1>2. \A i \in DOMAIN s : s[i] \in Creations  BY <1>1 DEF Range, RequestsOf
<1>3. \A q \in Creations : \E i \in DOMAIN Rooms :
        /\ q = [kind |-> "add_group", at |-> i, name |-> Rooms[i].name, id |-> Rooms[i].id]
        /\ Rooms[i].name \notin GroupNames(groups)
  BY DEF Creations
<1>4. ASSUME NEW q \in Creations PROVE Acceptable(q)
  <2>1. PICK i \in DOMAIN Rooms :
          /\ q = [kind |-> "add_group", at |-> i, name |-> Rooms[i].name, id |-> Rooms[i].id]
          /\ Rooms[i].name \notin GroupNames(groups)
    BY <1>3
  <2>2. q.kind = "add_group" /\ q.name = Rooms[i].name /\ q.id = Rooms[i].id  BY <2>1
  <2>3. \A g \in groups : g.name # Rooms[i].name /\ g.id # Rooms[i].id  BY <2>1 DEF GroupNames
  <2>4. QED  BY <2>2, <2>3 DEF Acceptable, Possible, Named
<1>5. ASSUME NEW q \in Creations, NEW r \in Creations, q # r PROVE Apart(q, r)
  <2>1. PICK i \in DOMAIN Rooms :
          q = [kind |-> "add_group", at |-> i, name |-> Rooms[i].name, id |-> Rooms[i].id]
    BY <1>3
  <2>2. PICK j \in DOMAIN Rooms :
          r = [kind |-> "add_group", at |-> j, name |-> Rooms[j].name, id |-> Rooms[j].id]
    BY <1>3
  <2>3. i # j  BY <2>1, <2>2, <1>5
  <2>4. Rooms[i].name # Rooms[j].name /\ Rooms[i].id # Rooms[j].id
    BY <2>3, ProvisionAssumption DEF ProvisionAssumption
  <2>5. q.kind = "add_group" /\ q.name # r.name /\ q.id # r.id  BY <2>1, <2>2, <2>4
  <2>6. QED  BY <2>5 DEF Apart
<1>6. QED  BY <1>1, <1>2, <1>4, <1>5 DEF Ready

LEMMA MembersPlanReady ==
  ASSUME Bridge, NamesFit, snap = groups, NEW s \in Plans("members")
  PROVE  Ready(s)
<1>1. s \in Seq(Range(s)) /\ Range(s) \subseteq RequestsOf("members")  BY GroupPlan DEF Bridge
<1>2. \A i \in DOMAIN s : s[i] \in MemberRequests  BY <1>1 DEF Range, RequestsOf
<1>3. ASSUME NEW q \in MemberRequests PROVE q.kind \in {"add_member", "remove_member"} /\ Acceptable(q)
  <2>1. PICK j \in DOMAIN Rooms, g \in snap :
          /\ g.name = Rooms[j].name
          /\ \/ q \in MemberDiff("add_member", 2 * j, g.name, Rooms[j].members \ MemberNames(g))
             \/ q \in MemberDiff("remove_member", 2 * j + 1, g.name, MemberNames(g) \ Rooms[j].members)
    BY MemberRequestFrom
  <2>2. /\ q.group = g.name
        /\ \/ q.kind = "add_member" /\ q.member \in Rooms[j].members
           \/ q.kind = "remove_member" /\ q.member \in MemberNames(g)
    BY <2>1 DEF MemberDiff
  <2>3. Named(q.group) # {}  BY <2>2 DEF Named
  <2>4. CASE q.kind = "add_member" /\ q.member \in Rooms[j].members
    <3>1. PICK d \in Ds : q.member = Wanted[d]
      BY <2>4, ProvisionAssumption DEF ProvisionAssumption, Range
    <3>2. d \in DOMAIN names => d \in Bearers(q.member)  BY <3>1 DEF NamesFit, Bearers
    <3>3. q.member \in ForeignNames => Bearers(q.member) # {}  BY DEF ForeignNames, Bearers
    <3>4. d \notin DOMAIN names /\ q.member \notin ForeignNames => Unpaired
      BY <2>4, <3>1 DEF Unpaired
    <3>5. QED  BY <2>3, <2>4, <3>2, <3>3, <3>4 DEF Acceptable
  <2>5. CASE q.kind = "remove_member" /\ q.member \in MemberNames(g)
    <3>1. PICK e \in g.members : q.member = MemberKey(e)  BY <2>5 DEF MemberNames
    <3>2. e \in DOMAIN names  BY DEF Bridge
    <3>3. Bearers(q.member) # {}  BY <3>1, <3>2, KeysFit
    <3>4. QED  BY <2>3, <2>5, <3>3 DEF Acceptable, Possible
  <2>6. QED  BY <2>2, <2>4, <2>5
<1>4. \A i, j \in DOMAIN s : Apart(s[i], s[j])  BY <1>2, <1>3 DEF Apart
<1>5. QED  BY <1>2, <1>3, <1>4 DEF Ready

-----------------------------------------------------------------------------
(* Steps that leave the requests alone, and steps that end the pass *)

LEMMA QuietClean ==
  ASSUME CleanInv, UNCHANGED <<names, groups, phase, todo, did, cause>>, unseen => unseen',
         (step = "issue") <=> (step' = "issue"),
         ~unseen' /\ phase = "scenes" /\ step' \in {"plan", "issue"} => snap' = groups,
         ListInv'
  PROVE  CleanInv'
<1>1. NamesApart' /\ Unique(groups)'  BY DEF CleanInv, NamesApart, Unique, Tmp
<1>2. NamesReady'  BY DEF CleanInv, NamesReady, Unblocked, Renames, Tmp
<1>3. GroupsReady'
  <2>1. Ready(todo) => Ready(todo)'  BY SameNames DEF Ready, Acceptable, Possible, Apart, Named
  <2>2. IdsAgree => IdsAgree'  BY DEF IdsAgree, RenamesRoom, Named
  <2>3. QED  BY <2>1, <2>2 DEF CleanInv, GroupsReady
<1>4. CleanPassSucceeds'  BY SameNames DEF CleanInv, CleanPassSucceeds, Clash, GroupNames
<1>5. QED  BY <1>1, <1>2, <1>3, <1>4 DEF CleanInv

LEMMA FailedClean ==
  ASSUME NEW why, Fail(why), NamesApart', Unique(groups)', CleanPassSucceeds'
  PROVE  CleanInv'
<1>1. phase' = "failed" /\ step' = "issue"  BY DEF Fail
<1>2. NamesReady' /\ ListInv'  BY <1>1 DEF NamesReady, ListInv
<1>3. GroupsReady'  BY <1>1 DEF GroupsReady, IdsAgree
<1>4. QED  BY <1>2, <1>3 DEF CleanInv

\* Names and groups stay as they are.
LEMMA SameBridge ==
  ASSUME CleanInv, UNCHANGED <<names, groups>>
  PROVE  NamesApart' /\ Unique(groups)'
BY DEF CleanInv, NamesApart, Unique, Tmp

LEMMA BeginClean == PassInv /\ CleanInv /\ Begin => CleanInv'
<1> SUFFICES ASSUME CleanInv, Begin PROVE CleanInv'
  OBVIOUS
<1>1. /\ phase' = "zwave" /\ step' = "plan" /\ due' = TRUE /\ UNCHANGED <<names, groups>>
  BY DEF Begin, z2m
<1>2. NamesReady' /\ ListInv' /\ CleanPassSucceeds'  BY <1>1 DEF NamesReady, ListInv, CleanPassSucceeds
<1>3. GroupsReady'  BY <1>1 DEF GroupsReady, IdsAgree
<1>4. QED  BY <1>1, <1>2, <1>3, SameBridge DEF CleanInv

LEMMA DeliverClean == PassInv /\ CleanInv /\ Deliver => CleanInv'
<1> SUFFICES ASSUME CleanInv, Deliver PROVE CleanInv'
  OBVIOUS
<1>1. /\ cache' # {} /\ UNCHANGED <<names, groups, phase, todo, did, cause, step, snap, unseen, prune>>
  BY DEF Deliver, z2m, pass, budget
<1>2. Reads(phase)' = Reads(phase)  BY <1>1 DEF Reads
<1>3. ListInv'  BY <1>1, <1>2 DEF CleanInv, ListInv
<1>4. ~unseen' /\ phase = "scenes" /\ step' \in {"plan", "issue"} => snap' = groups
  BY <1>1 DEF CleanInv, GroupsReady
<1>5. QED  BY <1>1, <1>3, <1>4, QuietClean

\* The first read of a pass, and the last, leave the list in the cache when
\* nothing was done; only a "fresh" read takes it out.
LEMMA FetchHitClean == PassInv /\ CleanInv /\ FetchHit => CleanInv'
<1> SUFFICES ASSUME PassInv, CleanInv, FetchHit PROVE CleanInv'
  OBVIOUS
<1>1. /\ step = "fetch" /\ cache # {} /\ snap' = UNION cache
      /\ cache' = IF Reads(phase) = "fresh" THEN {} ELSE cache
      /\ unseen' = (unseen \/ due) /\ step' = "plan"
      /\ UNCHANGED <<names, groups, due, phase, todo, did, cause, prune>>
  BY DEF FetchHit, z2m, budget
<1>2. ~due => UNION cache = groups  BY <1>1, FetchedList DEF PassInv
<1>3. phase \in {"rename", "prune", "create", "members", "scenes"}  BY <1>1 DEF CleanInv, ListInv
<1>4. Reads(phase) = "fresh" => did # {} /\ phase \in {"prune", "create", "scenes"}
  BY <1>3 DEF Reads
<1>5. phase = "create" => "add_group" \notin did  BY <1>1 DEF CleanInv, ListInv
<1>6. ListInv'
  <2>1. did = {} => cache' # {}  BY <1>1, <1>4
  <2>2. phase \in {"create", "members"} /\ "add_group" \in did => cache' # {}  BY <1>1, <1>4, <1>5
  <2>3. phase = "rename" => cache' # {}  BY <1>1, <1>4
  <2>4. QED  BY <1>1, <1>3, <2>1, <2>2, <2>3 DEF CleanInv, ListInv
<1>7. ~unseen' => snap' = groups  BY <1>1, <1>2
<1>8. unseen => unseen'  BY <1>1
<1>9. QED  BY <1>1, <1>6, <1>7, <1>8, QuietClean

LEMMA FetchWokenClean == PassInv /\ CleanInv /\ FetchWoken => CleanInv'
<1> SUFFICES ASSUME PassInv, CleanInv, FetchWoken PROVE CleanInv'
  OBVIOUS
<1>1. /\ step = "wait" /\ cache # {} /\ snap' = UNION cache
      /\ unseen' = (unseen \/ due) /\ step' = "plan"
      /\ UNCHANGED <<names, groups, cache, due, phase, todo, did, cause, prune>>
  BY DEF FetchWoken, z2m, budget
<1>2. ~due => UNION cache = groups  BY <1>1, FetchedList DEF PassInv
<1>3. ListInv'  BY <1>1 DEF CleanInv, ListInv
<1>4. ~unseen' => snap' = groups  BY <1>1, <1>2
<1>5. unseen => unseen'  BY <1>1
<1>6. QED  BY <1>1, <1>3, <1>4, <1>5, QuietClean

LEMMA FetchMissClean == PassInv /\ CleanInv /\ FetchMiss => CleanInv'
<1> SUFFICES ASSUME PassInv, CleanInv, FetchMiss PROVE CleanInv'
  OBVIOUS
<1>1. /\ step = "fetch" /\ due' = (due \/ Reads(phase) = "fresh") /\ step' = "wait"
      /\ UNCHANGED <<names, groups, cache, phase, snap, todo, did, cause, prune, unseen>>
  BY DEF FetchMiss, z2m, budget
<1>2. Reads(phase)' = Reads(phase)  BY <1>1 DEF Reads
<1>3. ListInv'  BY <1>1, <1>2 DEF CleanInv, ListInv
<1>4. QED  BY <1>1, <1>3, QuietClean

\* A wait in vain: only for the list that the rooms' members are read from.
LEMMA FetchTimeoutClean == PassInv /\ CleanInv /\ FetchTimeout => CleanInv'
<1> SUFFICES ASSUME PassInv, CleanInv, FetchTimeout PROVE CleanInv'
  OBVIOUS
<1>1. /\ step = "wait" /\ UNCHANGED <<names, groups, cache, due, snap, did, prune, unseen>>
      /\ \/ phase = "rename" /\ step' = "fetch" /\ UNCHANGED <<phase, todo, cause>>
         \/ Fail(IF cache = {} /\ ~due THEN "fetch" ELSE "fault")
  BY DEF FetchTimeout, z2m, budget, Fault
<1>2. phase \in {"rename", "prune", "create", "members", "scenes"} /\ Reads(phase) # "no"
  BY <1>1 DEF CleanInv, ListInv
<1>3. CASE phase = "rename" /\ step' = "fetch" /\ UNCHANGED <<phase, todo, cause>>
  <2>1. Reads(phase)' = Reads(phase)  BY <1>1, <1>3 DEF Reads
  <2>2. ListInv'  BY <1>1, <1>3, <2>1 DEF CleanInv, ListInv
  <2>3. QED  BY <1>1, <1>3, <2>2, QuietClean
<1>4. CASE Fail("fault")
  <2>1. CleanPassSucceeds'  BY <1>4 DEF Fail, CleanPassSucceeds
  <2>2. QED  BY <1>1, <1>4, <2>1, SameBridge, FailedClean
<1>5. CASE Fail("fetch") /\ cache = {} /\ ~due
  <2>1. phase # "rename"  BY <1>5 DEF CleanInv, ListInv
  <2>2. Reads(phase) # "fresh"  BY <1>1, <1>5 DEF CleanInv, ListInv
  <2>3. did # {}  BY <1>2, <1>5, <2>1, <2>2 DEF CleanInv, ListInv
  <2>4. phase = "members"  BY <1>2, <1>5, <2>1, <2>2, <2>3 DEF Reads
  <2>5. "add_group" \notin did /\ did \subseteq {"rename_group", "remove_group", "add_group"}
    BY <1>1, <1>5, <2>4 DEF CleanInv, ListInv
  <2>6. did' \cap {"rename_group", "remove_group"} # {} /\ "add_group" \notin did'
    BY <1>1, <2>3, <2>5
  <2>7. CleanPassSucceeds'  BY <1>5, <2>6 DEF Fail, CleanPassSucceeds
  <2>8. QED  BY <1>1, <1>5, <2>7, SameBridge, FailedClean
<1>6. QED  BY <1>1, <1>3, <1>4, <1>5

LEMMA KillClean == PassInv /\ CleanInv /\ Kill => CleanInv'
<1> SUFFICES ASSUME CleanInv, Kill PROVE CleanInv'
  OBVIOUS
<1>1. Fail("fault") /\ UNCHANGED <<names, groups>>  BY DEF Kill, z2m
<1>2. CleanPassSucceeds'  BY <1>1 DEF Fail, CleanPassSucceeds
<1>3. QED  BY <1>1, <1>2, SameBridge, FailedClean

-----------------------------------------------------------------------------
(* Requests are accepted when their turn comes. *)

\* ... but for a name a foreign device has, and a member that is not paired.
LEMMA HeadPossible ==
  ASSUME PassInv, CleanInv, todo # <<>>, ~unseen
  PROVE  Possible(Head(todo)) \/ Taken \/ Unpaired
<1> DEFINE q == Head(todo)
<1>1. q = todo[1] /\ 1 \in DOMAIN todo /\ DOMAIN todo \subseteq Nat
  BY FirstOf DEF PassInv, Schedule
<1>2. q \in Range(todo) /\ step = "issue" /\ phase \in Working /\ q.kind \in KindsOf(phase)
  BY TakenRequest
<1> HIDE DEF q
<1>3. CASE phase = "names"
  <2>1. q.kind = "rename_device"  BY <1>2, <1>3 DEF KindsOf
  <2>2. Unblocked(todo) /\ Renames(q)  BY <1>2, <1>3 DEF CleanInv, NamesReady
  <2>3. \A d \in (Ds \cap DOMAIN names) \ {q.dev} : names[d] = q.to => \E j \in DOMAIN todo : j < 1
    BY <1>1, <2>2 DEF Unblocked
  <2>4. \A j \in DOMAIN todo : ~(j < 1)
    <3>1. todo \in Seq(Range(todo))  BY DEF PassInv, Schedule
    <3>2. DOMAIN todo = 1..Len(todo) /\ Len(todo) \in Nat  BY <3>1
    <3>3. QED  BY <3>2
  <2>5. \A d \in DOMAIN names \ Ds : names[d] = q.to => Taken
    <3>1. SUFFICES ASSUME NEW d \in DOMAIN names \ Ds, names[d] = q.to PROVE Taken
      OBVIOUS
    <3>2. q.dev \in Ds \cap DOMAIN names /\ q.to \in {Tmp(q.dev), Wanted[q.dev]}  BY <2>2 DEF Renames
    <3>3. q.to # Tmp(q.dev)  BY <3>1, <3>2 DEF CleanInv, NamesApart
    <3>4. QED  BY <3>1, <3>2, <3>3 DEF Taken, ForeignNames
  <2>6. ~Taken => \A d \in DOMAIN names \ {q.dev} : names[d] # q.to  BY <2>3, <2>4, <2>5
  <2>7. QED  BY <2>1, <2>6 DEF Possible, q
<1>4. CASE phase \in {"rename", "prune", "create", "members"}
  <2>1. Acceptable(q)  BY <1>1, <1>2, <1>4 DEF CleanInv, GroupsReady, Ready
  <2>2. Possible(q) \/ Unpaired  BY <2>1 DEF Acceptable, Possible
  <2>3. QED  BY <2>2 DEF q
<1>5. CASE phase \in {"zwave", "describe", "scenes", "options"}
  <2>1. q.kind \in {"name_node", "describe", "add_scene", "set_option"}  BY <1>2, <1>5 DEF KindsOf
  <2>2. QED  BY <2>1 DEF Possible, q
<1>6. QED  BY <1>2, <1>3, <1>4, <1>5 DEF Working

LEMMA RefusedClean == PassInv /\ CleanInv /\ Refused => CleanInv'
<1> SUFFICES ASSUME PassInv, CleanInv, Refused PROVE CleanInv'
  OBVIOUS
<1>1. /\ todo # <<>> /\ ~Possible(Head(todo)) /\ Fail("refused")
      /\ UNCHANGED <<names, groups, unseen>>
  BY DEF Refused, z2m
<1>2. unseen \/ Taken \/ Unpaired  BY <1>1, HeadPossible DEF PassInv, Bridge
<1>3. Taken' = Taken /\ Unpaired' = Unpaired  BY <1>1, SameNames
<1>4. CleanPassSucceeds'  BY <1>1, <1>2, <1>3 DEF CleanPassSucceeds, Fail
<1>5. QED  BY <1>1, <1>4, SameBridge, FailedClean

\* A request that is carried out keeps names and groups apart.
LEMMA CarriedOutClean ==
  ASSUME PassInv, CleanInv, todo # <<>>, Possible(Head(todo)), CarryOut(Head(todo))
  PROVE  NamesApart' /\ Unique(groups)'
<1> DEFINE q == Head(todo)
<1>1. q \in Range(todo) /\ step = "issue" /\ phase \in Working /\ q.kind \in KindsOf(phase)
  BY TakenRequest
<1>2. Possible(q) /\ CarryOut(q)  OBVIOUS
<1> HIDE DEF q
<1>3. GroupList(groups) /\ names \in [DOMAIN names -> Range(names)]  BY DEF PassInv, Bridge
<1>4. Unique(groups')  BY <1>2, <1>3, UniqueAfter DEF CarryOut, CleanInv
<1>5. CASE q.kind = "rename_device"
  <2>1. phase = "names"  BY <1>1, <1>5 DEF KindsOf, Working
  <2>2. Renames(q)  BY <1>1, <2>1 DEF CleanInv, NamesReady
  <2>3. names' = [names EXCEPT ![q.dev] = q.to]  BY <1>2, <1>5 DEF CarryOut
  <2>4. NamesApart  BY DEF CleanInv
  <2>5. NamesApart'  BY <1>2, <1>3, <1>5, <2>2, <2>3, <2>4, RenamedApart
  <2>6. QED  BY <1>4, <2>5 DEF Unique
<1>6. CASE q.kind # "rename_device"
  <2>1. names' = names  BY <1>2, <1>6 DEF CarryOut
  <2>2. QED  BY <1>4, <2>1 DEF CleanInv, NamesApart, Unique, Tmp
<1>7. QED  BY <1>5, <1>6

LEMMA TimedOutClean == PassInv /\ CleanInv /\ TimedOut => CleanInv'
<1> SUFFICES ASSUME PassInv, CleanInv, TimedOut PROVE CleanInv'
  OBVIOUS
<1>1. /\ todo # <<>>
      /\ (Possible(Head(todo)) /\ CarryOut(Head(todo))) \/ UNCHANGED <<names, groups, due>>
      /\ IF phase = "zwave"
           THEN unseen' = TRUE /\ UNCHANGED <<phase, step, cause>>
           ELSE Fail("fault") /\ UNCHANGED unseen
      /\ cache' = cache
  BY DEF TimedOut, z2m
<1>2. NamesApart' /\ Unique(groups)'  BY <1>1, CarriedOutClean, SameBridge
<1>3. due => due'  BY <1>1 DEF CarryOut
<1>4. CASE phase = "zwave"
  <2>1. step = "issue"  BY <1>1, TakenRequest
  <2>2. phase' = "zwave" /\ step' = "issue" /\ unseen'  BY <1>1, <1>4, <2>1
  <2>3. NamesReady' /\ CleanPassSucceeds'  BY <2>2 DEF NamesReady, CleanPassSucceeds
  <2>4. GroupsReady'  BY <2>2 DEF GroupsReady
  <2>5. ListInv'  BY <1>1, <1>3, <1>4, <2>2 DEF CleanInv, ListInv
  <2>6. QED  BY <1>2, <2>3, <2>4, <2>5 DEF CleanInv
<1>5. CASE phase # "zwave"
  <2>1. Fail("fault")  BY <1>1, <1>5
  <2>2. CleanPassSucceeds'  BY <2>1 DEF Fail, CleanPassSucceeds
  <2>3. QED  BY <1>2, <2>1, <2>2, FailedClean
<1>6. QED  BY <1>4, <1>5

LEMMA SceneRejectedClean == PassInv /\ CleanInv /\ SceneRejected => CleanInv'
<1> SUFFICES ASSUME PassInv, CleanInv, SceneRejected PROVE CleanInv'
  OBVIOUS
<1>1. /\ todo # <<>> /\ Head(todo).kind = "add_scene"
      /\ Fail("fault") \/ UNCHANGED <<phase, step, cause>>
      /\ UNCHANGED <<names, groups, cache, due, snap, did, prune, unseen>>
  BY DEF SceneRejected, z2m, Fault
<1>2. NamesApart' /\ Unique(groups)'  BY <1>1, SameBridge
<1>3. CASE Fail("fault")
  <2>1. CleanPassSucceeds'  BY <1>3 DEF Fail, CleanPassSucceeds
  <2>2. QED  BY <1>2, <1>3, <2>1, FailedClean
<1>4. CASE UNCHANGED <<phase, step, cause>>
  <2>1. step = "issue" /\ phase \in Working /\ "add_scene" \in KindsOf(phase)  BY <1>1, TakenRequest
  <2>2. phase = "scenes"  BY <2>1 DEF KindsOf, Working
  <2>3. phase' = "scenes" /\ step' = "issue"  BY <1>4, <2>1, <2>2
  <2>4. NamesReady' /\ CleanPassSucceeds'  BY <2>3 DEF NamesReady, CleanPassSucceeds
  <2>5. ListInv'  BY <1>1, <2>2, <2>3 DEF ListInv, CleanInv
  <2>6. GroupsReady'  BY <1>1, <2>1, <2>2, <2>3 DEF GroupsReady, IdsAgree, CleanInv
  <2>7. QED  BY <1>2, <2>4, <2>5, <2>6 DEF CleanInv
<1>5. QED  BY <1>1, <1>3, <1>4

LEMMA PublishLostClean == PassInv /\ CleanInv /\ PublishLost => CleanInv'
<1> SUFFICES ASSUME PassInv, CleanInv, PublishLost PROVE CleanInv'
  OBVIOUS
<1>1. /\ todo # <<>> /\ Head(todo).kind \in {"add_scene", "set_option"} /\ unseen' = TRUE
      /\ UNCHANGED <<names, groups, cache, due, phase, step, snap, did, prune, cause>>
  BY DEF PublishLost, Answered, z2m, Fault
<1>2. NamesApart' /\ Unique(groups)'  BY <1>1, SameBridge
<1>3. step = "issue" /\ phase \in Working /\ Head(todo).kind \in KindsOf(phase)  BY <1>1, TakenRequest
<1>4. phase \in {"scenes", "options"}  BY <1>1, <1>3 DEF KindsOf, Working
<1>5. NamesReady' /\ CleanPassSucceeds' /\ GroupsReady'
  BY <1>1, <1>4 DEF NamesReady, CleanPassSucceeds, GroupsReady
<1>6. ListInv'  BY <1>1, <1>3, <1>4 DEF ListInv, CleanInv
<1>7. QED  BY <1>2, <1>5, <1>6 DEF CleanInv

-----------------------------------------------------------------------------
(* The end of a phase, and the plan of the next *)

LEMMA ProceedClean == PassInv /\ CleanInv /\ Proceed => CleanInv'
<1> SUFFICES ASSUME PassInv, CleanInv, Proceed PROVE CleanInv'
  OBVIOUS
<1> DEFINE Missing == phase = "scenes" /\ \E i \in DOMAIN Rooms : Rooms[i].scenes /\ Rooms[i].name \notin GroupNames(snap)
<1>1. /\ phase \in Working /\ step = "issue" /\ todo = <<>>
      /\ UNCHANGED <<names, groups, cache, due, snap, did, prune, unseen>>
      /\ IF Missing THEN Fail("missing")
         ELSE /\ phase' = After(phase)
              /\ step' = IF After(phase) = "done" THEN "issue"
                         ELSE IF Reads(After(phase)) = "no" THEN "plan" ELSE "fetch"
              /\ UNCHANGED <<todo, cause>>
  BY DEF Proceed, z2m, budget, PassInv, Schedule, Idle
<1>2. NamesApart' /\ Unique(groups)'  BY <1>1, SameBridge
<1>3. CASE Missing
  <2>1. Fail("missing")  BY <1>1, <1>3
  <2>2. ASSUME ~unseen PROVE FALSE
    <3>1. snap = groups  BY <1>1, <1>3, <2>2 DEF CleanInv, GroupsReady
    <3>2. phase \in FromMembers  BY <1>3 DEF FromMembers, FromCreate, FromRename, FromDescribe
    <3>3. \A i \in DOMAIN Rooms : Rooms[i].name \in GroupNames(groups)
      BY <2>2, <3>2 DEF PassInv, Progress, CreateInv
    <3>4. QED  BY <1>3, <3>1, <3>3
  <2>3. unseen'  BY <1>1, <2>2 DEF PassInv, Bridge
  <2>4. CleanPassSucceeds'  BY <2>3 DEF CleanPassSucceeds
  <2>5. QED  BY <1>2, <2>1, <2>4, FailedClean
<1>4. CASE ~Missing
  <2> HIDE DEF Missing
  <2>1. /\ phase' = After(phase)
        /\ step' = IF phase' = "done" THEN "issue" ELSE IF Reads(phase') = "no" THEN "plan" ELSE "fetch"
    BY <1>1, <1>4
  <2>2. /\ phase = "zwave" => phase' = "names"
        /\ phase = "names" => phase' = "describe"
        /\ phase = "describe" => phase' = "rename"
        /\ phase = "rename" => phase' = "prune"
        /\ phase = "prune" => phase' = "create"
        /\ phase = "create" => phase' = "members"
        /\ phase = "members" => phase' = "scenes"
        /\ phase = "scenes" => phase' = "options"
        /\ phase = "options" => phase' = "done"
    BY <2>1, PhaseAfter
  <2>3. Reads(phase)' = Reads(phase')  BY <1>1 DEF Reads
  <2>4. NamesReady' /\ CleanPassSucceeds'
    BY <1>1, <2>1, <2>2 DEF NamesReady, CleanPassSucceeds, Working
  <2>5. ListInv'
    <3>1. Reads(phase') # "no" => phase' \in {"rename", "prune", "create", "members", "scenes"}
      BY DEF Reads
    <3>2. step' # "wait" /\ (step' = "fetch" => Reads(phase') # "no")  BY <2>1
    <3>3. phase = "rename" => did \subseteq {"rename_group"}  BY DEF PassInv, Fresh
    <3>4. phase' = "rename" => step' = "fetch"  BY <2>1 DEF Reads
    <3>5. phase' = "prune" => phase = "rename"  BY <1>1, <2>2 DEF Working
    <3>6. phase' = "create" => phase = "prune"  BY <1>1, <2>2 DEF Working
    <3>7. phase' = "members" => phase = "create"  BY <1>1, <2>2 DEF Working
    <3>8. phase' = "scenes" => phase = "members"  BY <1>1, <2>2 DEF Working
    <3>9. phase' \in {"prune", "create"} => did' \subseteq {"rename_group", "remove_group"}
      BY <1>1, <3>3, <3>5, <3>6 DEF CleanInv, ListInv
    <3>10. phase' \in {"create", "members"} => did' \subseteq {"rename_group", "remove_group", "add_group"}
      BY <1>1, <3>6, <3>7 DEF CleanInv, ListInv
    <3>11. did' = {} /\ phase' \in {"prune", "create", "members", "scenes"} => cache' # {}
      BY <1>1, <3>5, <3>6, <3>7, <3>8 DEF CleanInv, ListInv
    <3>12. phase' \in {"create", "members"} /\ "add_group" \in did' => due' \/ cache' # {}
      BY <1>1, <3>6, <3>7, <3>9 DEF CleanInv, ListInv
    <3>13. phase' \in {"zwave", "names", "describe", "rename"} => due' \/ cache' # {}
      BY <1>1, <2>2 DEF CleanInv, ListInv, Working
    <3>14. QED  BY <2>3, <3>1, <3>2, <3>4, <3>9, <3>10, <3>11, <3>12, <3>13 DEF ListInv
  <2>6. GroupsReady'
    <3>1. phase' = "scenes" => step' = "fetch"  BY <2>1 DEF Reads
    <3>2. phase' \in {"rename", "prune", "create", "members"} => step' # "issue"  BY <2>1
    <3>3. ASSUME ~unseen' PROVE IdsAgree'
      <4>1. IdsAgree  BY <1>1, <3>3 DEF CleanInv, GroupsReady
      <4>2. phase' = "prune" => phase = "rename"  BY <1>1, <2>2 DEF Working
      <4>3. phase' = "create" => phase = "prune"  BY <1>1, <2>2 DEF Working
      <4>4. Range(todo) = {}  BY <1>1, EmptyTodo
      <4>5. phase \in {"rename", "prune"} =>
              \A i \in DOMAIN Rooms : \A g \in groups : g.id = Rooms[i].id => g.name = Rooms[i].name
        BY <1>1, <4>1, <4>4 DEF IdsAgree
      <4>6. phase' \in {"prune", "create"} =>
              \A i \in DOMAIN Rooms : \A g \in groups' : g.id = Rooms[i].id => g.name = Rooms[i].name
        BY <1>1, <4>2, <4>3, <4>5
      <4>7. QED  BY <3>2, <4>6 DEF IdsAgree
    <3>4. QED  BY <3>1, <3>2, <3>3 DEF GroupsReady
  <2>7. QED  BY <1>2, <2>4, <2>5, <2>6 DEF CleanInv
<1>5. QED  BY <1>3, <1>4

\* A plan made from the bridge's own group list is accepted.
LEMMA MakePlanClean == PassInv /\ CleanInv /\ MakePlan => CleanInv'
<1> SUFFICES ASSUME PassInv, CleanInv, MakePlan PROVE CleanInv'
  OBVIOUS
<1>1. /\ step = "plan" /\ UNCHANGED <<names, groups, cache, due, snap, did, prune, unseen>>
      /\ IF phase = "rename" /\ Collision THEN Fail("collision")
         ELSE todo' \in Plans(phase) /\ step' = "issue" /\ UNCHANGED <<phase, cause>>
  BY DEF MakePlan, z2m, budget
<1>2. NamesApart' /\ Unique(groups)'  BY <1>1, SameBridge
<1>3. ~unseen /\ phase \in {"rename", "prune", "create", "members"} => snap = groups
  BY <1>1 DEF PassInv, Fresh
<1>4. CASE phase = "rename" /\ Collision
  <2>1. Fail("collision")  BY <1>1, <1>4
  <2>2. ~unseen => Clash  BY <1>3, <1>4 DEF Collision, Drifted, Clash
  <2>3. Clash => Clash'  BY <1>1 DEF Clash, GroupNames
  <2>4. CleanPassSucceeds'  BY <1>1, <2>1, <2>2, <2>3 DEF CleanPassSucceeds, Fail
  <2>5. QED  BY <1>2, <2>1, <2>4, FailedClean
<1>5. CASE ~(phase = "rename" /\ Collision)
  <2>1. todo' \in Plans(phase) /\ step' = "issue" /\ UNCHANGED phase  BY <1>1, <1>5
  <2>2. phase \in Working  BY <1>1 DEF PassInv, Schedule
  <2>3. NamesReady'
    <3>1. SUFFICES ASSUME phase = "names" PROVE NamesReady'
      BY <2>1 DEF NamesReady
    <3>2. NamesApart /\ todo' \in Plans("names")  BY <2>1, <3>1 DEF CleanInv
    <3>3. (\A q \in Range(todo') : Renames(q)) /\ Unblocked(todo')  BY <3>2, NamePlanReady
    <3>4. Unblocked(todo)'  BY <1>1, <3>3 DEF Unblocked
    <3>5. \A q \in Range(todo') : Renames(q)'  BY <1>1, <3>3 DEF Renames, Tmp
    <3>6. QED  BY <3>4, <3>5 DEF NamesReady
  <2>4. CleanPassSucceeds'  BY <2>1, <2>2 DEF CleanPassSucceeds, Working
  <2>5. ListInv'  BY <1>1, <2>1 DEF CleanInv, ListInv
  <2>6. ASSUME ~unseen, phase \in {"rename", "prune", "create", "members"} PROVE Ready(todo')
    <3>1. snap = groups /\ Unique(groups) /\ GroupList(snap)
      BY <1>3, <2>6 DEF CleanInv, PassInv, Bridge
    <3>2. CASE phase = "rename"  BY <1>5, <2>1, <3>1, <3>2, RenamePlanReady
    <3>3. CASE phase = "prune"  BY <2>1, <3>1, <3>3, PrunePlanReady
    <3>4. CASE phase = "create"
      <4>1. \A i \in DOMAIN Rooms : \A g \in groups : g.id = Rooms[i].id => g.name = Rooms[i].name
        BY <1>1, <2>6, <3>4 DEF CleanInv, GroupsReady, IdsAgree
      <4>2. QED  BY <2>1, <3>1, <3>4, <4>1, CreatePlanReady
    <3>5. CASE phase = "members"
      <4>1. Bridge /\ NamesFit  BY <3>5 DEF PassInv, NamesInv, FromDescribe
      <4>2. QED  BY <2>1, <3>1, <3>5, <4>1, MembersPlanReady
    <3>6. QED  BY <2>6, <3>2, <3>3, <3>4, <3>5
  <2>7. ASSUME ~unseen, phase = "rename"
        PROVE  /\ \A q \in Range(todo') : RenamesRoom(q)
               /\ \A i \in DOMAIN Rooms : \A g \in groups : g.id = Rooms[i].id =>
                    g.name = Rooms[i].name \/ \E q \in Range(todo') : q.from = g.name
    <3>1. snap = groups /\ Unique(groups) /\ GroupList(snap)
      BY <1>3, <2>7 DEF CleanInv, PassInv, Bridge
    <3>2. \A q \in Range(todo') : RenamesRoom(q)  BY <1>5, <2>1, <2>7, <3>1, RenamePlanReady
    <3>3. Range(todo') = GroupRenames
      <4>1. "rename" \in Working \ {"names"}  BY DEF Working
      <4>2. QED  BY <2>1, <2>7, <3>1, <4>1, PlanIsComplete DEF RequestsOf
    <3>4. ASSUME NEW i \in DOMAIN Rooms, NEW g \in groups, g.id = Rooms[i].id, g.name # Rooms[i].name
          PROVE  \E q \in GroupRenames : q.from = g.name
      <4>1. g \in Drifted(Rooms[i])  BY <3>1, <3>4 DEF Drifted
      <4>2. [kind |-> "rename_group", at |-> i, from |-> g.name, to |-> Rooms[i].name] \in GroupRenames
        BY <4>1 DEF GroupRenames
      <4>3. QED  BY <4>2
    <3>5. QED  BY <3>2, <3>3, <3>4
  <2>8. GroupsReady'
    <3>1. Ready(todo') => Ready(todo)'
      <4>1. \A q : Acceptable(q) => Acceptable(q)'  BY <1>1, SameNames DEF Acceptable, Possible, Named
      <4>2. QED  BY <4>1 DEF Ready, Apart
    <3>2. \A q : RenamesRoom(q) <=> RenamesRoom(q)'  BY <1>1 DEF RenamesRoom, Named
    <3>3. ASSUME ~unseen PROVE IdsAgree'
      <4>1. IdsAgree  BY <3>3 DEF CleanInv, GroupsReady
      <4>2. phase = "rename" => \A q \in Range(todo') : RenamesRoom(q)'  BY <2>7, <3>2, <3>3
      <4>3. QED  BY <1>1, <2>1, <2>7, <3>3, <4>1, <4>2 DEF IdsAgree
    <3>4. ~unseen /\ phase = "scenes" => snap = groups  BY <1>1 DEF CleanInv, GroupsReady
    <3>5. QED  BY <1>1, <2>1, <2>6, <3>1, <3>3, <3>4 DEF GroupsReady
  <2>9. QED  BY <1>2, <2>3, <2>4, <2>5, <2>8 DEF CleanInv
<1>6. QED  BY <1>4, <1>5

-----------------------------------------------------------------------------
(* A served request, and what it leaves for the others *)

\* A device that was renamed no longer stands in the way of another.
LEMMA ServedUnblocked ==
  ASSUME PassInv, CleanInv, Served, phase = "names"
  PROVE  NamesReady'
<1> DEFINE q == Head(todo)
           t == Tail(todo)
<1>1. /\ todo # <<>> /\ todo' = t /\ CarryOut(q) /\ UNCHANGED <<phase, step>>
  BY DEF Served
<1>2. /\ step = "issue" /\ q \in Range(todo) /\ q.kind = "rename_device"
      /\ Range(todo) = {q} \cup Range(t)
  BY <1>1, TakenRequest DEF KindsOf
<1>3. (\A r \in Range(todo) : Renames(r)) /\ Unblocked(todo)
  BY <1>2 DEF CleanInv, NamesReady
<1>4. names' = [names EXCEPT ![q.dev] = q.to] /\ names \in [DOMAIN names -> Range(names)]
  BY <1>1, <1>2 DEF CarryOut, PassInv, Bridge
<1>5. /\ DOMAIN names' = DOMAIN names
      /\ \A d \in DOMAIN names : names'[d] = IF d = q.dev THEN q.to ELSE names[d]
  BY <1>4
<1>6. /\ q = todo[1] /\ DOMAIN t \subseteq Nat /\ DOMAIN todo \subseteq Nat
      /\ \A i \in DOMAIN t : i + 1 \in DOMAIN todo /\ t[i] = todo[i + 1]
  BY <1>1, FirstOf DEF PassInv, Schedule
<1>7. \A i \in DOMAIN todo : i # 1 => i - 1 \in DOMAIN t /\ t[i - 1] = todo[i]
  BY <1>1, FirstOf DEF PassInv, Schedule
<1> HIDE DEF q, t
<1>8. ASSUME NEW i \in DOMAIN t, NEW d \in (Ds \cap DOMAIN names) \ {t[i].dev}, names'[d] = t[i].to
      PROVE  \E j \in DOMAIN t : j < i /\ t[j].dev = d
  <2>1. i + 1 \in DOMAIN todo /\ t[i] = todo[i + 1] /\ i \in Nat  BY <1>6
  <2>2. t[i] \in Range(todo)  BY <2>1 DEF Range
  <2>3. d # q.dev
    <3>1. SUFFICES ASSUME d = q.dev PROVE FALSE
      OBVIOUS
    <3>2. q.to = t[i].to  BY <1>5, <1>8, <3>1
    <3>3. /\ d # t[i].dev /\ t[i].dev \in Ds
          /\ q.to \in {Tmp(d), Wanted[d]} /\ t[i].to \in {Tmp(t[i].dev), Wanted[t[i].dev]}
      BY <1>2, <1>3, <2>2, <3>1 DEF Renames
    <3>4. QED  BY <3>2, <3>3, TargetsApart
  <2>4. names[d] = todo[i + 1].to /\ d # todo[i + 1].dev  BY <1>5, <1>8, <2>1, <2>3
  <2>5. PICK j \in DOMAIN todo : j < i + 1 /\ todo[j].dev = d  BY <1>3, <2>1, <2>4 DEF Unblocked
  <2>6. j # 1  BY <1>6, <2>3, <2>5
  <2>7. j - 1 \in DOMAIN t /\ t[j - 1] = todo[j]  BY <1>7, <2>6
  <2>8. j \in Nat /\ j - 1 < i  BY <1>6, <2>1, <2>5
  <2>9. QED  BY <2>5, <2>7, <2>8
<1>9. Unblocked(todo)'  BY <1>1, <1>5, <1>8 DEF Unblocked
<1>10. \A r \in Range(todo') : Renames(r)'  BY <1>1, <1>2, <1>3, <1>5 DEF Renames, Tmp
<1>11. QED  BY <1>9, <1>10 DEF NamesReady

\* The requests left are still accepted.
LEMMA ServedReady ==
  ASSUME PassInv, CleanInv, Served, ~unseen, phase \in {"rename", "prune", "create", "members"}
  PROVE  Ready(todo)'
<1> DEFINE q == Head(todo)
           t == Tail(todo)
<1>1. todo # <<>> /\ todo' = t /\ Possible(q) /\ CarryOut(q)  BY DEF Served
<1>2. step = "issue" /\ q \in Range(todo) /\ \A r \in Range(todo) : r.kind \in KindsOf(phase)
  BY <1>1, TakenRequest DEF PassInv, Schedule
<1>3. Ready(todo)  BY <1>2 DEF CleanInv, GroupsReady
<1>4. /\ q = todo[1] /\ 1 \in DOMAIN todo /\ DOMAIN t \subseteq Nat
      /\ \A i \in DOMAIN t : i + 1 \in DOMAIN todo /\ t[i] = todo[i + 1]
  BY <1>1, FirstOf DEF PassInv, Schedule
<1>5. \A i \in DOMAIN t : i + 1 # 1
  <2>1. Tail(todo) \in Seq(Range(Tail(todo)))  BY <1>1, FirstOf DEF PassInv, Schedule
  <2>2. DOMAIN t = 1..Len(t) /\ Len(t) \in Nat  BY <2>1
  <2>3. QED  BY <2>2
<1> HIDE DEF q, t
<1>6. GroupList(groups) /\ groups' = GroupsAfter(q)  BY <1>1 DEF PassInv, Bridge, CarryOut
<1>7. UNCHANGED names
  <2>1. q.kind # "rename_device"  BY <1>2 DEF KindsOf
  <2>2. QED  BY <1>1, <2>1 DEF CarryOut
<1>8. ASSUME NEW r \in Range(t) PROVE Acceptable(r)'
  <2>1. PICK i \in DOMAIN t : t[i] = r  BY DEF Range
  <2>2. i + 1 \in DOMAIN todo /\ r = todo[i + 1] /\ i + 1 # 1  BY <1>4, <1>5, <2>1
  <2>3. Acceptable(r) /\ Apart(q, r)  BY <1>3, <1>4, <2>2 DEF Ready
  <2>4. r.kind \in KindsOf(phase) /\ q.kind \in KindsOf(phase)  BY <1>2, <2>2 DEF Range
  <2>5. QED  BY <1>1, <1>6, <1>7, <2>3, <2>4, StaysAcceptable
<1>9. ASSUME NEW i \in DOMAIN t, NEW j \in DOMAIN t, i # j PROVE Apart(t[i], t[j])
  <2>1. /\ i + 1 \in DOMAIN todo /\ j + 1 \in DOMAIN todo /\ i + 1 # j + 1
        /\ t[i] = todo[i + 1] /\ t[j] = todo[j + 1]
    BY <1>4, <1>9
  <2>2. QED  BY <1>3, <2>1 DEF Ready
<1>10. \A i \in DOMAIN todo' : todo'[i] \in Range(t)  BY <1>1 DEF Range
<1>11. \A i \in DOMAIN todo' : Acceptable(todo[i])'
  BY <1>8, <1>10 DEF Acceptable, Possible, Named, Bearers, Unpaired, ForeignNames
<1>12. \A i, j \in DOMAIN todo' : i # j => Apart(todo[i], todo[j])'  BY <1>1, <1>9 DEF Apart
<1>13. QED  BY <1>11, <1>12 DEF Ready

\* A renamed group has the name of the room with its id.
LEMMA ServedIds ==
  ASSUME PassInv, CleanInv, Served, ~unseen
  PROVE  IdsAgree'
<1> DEFINE q == Head(todo)
<1>1. todo # <<>> /\ todo' = Tail(todo) /\ Possible(q) /\ CarryOut(q) /\ UNCHANGED <<phase, step>>
  BY DEF Served
<1>2. /\ step = "issue" /\ q \in Range(todo) /\ q.kind \in KindsOf(phase)
      /\ Range(todo) = {q} \cup Range(todo')
      /\ \A r \in Range(todo) : r.kind \in KindsOf(phase)
  BY <1>1, TakenRequest DEF PassInv, Schedule
<1>3. IdsAgree  BY DEF CleanInv, GroupsReady
<1>4. GroupList(groups) /\ groups' = GroupsAfter(q)  BY <1>1 DEF PassInv, Bridge, CarryOut
<1> HIDE DEF q
<1>5. CASE phase = "rename"
  <2>1. \A r \in Range(todo) : r.kind = "rename_group"  BY <1>2, <1>5 DEF KindsOf
  <2>2. /\ groups' = {Edited(q, g) : g \in groups}
        /\ \A g \in groups : Edited(q, g).id = g.id
        /\ \A g \in groups : Edited(q, g).name = IF g.name = q.from THEN q.to ELSE g.name
    BY <1>2, <1>4, <2>1, EditedGroups DEF Editing
  <2>3. \A g \in groups : g.name # q.to  BY <1>1, <1>2, <2>1 DEF Possible, Named
  <2>4. /\ \A r \in Range(todo) : RenamesRoom(r)
        /\ \A i \in DOMAIN Rooms : \A g \in groups : g.id = Rooms[i].id =>
             g.name = Rooms[i].name \/ \E r \in Range(todo) : r.from = g.name
    BY <1>2, <1>3, <1>5 DEF IdsAgree
  <2>5. \A r \in Range(todo) : \E g \in groups : g.name = r.from
    <3>1. Ready(todo)  BY <1>2, <1>5 DEF CleanInv, GroupsReady
    <3>2. \A r \in Range(todo) : Acceptable(r)  BY <3>1 DEF Ready, Range
    <3>3. QED  BY <2>1, <3>2 DEF Acceptable, Possible, Named
  <2>6. ASSUME NEW r \in Range(todo') PROVE RenamesRoom(r)'
    <3>1. r \in Range(todo)  BY <1>2
    <3>2. r.from # q.to  BY <2>3, <2>5, <3>1
    <3>3. /\ r.at \in DOMAIN Rooms /\ r.to = Rooms[r.at].name
          /\ \A g \in groups : g.name = r.from => g.id = Rooms[r.at].id
      BY <2>4, <3>1 DEF RenamesRoom, Named
    <3>4. \A h \in groups' : h.name = r.from => h.id = Rooms[r.at].id  BY <2>2, <3>2, <3>3
    <3>5. QED  BY <3>3, <3>4 DEF RenamesRoom, Named
  <2>7. ASSUME NEW i \in DOMAIN Rooms, NEW h \in groups', h.id = Rooms[i].id, h.name # Rooms[i].name
        PROVE  \E r \in Range(todo') : r.from = h.name
    <3>1. PICK g \in groups : h = Edited(q, g)  BY <2>2
    <3>2. g.id = Rooms[i].id  BY <2>2, <2>7, <3>1
    <3>3. CASE g.name = q.from
      <4>1. h.name = q.to  BY <2>2, <3>1, <3>3
      <4>2. q.at \in DOMAIN Rooms /\ q.to = Rooms[q.at].name /\ g.id = Rooms[q.at].id
        BY <1>2, <2>4, <3>3 DEF RenamesRoom, Named
      <4>3. q.at = i  BY <3>2, <4>2, ProvisionAssumption DEF ProvisionAssumption
      <4>4. QED  BY <2>7, <4>1, <4>2, <4>3
    <3>4. CASE g.name # q.from
      <4>1. h.name = g.name  BY <2>2, <3>1, <3>4
      <4>2. PICK r \in Range(todo) : r.from = g.name  BY <2>4, <2>7, <3>2, <4>1
      <4>3. r \in Range(todo')  BY <1>2, <3>4, <4>2
      <4>4. QED  BY <4>1, <4>2, <4>3
    <3>5. QED  BY <3>3, <3>4
  <2>8. QED  BY <1>1, <1>5, <2>6, <2>7 DEF IdsAgree
<1>6. CASE phase = "prune"
  <2>1. q.kind = "remove_group"  BY <1>2, <1>6 DEF KindsOf
  <2>2. groups' \subseteq groups  BY <1>4, <2>1, GroupsAfterRequest
  <2>3. QED  BY <1>1, <1>3, <1>6, <2>2 DEF IdsAgree
<1>7. CASE phase \notin {"rename", "prune"}  BY <1>1, <1>2, <1>7 DEF IdsAgree
<1>8. QED  BY <1>5, <1>6, <1>7

\* A group that was created is published.
LEMMA ServedList ==
  ASSUME PassInv, CleanInv, Served
  PROVE  ListInv'
<1> DEFINE q == Head(todo)
<1>1. /\ todo # <<>> /\ Possible(q) /\ CarryOut(q) /\ did' = did \cup ({q.kind} \cap GroupKinds)
      /\ UNCHANGED <<cache, phase, step>>
  BY DEF Served
<1>2. step = "issue" /\ phase \in Working /\ q.kind \in KindsOf(phase)  BY <1>1, TakenRequest
<1> HIDE DEF q
<1>3. phase \in {"rename", "prune", "create", "members"} => did' # {}
  BY <1>1, <1>2 DEF KindsOf, GroupKinds
<1>4. phase = "prune" => did' \subseteq {"rename_group", "remove_group"}
  BY <1>1, <1>2 DEF KindsOf, CleanInv, ListInv
<1>5. phase = "create" => did' \subseteq {"rename_group", "remove_group", "add_group"}
  BY <1>1, <1>2 DEF KindsOf, CleanInv, ListInv
<1>6. phase = "create" => due'
  <2> DEFINE new == [id |-> q.id, name |-> q.name, members |-> {}]
  <2>1. SUFFICES ASSUME phase = "create" PROVE due'
    OBVIOUS
  <2>2. q.kind = "add_group"  BY <1>2, <2>1 DEF KindsOf
  <2>3. groups' = groups \cup {new}  BY <1>1, <2>2, GroupsAfterRequest DEF CarryOut
  <2>4. \A g \in groups : g.name # q.name  BY <1>1, <2>2 DEF Possible, Named
  <2>5. new.name = q.name  OBVIOUS
  <2> HIDE DEF new
  <2>6. groups' # groups  BY <2>3, <2>4, <2>5
  <2>7. due' = (due \/ groups' # groups)  BY <1>1 DEF CarryOut
  <2>8. QED  BY <2>6, <2>7
<1>7. phase = "members" /\ "add_group" \in did' => "add_group" \in did  BY <1>1, <1>2 DEF KindsOf
<1>8. due => due'  BY <1>1 DEF CarryOut
<1>9. phase = "members" /\ "add_group" \in did' => due' \/ cache' # {}
  BY <1>1, <1>7, <1>8 DEF CleanInv, ListInv
<1>10. phase = "scenes" /\ did' = {} => cache' # {}  BY <1>1 DEF CleanInv, ListInv
<1>11. phase \in {"zwave", "names", "describe", "rename"} => due' \/ cache' # {}
  BY <1>1, <1>8 DEF CleanInv, ListInv
<1>12. QED  BY <1>1, <1>2, <1>3, <1>4, <1>5, <1>6, <1>9, <1>10, <1>11 DEF ListInv

LEMMA ServedClean == PassInv /\ CleanInv /\ Served => CleanInv'
<1> SUFFICES ASSUME PassInv, CleanInv, Served PROVE CleanInv'
  OBVIOUS
<1>1. /\ todo # <<>> /\ Possible(Head(todo)) /\ CarryOut(Head(todo))
      /\ UNCHANGED <<phase, step, snap, unseen>>
  BY DEF Served
<1>2. step = "issue" /\ phase \in Working /\ Head(todo).kind \in KindsOf(phase)  BY <1>1, TakenRequest
<1>3. NamesApart' /\ Unique(groups)'  BY <1>1, CarriedOutClean
<1>4. NamesReady'
  <2>1. CASE phase = "names"  BY <2>1, ServedUnblocked
  <2>2. CASE phase # "names"  BY <1>1, <2>2 DEF NamesReady
  <2>3. QED  BY <2>1, <2>2
<1>5. phase = "scenes" => groups' = groups  BY ServedGroups
<1>6. GroupsReady'
  <2>1. ASSUME ~unseen
        PROVE  /\ phase \in {"rename", "prune", "create", "members"} => Ready(todo)'
               /\ phase = "scenes" => snap' = groups'
               /\ IdsAgree'
    BY <1>1, <1>2, <1>5, <2>1, ServedReady, ServedIds DEF CleanInv, GroupsReady
  <2>2. QED  BY <1>1, <2>1 DEF GroupsReady
<1>7. CleanPassSucceeds'  BY <1>1, <1>2 DEF CleanPassSucceeds, Working
<1>8. QED  BY <1>3, <1>4, <1>6, <1>7, ServedList DEF CleanInv

-----------------------------------------------------------------------------
(* The invariant of passes without faults *)

LEMMA CleanInitially == Init => CleanInv
<1> SUFFICES ASSUME Init PROVE CleanInv
  OBVIOUS
<1>1. phase = "idle" /\ step = "issue"  BY DEF Init
<1>2. NamesApart
  <2>1. PICK ns \in StartNames : names = ns  BY DEF Init
  <2>2. ns \in [DOMAIN ns -> Range(ns)] /\ IsInjective(ns)  BY ProvisionAssumption DEF ProvisionAssumption
  <2>3. \A d, e \in DOMAIN ns : d # e => ns[d] # ns[e]  BY <2>2 DEF IsInjective
  <2>4. QED  BY <2>1, <2>3, TmpReserved DEF NamesApart
<1>3. Unique(groups)  BY GroupsUnique DEF Init
<1>4. NamesReady /\ ListInv /\ CleanPassSucceeds  BY <1>1 DEF NamesReady, ListInv, CleanPassSucceeds
<1>5. GroupsReady  BY <1>1 DEF GroupsReady, IdsAgree
<1>6. QED  BY <1>2, <1>3, <1>4, <1>5 DEF CleanInv

LEMMA CleanStep == PassInv /\ CleanInv /\ [Next]_vars => CleanInv'
<1> SUFFICES ASSUME PassInv, CleanInv, [Next]_vars PROVE CleanInv'
  OBVIOUS
<1>1. CASE Work
  BY <1>1, BeginClean, ProceedClean, FetchHitClean, FetchMissClean, FetchWokenClean, FetchTimeoutClean,
     MakePlanClean, ServedClean, RefusedClean DEF Work
<1>2. CASE Deliver  BY <1>2, DeliverClean
<1>3. CASE TimedOut  BY <1>3, TimedOutClean
<1>4. CASE SceneRejected  BY <1>4, SceneRejectedClean
<1>5. CASE PublishLost  BY <1>5, PublishLostClean
<1>6. CASE Kill  BY <1>6, KillClean
<1>7. CASE UNCHANGED vars
  <2>1. UNCHANGED <<names, groups, cache, due, phase, step, snap, todo, did, prune, unseen, cause>>
    BY <1>7 DEF vars, z2m, pass, budget
  <2>2. ListInv'  BY <2>1 DEF CleanInv, ListInv, Reads
  <2>3. ~unseen' /\ phase = "scenes" /\ step' \in {"plan", "issue"} => snap' = groups
    BY <2>1 DEF CleanInv, GroupsReady
  <2>4. QED  BY <2>1, <2>2, <2>3, QuietClean
<1>8. QED  BY <1>1, <1>2, <1>3, <1>4, <1>5, <1>6, <1>7 DEF Next

\* As long as nothing went unseen, every request still to be issued is one the
\* bridge accepts when its turn comes, unless a foreign device has the name it
\* takes or the member it adds is not paired; and the group list a phase waits
\* for is in the cache or on its way, but for one a "fresh" read took
\* (reconcile_names, reconcile_groups, fetch_retained).
THEOREM CleanInvariant == Spec => [](PassInv /\ CleanInv)
<1>1. Init => PassInv /\ CleanInv  BY PassInitially, CleanInitially
<1>2. PassInv /\ CleanInv /\ [Next]_vars => (PassInv /\ CleanInv)'  BY PassStep, CleanStep
<1>3. QED  BY <1>1, <1>2, PTL DEF Spec

\* A pass in which every request is served and every message in time fails in
\* three cases only: a clash of the bridge's groups (reconcile_groups); a name
\* that a foreign device has or a room member that is not paired, which the
\* bridge refuses (reconcile_names, reconcile_groups); or the list after a rename
\* or a removal that a "fresh" read already took (fetch_retained).  For any
\* configuration, any devices paired, and any names and groups found.
THEOREM CleanPasses == Spec => []CleanPassSucceeds
<1>1. PassInv /\ CleanInv => CleanPassSucceeds  BY DEF CleanInv
<1>2. QED  BY <1>1, CleanInvariant, PTL
=============================================================================
