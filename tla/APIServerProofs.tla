-------------------------- MODULE APIServerProofs --------------------------
(***************************************************************************)
(* Proofs about APIServer, for any number of servers, objects, providers,  *)
(* options and calls.                                                      *)
(*                                                                         *)
(* AInv is the loop invariant of BuildAPIGroupInfos: the groups made are   *)
(* below the one visited and this one below those left, none is skipped,   *)
(* and the storages made for the visited group are those of the APIs that  *)
(* are done, each in the map at its own key unless the storage of a        *)
(* subresource "status" took it.                                           *)
(*                                                                         *)
(* ProgramInv adds the strengthenings of the builder and of the options,   *)
(* which a startup preserves (ConfigOK: what it has started with stays as  *)
(* the lists say while it goes on); LInv follows the versions of an API    *)
(* from the scheme over the infos to what the server serves.               *)
(***************************************************************************)
EXTENDS APIServer, ServerOptionsProofs

(* What can become of a server.                                              *)
Phases == {"configured", "building", "built", "grouping", "adding",
           "rejected", "failed", "serving"}

(* BuildAPIGroupInfos and the installation of what it made.                  *)
Starting(s) == active = s /\ phase[s] \in {"grouping", "adding"}

(* An info was made for the group.                                           *)
HasInfo(g) == \E i \in DOMAIN apiGroups : apiGroups[i].group = g

(* At most one server is being built or started.                             *)
PhaseOK ==
  /\ phase \in [Servers -> Phases]
  /\ \A s \in Servers : phase[s] \in {"building", "grouping", "adding"} => active = s

(* The groups left and the APIs left are some of those in the map.           *)
ShapeOK ==
  /\ APIs \in Maps(GVRs, Providers)
  /\ DOMAIN visit = {"group", "gvrs", "apis"}
  /\ apiGroups \in Seq(ToSet(apiGroups))
  /\ groups \subseteq Groups(DOMAIN APIs)
  /\ visit.gvrs \subseteq DOMAIN APIs

(* The provider sp can make the storage x.                                   *)
MadeBy(x, sp) ==
  /\ sp # NilProvider /\ sp.fn = "set" /\ x.type # NoType
  /\ x.fn = "resource" => x.type = sp.type
  /\ x.fn = "status" => x.type = sp.status
  /\ x.fn = "arbitrary" => x.sub \in DOMAIN sp.subs /\ x.type = sp.subs[x.sub]

(* Every storage was made by a provider that can make it.                    *)
CreatedOK == \A x \in created : \E sp \in Providers : MadeBy(x, sp)

(* The map of the visited group has each storage at its own key.             *)
MapOK == \A k \in DOMAIN visit.apis : visit.apis[k] \in created /\ Key(visit.apis[k]) = k

(* The groups while a server starts: sorted, and none lost.                  *)
GroupsOK ==
  \A s \in Servers : Starting(s) =>
    /\ \A g \in groups :
         /\ \A i \in DOMAIN apiGroups : apiGroups[i].group < g
         /\ \A x \in created : x.gvr.group # g
    /\ phase[s] = "grouping" /\ groups # {} =>
         \A r \in DOMAIN APIs : r.group \in groups \/ HasInfo(r.group)

(* The APIs of the visited group that the inner loop is through with.        *)
Done == GroupGVRs(visit.group) \ visit.gvrs

(* The group that is visited. *)
VisitOK ==
  \A s \in Servers : active = s /\ phase[s] = "adding" =>
    /\ visit.group \in Groups(DOMAIN APIs)
    /\ visit.gvrs \subseteq GroupGVRs(visit.group)
    /\ \A i \in DOMAIN apiGroups : apiGroups[i].group < visit.group
    /\ \A g \in groups : visit.group < g
    /\ \A r \in DOMAIN APIs : r.group \in groups \/ r.group = visit.group \/ HasInfo(r.group)
    /\ \A r \in Done : APIs[r] # NilProvider
    /\ {x \in created : x.gvr.group = visit.group} = UNION {StoragesFor(s, r) : r \in Done}
    /\ {visit.apis[k] : k \in DOMAIN visit.apis} =
         UNION {{x \in StoragesFor(s, r) : ~Replaced(x, StoragesFor(s, r))} : r \in Done}

(* The loop invariant of BuildAPIGroupInfos.                                 *)
AInv == PhaseOK /\ ShapeOK /\ CreatedOK /\ MapOK /\ GroupsOK /\ VisitOK

-----------------------------------------------------------------------------
(* An entry of APIs: its key has a group and its value is a provider.        *)
LEMMA KeysOfAPIs ==
  ASSUME APIs \in Maps(GVRs, Providers), NEW r \in DOMAIN APIs
  PROVE  /\ APIs[r] \in Providers /\ r.group \in Nat
         /\ r = [group |-> r.group, version |-> r.version, resource |-> r.resource]
<1>1. PICK D \in SUBSET GVRs : APIs \in [D -> Providers]
  BY DEF Maps
<1>2. r \in GVRs /\ APIs[r] \in Providers
  BY <1>1
<1>3. PICK o \in Objects : r = [group |-> o.group, version |-> o.version, resource |-> o.resource]
  BY <1>2 DEF GVRs, GVR
<1> QED BY <1>2, <1>3, APIServerAssumption

(* Every storage made for r says so, and two that are kept have two keys.    *)
LEMMA StoragesLemma ==
  ASSUME APIs \in Maps(GVRs, Providers), NEW r \in DOMAIN APIs, NEW s,
         APIs[r] # NilProvider
  PROVE  LET xs == StoragesFor(s, r)
         IN  /\ \A x \in xs : x.gvr = r
             /\ \A x, y \in xs :
                  ~Replaced(x, xs) /\ ~Replaced(y, xs) /\ Key(x) = Key(y) => x = y
<1> DEFINE xs == StoragesFor(s, r)
           TypeOf(fn, sub) == CASE fn = "resource" -> APIs[r].type
                                [] fn = "status"   -> APIs[r].status
                                [] OTHER           -> APIs[r].subs[sub]
           Made(fn, sub) == Storage(s, r, fn, sub, TypeOf(fn, sub))
<1>1. "" \notin DOMAIN APIs[r].subs
  BY KeysOfAPIs, APIServerAssumption
<1>2. \A x \in xs :
        /\ x = Made(x.fn, x.sub)
        /\ \/ x.fn = "resource" /\ x.sub = ""
           \/ x.fn = "status" /\ x.sub = "status"
           \/ x.fn = "arbitrary" /\ x.sub \in Subs(APIs[r])
  <2> SUFFICES ASSUME NEW x \in xs
               PROVE  /\ x = Made(x.fn, x.sub)
                      /\ \/ x.fn = "resource" /\ x.sub = ""
                         \/ x.fn = "status" /\ x.sub = "status"
                         \/ x.fn = "arbitrary" /\ x.sub \in Subs(APIs[r])
    OBVIOUS
  <2>1. \A fn, sub : Made(fn, sub).fn = fn /\ Made(fn, sub).sub = sub
    BY DEF Storage
  <2>2. \/ x = Made("resource", "")
        \/ x = Made("status", "status")
        \/ \E n \in Subs(APIs[r]) : x = Made("arbitrary", n)
    <3>1. \/ x = Storage(s, r, "resource", "", APIs[r].type)
          \/ x = Storage(s, r, "status", "status", APIs[r].status)
          \/ \E n \in Subs(APIs[r]) : x = Storage(s, r, "arbitrary", n, APIs[r].subs[n])
      BY DEF StoragesFor
    <3>2. /\ TypeOf("resource", "") = APIs[r].type /\ TypeOf("status", "status") = APIs[r].status
          /\ \A n : TypeOf("arbitrary", n) = APIs[r].subs[n]
      OBVIOUS
    <3> HIDE DEF TypeOf
    <3> QED BY <3>1, <3>2
  <2> HIDE DEF Made
  <2>3. PICK fn, sub : /\ x = Made(fn, sub)
                       /\ \/ fn = "resource" /\ sub = ""
                          \/ fn = "status" /\ sub = "status"
                          \/ fn = "arbitrary" /\ sub \in Subs(APIs[r])
    BY <2>2
  <2>4. x.fn = fn /\ x.sub = sub
    BY <2>1, <2>3
  <2> QED BY <2>3, <2>4
<1>3. ASSUME NEW x \in xs PROVE x.gvr = r
  <2> DEFINE y == Made(x.fn, x.sub)
  <2>1. y.gvr = r
    BY DEF Storage
  <2> HIDE DEF Made
  <2> QED BY <1>2, <2>1
<1>4. ASSUME NEW x \in xs, NEW y \in xs, ~Replaced(x, xs), ~Replaced(y, xs), Key(x) = Key(y)
      PROVE  x = y
  <2>1. x.sub = y.sub
    BY <1>4 DEF Key
  <2>2. ~(x.fn = "status" /\ y.fn = "arbitrary") /\ ~(y.fn = "status" /\ x.fn = "arbitrary")
    BY <1>4 DEF Replaced
  <2>3. \A n \in Subs(APIs[r]) : n # ""
    BY <1>1 DEF Subs
  <2>4. x.fn = y.fn
    BY <1>2, <2>1, <2>2, <2>3
  <2> HIDE DEF Made
  <2>5. x = Made(x.fn, x.sub) /\ y = Made(y.fn, y.sub)
    BY <1>2
  <2> QED BY <2>1, <2>4, <2>5
<1> QED BY <1>3, <1>4

(* Place has exactly the storages that are kept, each at its key.            *)
LEMMA PlaceLemma ==
  ASSUME NEW xs, \A x, y \in xs : ~Replaced(x, xs) /\ ~Replaced(y, xs) /\ Key(x) = Key(y) => x = y
  PROVE  LET kept == {x \in xs : ~Replaced(x, xs)}
         IN  /\ DOMAIN Place(xs) = {Key(x) : x \in kept}
             /\ \A x \in kept : Place(xs)[Key(x)] = x
             /\ \A k \in DOMAIN Place(xs) : Place(xs)[k] \in kept /\ Key(Place(xs)[k]) = k
<1> DEFINE kept == {x \in xs : ~Replaced(x, xs)}
<1>1. DOMAIN Place(xs) = {Key(x) : x \in kept}
  BY DEF Place
<1>2. ASSUME NEW k \in {Key(x) : x \in kept}
      PROVE  Place(xs)[k] \in kept /\ Key(Place(xs)[k]) = k
  <2>1. Place(xs)[k] = CHOOSE x \in kept : Key(x) = k
    BY <1>2 DEF Place
  <2>2. \E x \in kept : Key(x) = k
    BY <1>2
  <2> QED BY <2>1, <2>2
<1>3. ASSUME NEW x \in kept
      PROVE  Place(xs)[Key(x)] = x
  <2>1. Place(xs)[Key(x)] \in kept /\ Key(Place(xs)[Key(x)]) = Key(x)
    BY <1>2
  <2> QED BY <2>1
<1> QED BY <1>1, <1>2, <1>3

(* A sequence is one of its own elements, whatever they are.                 *)
LEMMA SelfSeq ==
  ASSUME NEW S, NEW q \in Seq(S)
  PROVE  q \in Seq(ToSet(q))
<1>1. Len(q) \in Nat /\ DOMAIN q = 1..Len(q) /\ q \in [1..Len(q) -> S]
  BY LenProperties
<1>2. q \in [1..Len(q) -> ToSet(q)]
  BY <1>1 DEF ToSet
<1> QED BY <1>1, <1>2, SeqDef

(* The infos after one more is appended.                                     *)
LEMMA AppendInfo ==
  ASSUME NEW q, q \in Seq(ToSet(q)), NEW x
  PROVE  LET n == Append(q, x)
         IN  /\ n \in Seq(ToSet(n))
             /\ \A i \in DOMAIN n : n[i] = x \/ (i \in DOMAIN q /\ n[i] = q[i])
             /\ \A i \in DOMAIN q : i \in DOMAIN n /\ n[i] = q[i]
             /\ Last(n) = x /\ \E i \in DOMAIN n : n[i] = x
<1> DEFINE T == ToSet(q) \cup {x}
           n == Append(q, x)
<1>1. q \in Seq(T) /\ x \in T
  <2>1. Len(q) \in Nat /\ q \in [1..Len(q) -> ToSet(q)]
    BY LenProperties
  <2>2. q \in [1..Len(q) -> T]
    BY <2>1
  <2> QED BY <2>1, <2>2, SeqDef
<1>2. /\ n \in Seq(T) /\ Len(n) = Len(q) + 1 /\ Len(q) \in Nat
      /\ \A i \in 1..Len(q) : n[i] = q[i]
      /\ n[Len(q) + 1] = x
  BY <1>1, AppendProperties, LenProperties
<1>3. DOMAIN n = 1..(Len(q) + 1) /\ DOMAIN q = 1..Len(q)
  BY <1>1, <1>2, LenProperties
<1>4. Last(n) = x
  BY <1>2 DEF Last
<1>5. n \in Seq(ToSet(n))
  BY <1>2, SelfSeq
<1>6. \A i \in DOMAIN n : i = Len(q) + 1 \/ i \in DOMAIN q
  BY <1>2, <1>3
<1>7. Len(q) + 1 \in DOMAIN n /\ \A i \in DOMAIN q : i \in DOMAIN n
  BY <1>2, <1>3
<1>8. \A i \in DOMAIN n : n[i] = x \/ (i \in DOMAIN q /\ n[i] = q[i])
  BY <1>2, <1>3, <1>6
<1>9. \A i \in DOMAIN q : i \in DOMAIN n /\ n[i] = q[i]
  BY <1>2, <1>3, <1>7
<1>10. \E i \in DOMAIN n : n[i] = x
  BY <1>2, <1>7
<1> QED BY <1>4, <1>5, <1>8, <1>9, <1>10

(* The infos after the first is taken away.                                  *)
LEMMA TailInfo ==
  ASSUME NEW q, q \in Seq(ToSet(q)), q # << >>
  PROVE  LET n == Tail(q)
         IN  /\ n \in Seq(ToSet(n))
             /\ \A i \in DOMAIN n : \E j \in DOMAIN q : n[i] = q[j]
<1> DEFINE n == Tail(q)
<1>1. /\ n \in Seq(ToSet(q)) /\ Len(n) = Len(q) - 1 /\ Len(q) \in Nat /\ Len(q) > 0
      /\ \A i \in 1..Len(n) : n[i] = q[i + 1]
  BY HeadTailProperties, EmptySeq, LenProperties
<1>2. DOMAIN n = 1..Len(n) /\ DOMAIN q = 1..Len(q)
  BY <1>1, LenProperties
<1>3. n \in Seq(ToSet(n))
  BY <1>1, SelfSeq
<1>4. \A i \in DOMAIN n : i + 1 \in DOMAIN q
  BY <1>1, <1>2
<1> QED BY <1>1, <1>2, <1>3, <1>4

-----------------------------------------------------------------------------
(* Outside a startup the locals have nothing in them.                        *)
LEMMA NoVisitOK ==
  /\ DOMAIN NoVisit = {"group", "gvrs", "apis"} /\ NoVisit.gvrs = {} /\ DOMAIN NoVisit.apis = {}
  /\ << >> \in Seq(ToSet(<< >>)) /\ DOMAIN << >> = {}
BY DEF NoVisit, EmptyMap

(* No server starts at first.                                                *)
LEMMA InitInv == Init => AInv
<1> SUFFICES ASSUME Init PROVE AInv
  OBVIOUS
<1>1. /\ APIs = EmptyMap /\ phase = [s \in Servers |-> "configured"] /\ active = NoServer
      /\ groups = {} /\ visit = NoVisit /\ apiGroups = << >> /\ created = {}
  BY DEF Init, BuildInit, RegInit
<1>2. PhaseOK
  BY <1>1 DEF PhaseOK, Phases
<1>3. APIs \in Maps(GVRs, Providers)
  <2>1. APIs \in [{} -> Providers] /\ {} \in SUBSET GVRs
    BY <1>1 DEF EmptyMap
  <2> QED BY <2>1 DEF Maps
<1>4. ShapeOK /\ MapOK
  BY <1>1, <1>3, NoVisitOK DEF ShapeOK, MapOK
<1>5. CreatedOK /\ GroupsOK /\ VisitOK
  BY <1>1, BuilderAssumption DEF CreatedOK, GroupsOK, VisitOK, Starting
<1> QED BY <1>2, <1>4, <1>5 DEF AInv

(* While no server starts, what a startup left behind only has to keep its   *)
(* type, and a registration may add to APIs.                                 *)
LEMMA NotStarting ==
  ASSUME AInv, PhaseOK', APIs' \in Maps(GVRs, Providers), DOMAIN APIs \subseteq DOMAIN APIs',
         UNCHANGED runVars, \A s \in Servers : ~Starting(s)'
  PROVE  AInv'
<1>1. UNCHANGED <<groups, visit, apiGroups, created>>
  BY DEF runVars
<1>2. ShapeOK'
  BY <1>1 DEF AInv, ShapeOK, Groups
<1>3. CreatedOK' /\ MapOK'
  BY <1>1 DEF AInv, CreatedOK, MapOK
<1>4. GroupsOK' /\ VisitOK'
  BY DEF GroupsOK, VisitOK, Starting
<1> QED BY <1>2, <1>3, <1>4 DEF AInv

(* A step of the configuration or of a Build is taken while no server        *)
(* starts.                                                                   *)
LEMMA OutsideStep ==
  ASSUME AInv, OptionsNext, UNCHANGED runVars
  PROVE  AInv' /\ \A s \in Servers : ~Starting(s) /\ ~Starting(s)'
<1> USE DEF AInv
<1>1. CASE Customize
  <2>1. Idle /\ UNCHANGED <<APIs, phase, active>>
    BY <1>1 DEF Customize, WithOptionsFns, WithConfigFns, WithServerFns, WithOpenAPIDefinitions,
                WithoutEtcd, WithLocalDebugExtension, AppendFns, regVars
  <2>2. \A s \in Servers : ~Starting(s) /\ ~Starting(s)'
    BY <2>1, BuilderAssumption DEF Idle, Starting
  <2>3. PhaseOK' /\ APIs' \in Maps(GVRs, Providers)
    BY <2>1 DEF PhaseOK, ShapeOK
  <2> QED BY <2>1, <2>2, <2>3, NotStarting
<1>2. ASSUME NEW s \in Servers, NEW o \in Objects, NEW sp \in Providers, Register(s, o, sp)
      PROVE  AInv' /\ \A t \in Servers : ~Starting(t) /\ ~Starting(t)'
  <2>1. Idle /\ UNCHANGED <<phase, active>> /\ APIs' = Put(APIs, GVR(o), sp)
    BY <1>2 DEF Register, buildVars, WithResourceAndHandler, forGroupVersionResource
  <2>2. \A t \in Servers : ~Starting(t) /\ ~Starting(t)'
    BY <2>1, BuilderAssumption DEF Idle, Starting
  <2>3. APIs' \in Maps(GVRs, Providers) /\ DOMAIN APIs \subseteq DOMAIN APIs'
    <3>1. PICK D \in SUBSET GVRs : APIs \in [D -> Providers]
      BY DEF ShapeOK, Maps
    <3>2. GVR(o) \in GVRs
      BY DEF GVRs
    <3>3. APIs' \in [D \cup {GVR(o)} -> Providers] /\ D \cup {GVR(o)} \in SUBSET GVRs
      BY <2>1, <3>1, <3>2 DEF Put
    <3> QED BY <3>1, <3>3 DEF Maps
  <2>4. PhaseOK'
    BY <2>1 DEF PhaseOK
  <2> QED BY <2>2, <2>3, <2>4, NotStarting
<1>3. ASSUME UNCHANGED APIs, NEW s \in Servers,
             \/ Idle /\ UNCHANGED <<phase, active>>
             \/ active = s /\ phase[s] = "building" /\ UNCHANGED <<phase, active>>
             \/ /\ active = s /\ phase[s] = "building"
                /\ phase' = [phase EXCEPT ![s] = "built"] /\ active' = NoServer
             \/ Idle /\ phase' = [phase EXCEPT ![s] = "building"] /\ active' = s
      PROVE  AInv' /\ \A t \in Servers : ~Starting(t) /\ ~Starting(t)'
  <2>1. \A t \in Servers : ~Starting(t) /\ ~Starting(t)'
    BY <1>3, BuilderAssumption DEF Idle, Starting, PhaseOK
  <2>2. PhaseOK' /\ APIs' \in Maps(GVRs, Providers)
    BY <1>3, BuilderAssumption DEF Idle, PhaseOK, Phases, ShapeOK
  <2> QED BY <1>3, <2>1, <2>2, NotStarting
<1>4. ASSUME NEW s \in Servers, NEW path, WithEtcdPath(s, path)
      PROVE  AInv' /\ \A t \in Servers : ~Starting(t) /\ ~Starting(t)'
  <2>1. Idle /\ UNCHANGED <<APIs, phase, active>>
    BY <1>4 DEF WithEtcdPath, regVars
  <2> QED BY <1>3, <2>1
<1>5. ASSUME NEW name, WithFlagFns(name)
      PROVE  AInv' /\ \A t \in Servers : ~Starting(t) /\ ~Starting(t)'
  <2>1. Idle /\ UNCHANGED <<APIs, phase, active>>
    BY <1>5 DEF WithFlagFns, regVars
  <2>2. \A t \in Servers : ~Starting(t) /\ ~Starting(t)'
    BY <2>1, BuilderAssumption DEF Idle, Starting
  <2>3. PhaseOK' /\ APIs' \in Maps(GVRs, Providers)
    BY <2>1 DEF PhaseOK, ShapeOK
  <2> QED BY <2>1, <2>2, <2>3, NotStarting
<1>6. ASSUME NEW s \in Servers, Build(s)
      PROVE  AInv' /\ \A t \in Servers : ~Starting(t) /\ ~Starting(t)'
  <2>1. /\ Idle /\ UNCHANGED APIs
        /\ phase' = [phase EXCEPT ![s] = "building"] /\ active' = s
    BY <1>6 DEF Build
  <2> QED BY <1>3, <2>1
<1>7. ASSUME NEW s \in Servers, RunAddToScheme(s) \/ RunSetVersionPriority(s)
      PROVE  AInv' /\ \A t \in Servers : ~Starting(t) /\ ~Starting(t)'
  <2>1. active = s /\ phase[s] = "building" /\ UNCHANGED <<APIs, phase, active>>
    BY <1>7 DEF RunAddToScheme, RunSetVersionPriority, AddingToScheme, regVars
  <2> QED BY <1>3, <2>1
<1>8. ASSUME NEW s \in Servers, FinishBuild(s)
      PROVE  AInv' /\ \A t \in Servers : ~Starting(t) /\ ~Starting(t)'
  <2>1. /\ active = s /\ phase[s] = "building" /\ UNCHANGED APIs
        /\ phase' = [phase EXCEPT ![s] = "built"] /\ active' = NoServer
    BY <1>8 DEF FinishBuild, regVars
  <2> QED BY <1>3, <2>1
<1> QED BY <1>1, <1>2, <1>4, <1>5, <1>6, <1>7, <1>8
        DEF OptionsNext, BuildNext, Configure, BuildStep

-----------------------------------------------------------------------------
(* The command is executed: nothing is made yet.                             *)
LEMMA RunInv ==
  ASSUME AInv, NEW s \in Servers, Run(s)
  PROVE  AInv' /\ phase[s] = "built" /\ active = NoServer
<1> USE DEF AInv
<1>1. /\ active = NoServer /\ phase[s] = "built" /\ UNCHANGED APIs /\ visit' = NoVisit
      /\ \/ phase' = [phase EXCEPT ![s] = "failed"]
         \/ phase' = phase
         \/ phase' = [phase EXCEPT ![s] = "grouping"]
      /\ IF phase'[s] = "grouping"
         THEN active' = s /\ groups' = Groups(DOMAIN APIs) /\ apiGroups' = << >> /\ created' = {}
         ELSE UNCHANGED <<active, groups, apiGroups, created>>
  BY DEF Run, Idle, StartCommand, regVars
<1>4. \A t \in Servers : phase[t] \notin {"grouping", "adding"} /\ active # t
  BY <1>1, BuilderAssumption DEF PhaseOK
<1>5. PhaseOK'
  BY <1>1, <1>4, BuilderAssumption DEF PhaseOK, Phases
<1>6. MapOK' /\ CreatedOK'
  BY <1>1, NoVisitOK DEF MapOK, CreatedOK
<1>7. ShapeOK'
  BY <1>1, NoVisitOK DEF ShapeOK, Groups
<1>8. GroupsOK'
  BY <1>1, <1>4, NoVisitOK DEF GroupsOK, Starting, Groups, HasInfo, PhaseOK
<1>9. VisitOK'
  BY <1>1, <1>4 DEF VisitOK, PhaseOK
<1> QED BY <1>1, <1>5, <1>6, <1>7, <1>8, <1>9

(* The next group: the storages of none of its APIs have been made.          *)
LEMMA StartGroupInv ==
  ASSUME AInv, NEW s \in Servers, StartGroup(s)
  PROVE  AInv' /\ phase'[s] = "adding"
<1> USE DEF AInv
<1>1. PICK g \in groups : /\ \A h \in groups : g <= h
                          /\ groups' = groups \ {g}
                          /\ visit' = [group |-> g, gvrs |-> GroupGVRs(g), apis |-> EmptyMap]
  BY DEF StartGroup
<1>2. /\ active = s /\ phase[s] = "grouping" /\ phase' = [phase EXCEPT ![s] = "adding"]
      /\ UNCHANGED <<APIs, active, apiGroups, created>>
  BY DEF StartGroup, InPhase, Enter, ConfigUnchanged, regVars
<1>3. /\ DOMAIN visit' = {"group", "gvrs", "apis"} /\ visit'.group = g
      /\ visit'.gvrs = GroupGVRs(g) /\ DOMAIN visit'.apis = {}
  BY <1>1 DEF EmptyMap
<1>4. \A h \in groups : h \in Nat
  BY KeysOfAPIs DEF ShapeOK, Groups
<1>5. \A h \in groups \ {g} : g < h
  BY <1>1, <1>4
<1>6. PhaseOK' /\ phase'[s] = "adding" /\ \A t \in Servers : t # s => active' # t
  BY <1>2 DEF PhaseOK, Phases
<1>7. ShapeOK' /\ CreatedOK' /\ MapOK'
  BY <1>1, <1>2, <1>3 DEF ShapeOK, GroupGVRs, Groups, CreatedOK, MapOK
<1>8. /\ \A h \in groups : /\ \A i \in DOMAIN apiGroups : apiGroups[i].group < h
                           /\ \A x \in created : x.gvr.group # h
      /\ \A r \in DOMAIN APIs : r.group \in groups \/ HasInfo(r.group)
  BY <1>1, <1>2 DEF GroupsOK, Starting
<1>9. GroupsOK'
  BY <1>1, <1>2, <1>6, <1>8 DEF GroupsOK, Starting
<1>10. VisitOK'
  <2>1. Done' = {}
    BY <1>2, <1>3 DEF Done, GroupGVRs
  <2>2. {x \in created : x.gvr.group = g} = {}
    BY <1>8
  <2>3. {visit'.apis[k] : k \in DOMAIN visit'.apis} = {}
    BY <1>3
  <2>4. g \in Groups(DOMAIN APIs) /\ GroupGVRs(g)' = GroupGVRs(g)
    BY <1>2 DEF ShapeOK, GroupGVRs
  <2>5. \A r \in DOMAIN APIs : r.group \in groups' \/ r.group = g \/ HasInfo(r.group)'
    BY <1>1, <1>2, <1>8 DEF HasInfo
  <2> QED BY <1>1, <1>2, <1>3, <1>5, <1>6, <1>8, <2>1, <2>2, <2>3, <2>4, <2>5 DEF VisitOK
<1> QED BY <1>6, <1>7, <1>9, <1>10

(* The storages of a provider that is not nil are of the kinds it has.       *)
LEMMA MadeLemma ==
  ASSUME APIs \in Maps(GVRs, Providers), NEW r \in DOMAIN APIs, NEW s \in Servers,
         ~Crashes(APIs[r]), APIs[r].fn = "set", NEW x \in StoragesFor(s, r)
  PROVE  /\ APIs[r] \in Providers /\ MadeBy(x, APIs[r])
         /\ x.gvr = r /\ x.type \in StorageTypes(APIs[r])
<1>1. APIs[r] \in Providers /\ APIs[r] # NilProvider
  BY KeysOfAPIs DEF Crashes
<1>2. PICK fn, sub, t :
        /\ x = Storage(s, r, fn, sub, t) /\ t # NoType
        /\ \/ fn = "resource" /\ t = APIs[r].type
           \/ fn = "status" /\ t = APIs[r].status
           \/ fn = "arbitrary" /\ sub \in DOMAIN APIs[r].subs /\ t = APIs[r].subs[sub]
  <2>1. \/ x = Storage(s, r, "resource", "", APIs[r].type)
        \/ x = Storage(s, r, "status", "status", APIs[r].status) /\ APIs[r].status # NoType
        \/ \E n \in Subs(APIs[r]) : x = Storage(s, r, "arbitrary", n, APIs[r].subs[n])
    BY DEF StoragesFor
  <2>2. APIs[r].type # NoType
    BY <1>1, APIServerAssumption
  <2>3. CASE x = Storage(s, r, "resource", "", APIs[r].type)
    BY <2>2, <2>3
  <2>4. CASE x = Storage(s, r, "status", "status", APIs[r].status) /\ APIs[r].status # NoType
    BY <2>4
  <2>5. CASE \E n \in Subs(APIs[r]) : x = Storage(s, r, "arbitrary", n, APIs[r].subs[n])
    BY <2>5 DEF Subs
  <2> QED BY <2>1, <2>3, <2>4, <2>5
<1>3. x.fn = fn /\ x.sub = sub /\ x.type = t /\ x.gvr = r
  BY <1>2 DEF Storage
<1>4. MadeBy(x, APIs[r])
  BY <1>1, <1>2, <1>3 DEF MadeBy
<1>5. x.type \in StorageTypes(APIs[r])
  BY <1>2, <1>3 DEF StorageTypes
<1> QED BY <1>1, <1>3, <1>4, <1>5

(* A union over one index more.                                              *)
LEMMA UnionAdd ==
  ASSUME NEW B, NEW c
  PROVE  UNION (B \cup {c}) = (UNION B) \cup c
<1>1. ASSUME NEW x \in UNION (B \cup {c}) PROVE x \in (UNION B) \cup c
  <2>1. PICK y \in B \cup {c} : x \in y
    OBVIOUS
  <2>2. y \in B \/ y = c
    OBVIOUS
  <2> QED BY <2>1, <2>2, Zenon
<1>2. ASSUME NEW x \in (UNION B) \cup c PROVE x \in UNION (B \cup {c})
  <2>1. CASE x \in c
    BY <2>1, Zenon
  <2>2. CASE x \in UNION B
    BY <2>2, Zenon
  <2> QED BY <2>1, <2>2
<1> QED BY <1>1, <1>2

(* One more API of the group is done: its storages have keys that no storage *)
(* of another API of the group has.                                          *)
LEMMA AddResourceInv ==
  ASSUME AInv, NEW s \in Servers, AddResource(s)
  PROVE  AInv' /\ phase'[s] = "adding"
<1> USE DEF AInv
<1>1. PICK r \in visit.gvrs :
        /\ ~Crashes(APIs[r]) /\ APIs[r].fn = "set"
        /\ visit' = [visit EXCEPT !.gvrs = @ \ {r},
                                  !.apis = Merge(@, Place(StoragesFor(s, r)))]
        /\ created' = created \cup StoragesFor(s, r)
  BY DEF AddResource
<1>2. /\ active = s /\ phase[s] = "adding"
      /\ UNCHANGED <<APIs, phase, active, groups, apiGroups>>
  BY DEF AddResource, InPhase, ConfigUnchanged, regVars
<1> DEFINE xs == StoragesFor(s, r)
           kept == {x \in xs : ~Replaced(x, xs)}
           g == visit.group
<1>3. /\ DOMAIN visit' = {"group", "gvrs", "apis"} /\ visit'.group = g
      /\ visit'.gvrs = visit.gvrs \ {r} /\ visit'.apis = Merge(visit.apis, Place(xs))
  BY <1>1 DEF ShapeOK
<1>4. /\ r \in DOMAIN APIs /\ r.group = g /\ APIs[r] # NilProvider /\ r \in GroupGVRs(g)
      /\ visit.gvrs \subseteq GroupGVRs(g)
  BY <1>1, <1>2 DEF VisitOK, GroupGVRs, Crashes
<1>5. /\ \A x \in xs : x.gvr = r
      /\ \A x, y \in xs : ~Replaced(x, xs) /\ ~Replaced(y, xs) /\ Key(x) = Key(y) => x = y
  BY <1>4, StoragesLemma DEF ShapeOK
<1>6. /\ DOMAIN Place(xs) = {Key(x) : x \in kept}
      /\ \A x \in kept : Place(xs)[Key(x)] = x
      /\ \A k \in DOMAIN Place(xs) : Place(xs)[k] \in kept /\ Key(Place(xs)[k]) = k
  BY <1>5, PlaceLemma
<1>7. /\ DOMAIN visit'.apis = DOMAIN visit.apis \cup DOMAIN Place(xs)
      /\ \A k \in DOMAIN Place(xs) : visit'.apis[k] = Place(xs)[k]
      /\ \A k \in DOMAIN visit.apis \ DOMAIN Place(xs) : visit'.apis[k] = visit.apis[k]
  BY <1>3 DEF Merge
<1>8. PhaseOK'
  BY <1>2 DEF PhaseOK
<1>9. ShapeOK'
  BY <1>2, <1>3 DEF ShapeOK, Groups
<1>10. CreatedOK'
  <2> SUFFICES ASSUME NEW x \in created'
               PROVE  \E sp \in Providers : MadeBy(x, sp)
    BY DEF CreatedOK
  <2>1. CASE x \in created
    BY <2>1 DEF CreatedOK
  <2>2. CASE x \in xs
    BY <1>1, <1>4, <2>2, MadeLemma DEF ShapeOK
  <2> QED BY <1>1, <2>1, <2>2
<1>11. MapOK'
  <2> SUFFICES ASSUME NEW k \in DOMAIN visit'.apis
               PROVE  visit'.apis[k] \in created' /\ Key(visit'.apis[k]) = k
    BY DEF MapOK
  <2>1. CASE k \in DOMAIN Place(xs)
    BY <1>1, <1>6, <1>7, <2>1
  <2>2. CASE k \in DOMAIN visit.apis \ DOMAIN Place(xs)
    BY <1>1, <1>7, <2>2 DEF MapOK
  <2> QED BY <1>7, <2>1, <2>2
<1>12. /\ g \in Groups(DOMAIN APIs)
       /\ \A i \in DOMAIN apiGroups : apiGroups[i].group < g
       /\ \A h \in groups : g < h
       /\ \A q \in DOMAIN APIs : q.group \in groups \/ q.group = g \/ HasInfo(q.group)
       /\ \A q \in Done : APIs[q] # NilProvider
       /\ {x \in created : x.gvr.group = g} = UNION {StoragesFor(s, q) : q \in Done}
       /\ {visit.apis[k] : k \in DOMAIN visit.apis} =
            UNION {{x \in StoragesFor(s, q) : ~Replaced(x, StoragesFor(s, q))} : q \in Done}
  BY <1>2 DEF VisitOK
<1>13. GroupsOK'
  <2>1. \A h \in groups : /\ \A i \in DOMAIN apiGroups : apiGroups[i].group < h
                         /\ \A x \in created : x.gvr.group # h
    BY <1>2 DEF GroupsOK, Starting
  <2>2. \A h \in groups : h # g
    <3>1. \A h \in groups : h \in Nat
      BY KeysOfAPIs DEF ShapeOK, Groups
    <3>2. g \in Nat
      BY <1>4, KeysOfAPIs DEF ShapeOK
    <3> QED BY <1>12, <3>1, <3>2
  <2>3. \A h \in groups : \A x \in created' : x.gvr.group # h
    BY <1>1, <1>4, <1>5, <2>1, <2>2
  <2>4. \A t \in Servers : Starting(t)' => t = s
    BY <1>2 DEF Starting
  <2> QED BY <1>2, <2>1, <2>3, <2>4 DEF GroupsOK
<1>14. Done' = Done \cup {r}
  BY <1>1, <1>2, <1>3, <1>4 DEF Done, GroupGVRs
<1>15. \A q : StoragesFor(s, q)' = StoragesFor(s, q)
  BY <1>2 DEF StoragesFor, Storage
<1>16. {x \in created' : x.gvr.group = g} = UNION {StoragesFor(s, q) : q \in Done'}
  <2>1. {x \in created' : x.gvr.group = g} = {x \in created : x.gvr.group = g} \cup xs
    BY <1>1, <1>4, <1>5
  <2> QED BY <1>12, <1>14, <2>1
<1>17. {visit'.apis[k] : k \in DOMAIN visit'.apis} = {visit.apis[k] : k \in DOMAIN visit.apis} \cup kept
  <2>1. ASSUME NEW k \in DOMAIN visit.apis PROVE k \notin DOMAIN Place(xs)
    <3> SUFFICES ASSUME k \in DOMAIN Place(xs) PROVE FALSE
      OBVIOUS
    <3>1. PICK y \in kept : Key(y) = k
      BY <1>6
    <3> DEFINE x == visit.apis[k]
    <3>2. x \in {visit.apis[j] : j \in DOMAIN visit.apis} /\ Key(x) = k
      BY <2>1 DEF MapOK
    <3>3. PICK q \in Done : x \in StoragesFor(s, q)
      BY <1>12, <3>2
    <3>4. q \in DOMAIN APIs /\ q.group = g /\ q # r /\ APIs[q] # NilProvider
      BY <1>1, <1>12 DEF Done, GroupGVRs
    <3>5. x.gvr = q
      BY <3>3, <3>4, StoragesLemma DEF ShapeOK
    <3>6. y.gvr = r
      BY <1>5
    <3>7. q.version = r.version /\ q.resource = r.resource
      BY <3>1, <3>2, <3>5, <3>6 DEF Key
    <3>8. q = r
      <4>1. q = [group |-> q.group, version |-> q.version, resource |-> q.resource]
        BY <3>4, KeysOfAPIs DEF ShapeOK
      <4>2. r = [group |-> r.group, version |-> r.version, resource |-> r.resource]
        BY <1>4, KeysOfAPIs DEF ShapeOK
      <4> QED BY <1>4, <3>4, <3>7, <4>1, <4>2
    <3> QED BY <3>4, <3>8
  <2>2. {Place(xs)[k] : k \in DOMAIN Place(xs)} = kept
    <3>1. \A x \in kept : Key(x) \in DOMAIN Place(xs) /\ Place(xs)[Key(x)] = x
      BY <1>6
    <3> HIDE DEF kept
    <3> QED BY <1>6, <3>1
  <2>3. {visit'.apis[k] : k \in DOMAIN visit'.apis} =
          {visit'.apis[k] : k \in DOMAIN visit.apis} \cup {visit'.apis[k] : k \in DOMAIN Place(xs)}
    BY <1>7
  <2>4. {visit'.apis[k] : k \in DOMAIN visit.apis} = {visit.apis[k] : k \in DOMAIN visit.apis}
    BY <1>7, <2>1
  <2>5. {visit'.apis[k] : k \in DOMAIN Place(xs)} = {Place(xs)[k] : k \in DOMAIN Place(xs)}
    BY <1>7
  <2> QED BY <2>2, <2>3, <2>4, <2>5
<1>18. {visit'.apis[k] : k \in DOMAIN visit'.apis} =
         UNION {{x \in StoragesFor(s, q) : ~Replaced(x, StoragesFor(s, q))} : q \in Done'}
  <2> DEFINE F(q) == {x \in StoragesFor(s, q) : ~Replaced(x, StoragesFor(s, q))}
  <2>1. /\ kept = F(r)
        /\ {visit.apis[k] : k \in DOMAIN visit.apis} = UNION {F(q) : q \in Done}
    BY <1>12
  <2>2. {visit'.apis[k] : k \in DOMAIN visit'.apis} = UNION {F(q) : q \in Done'}
    <3> HIDE DEF F, kept
    <3>1. UNION {F(q) : q \in Done \cup {r}} = (UNION {F(q) : q \in Done}) \cup F(r)
      <4>1. {F(q) : q \in Done \cup {r}} = {F(q) : q \in Done} \cup {F(r)}
        BY Zenon
      <4>2. UNION ({F(q) : q \in Done} \cup {F(r)}) = (UNION {F(q) : q \in Done}) \cup F(r)
        BY UnionAdd, Zenon
      <4> QED BY <4>1, <4>2, Zenon
    <3> QED BY <1>14, <1>17, <2>1, <3>1
  <2> QED BY <2>2
<1>19. VisitOK'
  <2>1. \A q \in DOMAIN APIs : HasInfo(q.group)' <=> HasInfo(q.group)
    BY <1>2 DEF HasInfo
  <2>2. \A q \in Done' : APIs[q] # NilProvider
    BY <1>4, <1>12, <1>14
  <2>3. visit'.gvrs \subseteq GroupGVRs(g)' /\ \A t \in Servers : active' = t => t = s
    BY <1>2, <1>3, <1>4 DEF GroupGVRs
  <2>4. {x \in created' : x.gvr.group = visit'.group} = UNION {StoragesFor(s, q)' : q \in Done'}
    BY <1>3, <1>15, <1>16
  <2>5. {visit'.apis[k] : k \in DOMAIN visit'.apis} =
          UNION {{x \in StoragesFor(s, q)' : ~Replaced(x, StoragesFor(s, q)')} : q \in Done'}
    BY <1>15, <1>18
  <2> QED BY <1>2, <1>3, <1>12, <2>1, <2>2, <2>3, <2>4, <2>5 DEF VisitOK, Replaced
<1> QED BY <1>2, <1>8, <1>9, <1>10, <1>11, <1>13, <1>19

(* The last API of the group is done: the info has all of them.              *)
LEMMA FinishGroupInv ==
  ASSUME AInv, NEW s \in Servers, FinishGroup(s)
  PROVE  /\ AInv' /\ phase' = [phase EXCEPT ![s] = "grouping"] /\ phase[s] = "adding"
         /\ UNCHANGED <<APIs, groups, visit, created>>
         /\ apiGroups' = Append(apiGroups,
              [group |-> visit.group, apis |-> visit.apis,
               versions |-> PrioritizedVersionsForGroup(Scheme, visit.group)])
         /\ Done = GroupGVRs(visit.group) /\ active = s
<1> USE DEF AInv
<1> DEFINE info == [group |-> visit.group, apis |-> visit.apis,
                    versions |-> PrioritizedVersionsForGroup(Scheme, visit.group)]
           g == visit.group
<1>1. /\ active = s /\ phase[s] = "adding" /\ phase' = [phase EXCEPT ![s] = "grouping"]
      /\ UNCHANGED <<APIs, active, groups, visit, created>>
      /\ apiGroups' = Append(apiGroups, info) /\ visit.gvrs = {}
  BY DEF FinishGroup, InPhase, Enter, ConfigUnchanged, regVars
<1>2. /\ apiGroups' \in Seq(ToSet(apiGroups'))
      /\ \A i \in DOMAIN apiGroups' :
           apiGroups'[i] = info \/ (i \in DOMAIN apiGroups /\ apiGroups'[i] = apiGroups[i])
      /\ \A i \in DOMAIN apiGroups : i \in DOMAIN apiGroups' /\ apiGroups'[i] = apiGroups[i]
      /\ \E i \in DOMAIN apiGroups' : apiGroups'[i] = info
  <2> HIDE DEF info
  <2> QED BY <1>1, AppendInfo DEF ShapeOK
<1>3. PhaseOK' /\ phase'[s] = "grouping"
  BY <1>1 DEF PhaseOK, Phases
<1>4. ShapeOK' /\ CreatedOK' /\ MapOK'
  BY <1>1, <1>2 DEF ShapeOK, CreatedOK, MapOK
<1>5. /\ \A h \in groups : g < h
      /\ \A q \in DOMAIN APIs : q.group \in groups \/ q.group = g \/ HasInfo(q.group)
  BY <1>1 DEF VisitOK
<1>6. info.group = g
  OBVIOUS
<1>7. \A q \in DOMAIN APIs : q.group \in groups \/ HasInfo(q.group)'
  BY <1>2, <1>5, <1>6 DEF HasInfo
<1>8. \A h \in groups : \A i \in DOMAIN apiGroups' : apiGroups'[i].group < h
  <2>1. \A h \in groups : \A i \in DOMAIN apiGroups : apiGroups[i].group < h
    BY <1>1 DEF GroupsOK, Starting
  <2> HIDE DEF info
  <2> QED BY <1>2, <1>5, <1>6, <2>1
<1>9. \A h \in groups : \A x \in created : x.gvr.group # h
  BY <1>1 DEF GroupsOK, Starting
<1>10. GroupsOK'
  BY <1>1, <1>7, <1>8, <1>9 DEF GroupsOK, Starting
<1>11. VisitOK'
  BY <1>1, <1>3 DEF VisitOK
<1>12. Done = GroupGVRs(g)
  BY <1>1 DEF Done
<1> QED BY <1>1, <1>3, <1>4, <1>10, <1>11, <1>12

(* A step that leaves the loop, by an error or by the end of the startup,    *)
(* leaves nothing that the invariant has to hold of.                         *)
LEMMA EndsStep ==
  ASSUME AInv, NEW s \in Servers, NEW p \in {"failed", "rejected", "serving"}, Ends(s, p),
         active = s, UNCHANGED APIs
  PROVE  AInv' /\ phase' = [phase EXCEPT ![s] = p] /\ phase'[s] = p
<1> USE DEF AInv
<1>1. /\ phase' = [phase EXCEPT ![s] = p] /\ active' = NoServer
      /\ groups' = {} /\ visit' = NoVisit /\ apiGroups' = << >> /\ created' = {}
  BY DEF Ends, Enter
<1>2. PhaseOK' /\ phase'[s] = p
  BY <1>1 DEF PhaseOK, Phases
<1>3. ShapeOK' /\ CreatedOK' /\ MapOK'
  BY <1>1, NoVisitOK DEF ShapeOK, CreatedOK, MapOK
<1>4. GroupsOK' /\ VisitOK'
  BY <1>1, BuilderAssumption DEF GroupsOK, VisitOK, Starting
<1> QED BY <1>1, <1>2, <1>3, <1>4

(* An error of the inner loop ends the startup.                              *)
LEMMA AddResourceFailsInv ==
  ASSUME AInv, NEW s \in Servers, AddResourceFails(s)
  PROVE  AInv' /\ phase' = [phase EXCEPT ![s] = "failed"]
<1>1. Ends(s, "failed") /\ active = s /\ UNCHANGED APIs
  BY DEF AddResourceFails, InPhase, ConfigUnchanged, regVars
<1> QED BY <1>1, EndsStep

(* The installation only takes infos away, or ends the startup.              *)
LEMMA InstallInv ==
  ASSUME AInv, NEW s \in Servers, InstallAPIGroup(s)
  PROVE  AInv' /\ phase' \in {phase, [phase EXCEPT ![s] = "rejected"]}
<1> USE DEF AInv
<1>1. /\ active = s /\ phase[s] = "grouping" /\ groups = {} /\ apiGroups # << >>
      /\ UNCHANGED APIs
      /\ \/ apiGroups' = Tail(apiGroups) /\ UNCHANGED <<phase, active, groups, visit, created>>
         \/ Ends(s, "rejected")
  BY Zenon DEF InstallAPIGroup, Grouped, InPhase, ConfigUnchanged, regVars
<1>2. CASE Ends(s, "rejected")
  BY <1>1, <1>2, EndsStep
<1>3. CASE apiGroups' = Tail(apiGroups) /\ UNCHANGED <<phase, active, groups, visit, created>>
  <2>1. apiGroups' \in Seq(ToSet(apiGroups'))
    BY <1>1, <1>3, TailInfo DEF ShapeOK
  <2>2. PhaseOK' /\ ShapeOK' /\ CreatedOK' /\ MapOK'
    BY <1>1, <1>3, <2>1 DEF PhaseOK, ShapeOK, CreatedOK, MapOK
  <2>3. GroupsOK' /\ VisitOK'
    BY <1>1, <1>3 DEF GroupsOK, VisitOK
  <2> QED BY <1>3, <2>2, <2>3
<1> QED BY <1>1, <1>2, <1>3

-----------------------------------------------------------------------------
(* Nothing of the above depends on the other variables.                      *)
LEMMA SameInv ==
  ASSUME AInv, UNCHANGED <<APIs, phase, active, groups, visit, apiGroups, created>>
  PROVE  AInv'
<1> USE DEF AInv
<1>1. PhaseOK' /\ ShapeOK' /\ CreatedOK' /\ MapOK'
  BY DEF PhaseOK, ShapeOK, CreatedOK, MapOK
<1>2. GroupsOK'
  BY DEF GroupsOK, Starting, HasInfo
<1>3. VisitOK'
  <2>1. Done' = Done /\ GroupGVRs(visit.group)' = GroupGVRs(visit.group)
    BY DEF Done, GroupGVRs
  <2>2. \A t, r : StoragesFor(t, r)' = StoragesFor(t, r)
    BY DEF StoragesFor, Storage
  <2>3. \A g : HasInfo(g)' <=> HasInfo(g)
    BY DEF HasInfo
  <2> SUFFICES ASSUME NEW s \in Servers, active = s, phase[s] = "adding"
               PROVE  /\ {x \in created : x.gvr.group = visit.group} = UNION {StoragesFor(s, r)' : r \in Done}
                      /\ {visit.apis[k] : k \in DOMAIN visit.apis} =
                           UNION {{x \in StoragesFor(s, r)' : ~Replaced(x, StoragesFor(s, r)')} : r \in Done}
    <3>1. ASSUME NEW s \in Servers, active = s, phase[s] = "adding"
          PROVE  /\ visit.group \in Groups(DOMAIN APIs)
                 /\ visit.gvrs \subseteq GroupGVRs(visit.group)
                 /\ \A i \in DOMAIN apiGroups : apiGroups[i].group < visit.group
                 /\ \A g \in groups : visit.group < g
                 /\ \A r \in DOMAIN APIs : r.group \in groups \/ r.group = visit.group \/ HasInfo(r.group)
                 /\ \A r \in Done : APIs[r] # NilProvider
      BY <3>1 DEF VisitOK
    <3> QED BY <2>1, <2>3, <3>1, ZenonT(40) DEF VisitOK
  <2>4. /\ {x \in created : x.gvr.group = visit.group} = UNION {StoragesFor(s, r) : r \in Done}
        /\ {visit.apis[k] : k \in DOMAIN visit.apis} =
             UNION {{x \in StoragesFor(s, r) : ~Replaced(x, StoragesFor(s, r))} : r \in Done}
    BY DEF VisitOK
  <2>5. {x \in created : x.gvr.group = visit.group} = UNION {StoragesFor(s, r)' : r \in Done}
    BY <2>2, <2>4
  <2>6. {visit.apis[k] : k \in DOMAIN visit.apis} =
          UNION {{x \in StoragesFor(s, r)' : ~Replaced(x, StoragesFor(s, r)')} : r \in Done}
    BY <2>2, <2>4
  <2> QED BY <2>5, <2>6
<1> QED BY <1>1, <1>2, <1>3

(* What a step does to the phases, and the only one that makes an info.      *)
LEMMA StepInv ==
  ASSUME AInv, [Next]_vars
  PROVE  /\ AInv'
         /\ \A s \in Servers : phase[s] = "adding" /\ phase'[s] = "grouping" => FinishGroup(s)
<1> USE DEF AInv
<1>1. CASE UNCHANGED vars
  <2>1. UNCHANGED <<APIs, phase, active, groups, visit, apiGroups, created>>
    BY <1>1 DEF vars, regVars, buildVars, runVars
  <2> QED BY <2>1, SameInv
<1>2. CASE OptionsNext /\ UNCHANGED runVars
  <2>1. AInv' /\ \A s \in Servers : ~Starting(s)
    BY <1>2, OutsideStep
  <2> QED BY <2>1 DEF PhaseOK, Starting
<1>3. ASSUME NEW s \in Servers, Run(s)
      PROVE  AInv' /\ \A t \in Servers : phase[t] # "adding"
  BY <1>3, RunInv, BuilderAssumption DEF PhaseOK
<1>4. ASSUME NEW s \in Servers, RunStep(s)
      PROVE  AInv' /\ \A t \in Servers :
               phase[t] = "adding" /\ phase'[t] = "grouping" => t = s /\ FinishGroup(s)
  <2>1. active = s /\ phase[s] \in {"grouping", "adding"}
    BY <1>4 DEF RunStep, StartGroup, AddResource, AddResourceFails, AddResourcePanics,
                FinishGroup, InstallAPIGroup, Serve, ServerPanics, Grouped, InPhase
  <2>2. \A t \in Servers : phase[t] = "adding" => t = s
    BY <2>1 DEF PhaseOK
  <2>3. CASE StartGroup(s)
    BY <2>2, <2>3, StartGroupInv
  <2>4. CASE AddResource(s)
    BY <2>2, <2>4, AddResourceInv
  <2>5. CASE AddResourceFails(s)
    <3>1. AInv' /\ phase' = [phase EXCEPT ![s] = "failed"]
      BY <2>5, AddResourceFailsInv
    <3> QED BY <2>2, <3>1 DEF PhaseOK
  <2>6. CASE AddResourcePanics(s) \/ ServerPanics(s)
    <3>1. UNCHANGED <<APIs, phase, active, groups, visit, apiGroups, created>>
      BY <2>6 DEF AddResourcePanics, ServerPanics, ConfigUnchanged, regVars, runVars
    <3> QED BY <3>1, SameInv
  <2>7. CASE FinishGroup(s)
    BY <2>2, <2>7, FinishGroupInv
  <2>8. CASE InstallAPIGroup(s)
    <3>1. AInv' /\ phase' \in {phase, [phase EXCEPT ![s] = "rejected"]}
      BY <2>8, InstallInv
    <3> QED BY <2>2, <3>1 DEF PhaseOK
  <2>9. CASE Serve(s)
    <3>1. PICK p \in {"serving", "failed"} : Ends(s, p)
      BY <2>9 DEF Serve
    <3>2. UNCHANGED APIs
      BY <2>9 DEF Serve, ConfigUnchanged, regVars
    <3>3. AInv' /\ phase' = [phase EXCEPT ![s] = p]
      BY <2>1, <3>1, <3>2, EndsStep
    <3> QED BY <2>2, <3>3 DEF PhaseOK
  <2> QED BY <1>4, <2>3, <2>4, <2>5, <2>6, <2>7, <2>8, <2>9 DEF RunStep
<1> QED BY <1>1, <1>2, <1>3, <1>4 DEF Next

(* The loop invariant holds of every program that registers, builds and runs.*)
THEOREM StartupInvariant == Spec => []AInv
BY InitInv, StepInv, PTL DEF Spec

(* Type correctness of the startup: every storage comes from a provider that *)
(* has its kind, and is in the map at its own version and resource.          *)
THEOREM RunTypeCorrect == Spec => []RunTypeOK
<1>1. AInv => RunTypeOK
  BY DEF AInv, PhaseOK, Phases, ShapeOK, CreatedOK, MadeBy, MapOK, RunTypeOK
<1> QED BY <1>1, StartupInvariant, PTL

(* Whatever the order in which the map gives the APIs, no group and no       *)
(* storage is lost, and the infos are in ascending order of their groups.    *)
THEOREM GroupInfosCompleteAlways == Spec => GroupInfosComplete
<1>1. ASSUME AInv, [Next]_vars, NEW s \in Servers, phase[s] = "adding", phase'[s] = "grouping"
      PROVE  LET info == Last(apiGroups')
                 placed == {info.apis[k] : k \in DOMAIN info.apis}
                 made == {x \in created : x.gvr.group = info.group}
             IN  /\ \A i \in DOMAIN apiGroups : apiGroups[i].group < info.group
                 /\ \A r \in DOMAIN APIs : \/ r.group \in groups
                                           \/ \E i \in DOMAIN apiGroups' : apiGroups'[i].group = r.group
                 /\ {x.gvr : x \in {y \in placed : y.fn = "resource"}} = {r \in DOMAIN APIs : r.group = info.group}
                 /\ placed = {x \in made : ~Replaced(x, made)}
  <2> USE DEF AInv
  <2> DEFINE info == [group |-> visit.group, apis |-> visit.apis,
                      versions |-> PrioritizedVersionsForGroup(Scheme, visit.group)]
             g == visit.group
             placed == {visit.apis[k] : k \in DOMAIN visit.apis}
             made == {x \in created : x.gvr.group = g}
             kept(r) == {x \in StoragesFor(s, r) : ~Replaced(x, StoragesFor(s, r))}
  <2>1. FinishGroup(s)
    BY <1>1, StepInv
  <2>2. /\ apiGroups' = Append(apiGroups, info) /\ Done = GroupGVRs(g) /\ active = s
        /\ phase[s] = "adding"
    BY <1>1, <2>1, FinishGroupInv
  <2>3. /\ Last(apiGroups') = info
        /\ \E i \in DOMAIN apiGroups' : apiGroups'[i] = info
        /\ \A i \in DOMAIN apiGroups : i \in DOMAIN apiGroups' /\ apiGroups'[i] = apiGroups[i]
    <3> HIDE DEF info
    <3> QED BY <1>1, <2>2, AppendInfo DEF ShapeOK
  <2>4. /\ \A i \in DOMAIN apiGroups : apiGroups[i].group < g
        /\ \A r \in DOMAIN APIs : r.group \in groups \/ r.group = g \/ HasInfo(r.group)
        /\ \A r \in Done : APIs[r] # NilProvider
        /\ made = UNION {StoragesFor(s, r) : r \in Done}
        /\ placed = UNION {kept(r) : r \in Done}
    BY <1>1, <2>2 DEF VisitOK
  <2>5. info.group = g /\ info.apis = visit.apis
    OBVIOUS
  <2>6. \A r \in DOMAIN APIs : \/ r.group \in groups
                              \/ \E i \in DOMAIN apiGroups' : apiGroups'[i].group = r.group
    BY <2>3, <2>4, <2>5 DEF HasInfo
  <2>7. \A r \in Done : /\ r \in DOMAIN APIs /\ r.group = g
                       /\ \A x \in StoragesFor(s, r) : x.gvr = r
    <3>1. \A r \in Done : r \in DOMAIN APIs /\ r.group = g
      BY DEF Done, GroupGVRs
    <3> QED BY <1>1, <2>4, <3>1, StoragesLemma DEF ShapeOK
  <2>8. \A r \in Done : \A x \in StoragesFor(s, r) :
          Replaced(x, made) <=> Replaced(x, StoragesFor(s, r))
    <3> SUFFICES ASSUME NEW r \in Done, NEW x \in StoragesFor(s, r)
                 PROVE  Replaced(x, made) <=> Replaced(x, StoragesFor(s, r))
      OBVIOUS
    <3>1. \A y \in StoragesFor(s, r) : y \in made
      BY <2>4
    <3>2. ASSUME NEW y \in made, Key(y) = Key(x)
          PROVE  y \in StoragesFor(s, r)
      <4>1. PICK q \in Done : y \in StoragesFor(s, q)
        BY <2>4
      <4>2. y.gvr = q /\ x.gvr = r /\ q.group = r.group
        BY <2>7, <4>1
      <4>3. q.version = r.version /\ q.resource = r.resource
        BY <3>2, <4>2 DEF Key
      <4>4. q = [group |-> q.group, version |-> q.version, resource |-> q.resource]
        BY <1>1, <2>7, KeysOfAPIs DEF ShapeOK
      <4>5. r = [group |-> r.group, version |-> r.version, resource |-> r.resource]
        BY <1>1, <2>7, KeysOfAPIs DEF ShapeOK
      <4> QED BY <4>1, <4>2, <4>3, <4>4, <4>5
    <3> HIDE DEF made
    <3> QED BY <3>1, <3>2 DEF Replaced
  <2>9. placed = {x \in made : ~Replaced(x, made)}
    <3>1. ASSUME NEW x PROVE x \in placed <=> x \in made /\ ~Replaced(x, made)
      <4>1. x \in placed <=> \E r \in Done : x \in kept(r)
        <5> HIDE DEF placed, kept
        <5> QED BY <2>4
      <4>2. x \in made <=> \E r \in Done : x \in StoragesFor(s, r)
        BY <2>4
      <4> HIDE DEF placed, made
      <4> QED BY <2>8, <4>1, <4>2
    <3> HIDE DEF placed, made
    <3> QED BY <3>1
  <2>10. {x.gvr : x \in {y \in placed : y.fn = "resource"}} = {r \in DOMAIN APIs : r.group = g}
    <3>1. ASSUME NEW x \in placed PROVE x.gvr \in DOMAIN APIs /\ x.gvr.group = g
      <4>1. PICK r \in Done : x \in StoragesFor(s, r)
        BY <2>4, <2>9
      <4> QED BY <2>7, <4>1
    <3>2. ASSUME NEW r \in DOMAIN APIs, r.group = g
          PROVE  \E x \in placed : x.fn = "resource" /\ x.gvr = r
      <4> DEFINE x == Storage(s, r, "resource", "", APIs[r].type)
      <4>1. r \in Done /\ x \in StoragesFor(s, r) /\ x.fn = "resource"
        BY <2>2, <3>2 DEF GroupGVRs, StoragesFor, Storage
      <4>2. ~Replaced(x, made) /\ x \in made
        BY <2>4, <4>1 DEF Replaced
      <4>3. x \in placed /\ x.gvr = r
        BY <2>7, <2>9, <4>1, <4>2
      <4> QED BY <4>1, <4>3
    <3> HIDE DEF placed
    <3> QED BY <3>1, <3>2
  <2>11. Last(apiGroups').group = g /\ Last(apiGroups').apis = visit.apis
    BY <2>3, <2>5
  <2> DEFINE last == Last(apiGroups')
             placedIn == {last.apis[k] : k \in DOMAIN last.apis}
             madeFor == {x \in created : x.gvr.group = last.group}
  <2>12. placedIn = placed /\ madeFor = made
    BY <2>11
  <2>13. /\ {x.gvr : x \in {y \in placedIn : y.fn = "resource"}} = {r \in DOMAIN APIs : r.group = last.group}
         /\ placedIn = {x \in madeFor : ~Replaced(x, madeFor)}
    <3> HIDE DEF placed, made, placedIn, madeFor, last
    <3> QED BY <2>9, <2>10, <2>11, <2>12 DEF last
  <2> QED BY <2>4, <2>6, <2>11, <2>13
<1>2. AInv /\ [Next]_vars =>
        \A s \in Servers : phase[s] = "adding" /\ phase'[s] = "grouping" =>
          LET info == Last(apiGroups')
              placed == {info.apis[k] : k \in DOMAIN info.apis}
              made == {x \in created : x.gvr.group = info.group}
          IN  /\ \A i \in DOMAIN apiGroups : apiGroups[i].group < info.group
              /\ \A r \in DOMAIN APIs : \/ r.group \in groups
                                        \/ \E i \in DOMAIN apiGroups' : apiGroups'[i].group = r.group
              /\ {x.gvr : x \in {y \in placed : y.fn = "resource"}} = {r \in DOMAIN APIs : r.group = info.group}
              /\ placed = {x \in made : ~Replaced(x, made)}
  BY <1>1
<1> QED BY <1>2, StartupInvariant, PTL DEF GroupInfosComplete, Spec


-----------------------------------------------------------------------------
(* A step that neither registers nor builds leaves the strengthening of the  *)
(* builder alone.                                                            *)
LEMMA ElsewhereSInv ==
  ASSUME SInv, UNCHANGED <<regVars, Schemes, EtcdPath, serverEtcdPath, cursor, cmd>>,
         (\E S : FlagsFns \in Seq(S))',
         IsScheme(Scheme'), Scheme'.known = Scheme.known, Scheme'.params = Scheme.params,
         Scheme'.observed = Scheme.observed, Scheme'.versionPriority = Scheme.versionPriority,
         DOMAIN phase' = Servers, active' \in Servers \cup {NoServer},
         \A s \in Servers : Building(s)' <=> Building(s),
         panicked => panicked'
  PROVE  SInv'
<1>1. RegInv' /\ KInv'
  BY ElsewhereKInv
<1>2. Shapes'
  BY DEF SInv, BInv, Shapes, regVars
<1>3. \A gv : HasPriority(gv)' <=> HasPriority(gv)
  BY DEF HasPriority, vp
<1>4. PriorityOK'
  BY DEF SInv, BInv, PriorityOK, External, vp, regVars
<1>5. BuildOK'
  BY <1>3 DEF SInv, BInv, BuildOK, regVars
<1>6. CmdOK'
  BY <1>3 DEF SInv, BInv, CmdOK
<1> QED BY <1>1, <1>2, <1>4, <1>5, <1>6 DEF SInv, BInv

(* A server that starts has every configuration function in effect, and a    *)
(* generic server unless one of its functions returned nil.                  *)
ConfigOK ==
  \A s \in Servers : Starting(s) =>
    /\ Has(applied[s].config, RecommendedConfigFns)
    /\ applied[s].nilServer => NilServerFn

(* The strengthening of the options. *)
OptInv == ListsOK /\ ConfigOK

(* The strengthening of the whole program. *)
ProgramInv == AInv /\ SInv /\ OptInv

(* The strengthening holds at first.                                         *)
LEMMA ProgramInit == Init => ProgramInv
<1> SUFFICES ASSUME Init PROVE ProgramInv
  OBVIOUS
<1>1. AInv /\ SInv
  BY InitInv, SInitInv DEF Init
<1>2. /\ ServerOptionsFns = << >> /\ RecommendedConfigFns = << >> /\ GenericAPIServerFns = << >>
      /\ applied = [s \in Servers |-> NotApplied]
  BY DEF Init, OptionsInit
<1>3. ListsOK
  <2>1. \A S : << >> \in Seq(S)
    OBVIOUS
  <2> QED BY <1>2, <2>1 DEF ListsOK
<1>4. ConfigOK
  BY BuilderAssumption DEF Init, BuildInit, ConfigOK, Starting
<1> QED BY <1>1, <1>3, <1>4 DEF ProgramInv, OptInv

(* What a step of a startup changes of the builder's state. *)
LEMMA StartupStep ==
  ASSUME ProgramInv, NEW s \in Servers, Run(s) \/ RunStep(s)
  PROVE  /\ UNCHANGED <<regVars, Schemes, EtcdPath, serverEtcdPath, FlagsFns, cursor, cmd>>
         /\ UNCHANGED <<ServerOptionsFns, RecommendedConfigFns, GenericAPIServerFns>>
         /\ IsScheme(Scheme')
         /\ Scheme'.known = Scheme.known /\ Scheme'.params = Scheme.params
         /\ Scheme'.observed = Scheme.observed /\ Scheme'.versionPriority = Scheme.versionPriority
         /\ DOMAIN phase' = Servers /\ active' \in Servers \cup {NoServer}
         /\ \A t \in Servers : Building(t)' <=> Building(t)
         /\ (\E S : FlagsFns \in Seq(S))'
         /\ ~panicked
<1> USE DEF ProgramInv, AInv
<1>1. /\ DOMAIN phase = Servers /\ active \in Servers \cup {NoServer} /\ IsScheme(Scheme)
      /\ NoServer \notin Servers
      /\ \A t \in Servers : phase[t] = "building" => active = t
      /\ \E S : FlagsFns \in Seq(S)
  BY BuilderAssumption DEF SInv, BInv, Shapes, PhaseOK
<1>2. CASE Run(s)
  <2>1. /\ UNCHANGED <<regVars, Scheme, Schemes, EtcdPath, serverEtcdPath, FlagsFns, cursor, cmd>>
        /\ UNCHANGED <<ServerOptionsFns, RecommendedConfigFns, GenericAPIServerFns>>
        /\ ~panicked /\ active = NoServer /\ phase[s] = "built"
        /\ phase' \in {phase, [phase EXCEPT ![s] = "failed"], [phase EXCEPT ![s] = "grouping"]}
        /\ IF phase'[s] = "grouping" THEN active' = s ELSE active' = active
    BY <1>2 DEF Run, Idle, StartCommand
  <2>2. \A t \in Servers : Building(t)' <=> Building(t)
    BY <1>1, <2>1 DEF Building
  <2> QED BY <1>1, <2>1, <2>2
<1>3. CASE RunStep(s)
  <2>1. /\ UNCHANGED <<regVars, Schemes, EtcdPath, serverEtcdPath, FlagsFns, cursor, cmd, optionVars>>
        /\ ~panicked /\ active = s /\ phase[s] \in {"grouping", "adding"}
    BY <1>3 DEF RunStep, StartGroup, AddResource, AddResourceFails, AddResourcePanics,
                FinishGroup, InstallAPIGroup, Serve, ServerPanics, Grouped, InPhase, ConfigUnchanged
  <2>2. /\ active' \in {active, NoServer}
        /\ \/ phase' = phase
           \/ \E p \in Phases \ {"building"} : phase' = [phase EXCEPT ![s] = p]
    BY <1>3 DEF RunStep, StartGroup, AddResource, AddResourceFails, AddResourcePanics,
                FinishGroup, InstallAPIGroup, Serve, ServerPanics, Ends, Enter, Phases
  <2>3. \A t \in Servers : Building(t)' <=> Building(t)
    BY <1>1, <2>1, <2>2 DEF Building
  <2>4. \/ UNCHANGED Scheme
        \/ \E r : Scheme' = [Scheme EXCEPT !.defaulters = @ \cup ({APIs[r].defaulter} \ {NoType})]
    BY <1>3 DEF RunStep, StartGroup, AddResource, AddResourceFails, AddResourcePanics,
                FinishGroup, InstallAPIGroup, Serve, ServerPanics, WithDefaulter
  <2>5. /\ IsScheme(Scheme')
        /\ Scheme'.known = Scheme.known /\ Scheme'.params = Scheme.params
        /\ Scheme'.observed = Scheme.observed /\ Scheme'.versionPriority = Scheme.versionPriority
    BY <1>1, <2>4 DEF IsScheme
  <2> QED BY <1>1, <2>1, <2>2, <2>3, <2>5 DEF optionVars
<1> QED BY <1>2, <1>3

(* A customization, a registration or a step of a Build keeps the            *)
(* strengthenings of the builder and of the options.                         *)
LEMMA OptionsStepInv ==
  ASSUME ProgramInv, OptionsNext, UNCHANGED runVars
  PROVE  SInv' /\ OptInv'
<1> USE DEF ProgramInv, AInv
<1>1. CASE Customize
  <2>1. /\ ListsOK' /\ Idle /\ (\E S : FlagsFns \in Seq(S))'
        /\ UNCHANGED <<applied, regVars, Scheme, phase, active, cursor, cmd, panicked>>
        /\ UNCHANGED <<Schemes, EtcdPath, serverEtcdPath>>
    BY <1>1, CustomizeStep DEF OptInv, SInv, BInv, Shapes
  <2>2. \A t \in Servers : Building(t)' <=> Building(t)
    BY <2>1 DEF Building
  <2>3. SInv'
    BY <2>1, <2>2, ElsewhereSInv DEF SInv, BInv, Shapes
  <2>4. ConfigOK'
    BY <2>1, BuilderAssumption DEF ConfigOK, Starting, Idle
  <2> QED BY <2>1, <2>3, <2>4 DEF OptInv
<1>2. CASE BuildNext /\ UNCHANGED <<ServerOptionsFns, RecommendedConfigFns, GenericAPIServerFns, applied>>
  <2>1. SInv'
    BY <1>2, BuildStepSInv
  <2>2. OptInv'
    <3>1. ConfigOK'
      BY OutsideStep DEF ConfigOK
    <3> QED BY <1>2, <3>1 DEF OptInv, ListsOK
  <2> QED BY <2>1, <2>2
<1> QED BY <1>1, <1>2 DEF OptionsNext

(* Every step of the program keeps all three.                                *)
LEMMA ProgramStep == ProgramInv /\ [Next]_vars => ProgramInv'
<1> SUFFICES ASSUME ProgramInv, [Next]_vars PROVE ProgramInv'
  OBVIOUS
<1>1. AInv'
  BY StepInv DEF ProgramInv
<1>2. CASE UNCHANGED vars
  <2>1. UNCHANGED bvars /\ UNCHANGED optionVars
    BY <1>2 DEF vars, bvars
  <2>2. SInv'
    BY <2>1, BuildStepSInv DEF ProgramInv
  <2>3. OptInv'
    BY <1>2, <2>1 DEF ProgramInv, vars, buildVars, optionVars, OptInv, ListsOK, ConfigOK,
                      Starting, NilServerFn
  <2> QED BY <1>1, <2>2, <2>3 DEF ProgramInv
<1>3. CASE OptionsNext /\ UNCHANGED runVars
  BY <1>1, <1>3, OptionsStepInv DEF ProgramInv
<1>4. ASSUME NEW s \in Servers, Run(s) \/ RunStep(s)
      PROVE  ProgramInv'
  <2>1. SInv'
    BY <1>4, StartupStep, ElsewhereSInv DEF ProgramInv
  <2>2. CASE Run(s)
    <3>1. /\ StartCommand(s)
          /\ UNCHANGED <<ServerOptionsFns, RecommendedConfigFns, GenericAPIServerFns>>
          /\ phase[s] = "built" /\ active = NoServer
          /\ active' = IF phase'[s] = "grouping" THEN s ELSE active
      BY <2>2 DEF Run, Idle
    <3>2. ListsOK' /\ DOMAIN phase = Servers
      BY <3>1, StartApplies DEF ProgramInv, OptInv, AInv, PhaseOK
    <3>3. ASSUME NEW t \in Servers, Starting(t)'
          PROVE  t = s /\ phase'[s] = "grouping"
      BY <3>1, <3>3, BuilderAssumption DEF Starting
    <3>4. ASSUME phase'[s] = "grouping"
          PROVE  InEffect(s) /\ (applied'[s].nilServer => NilServerFn)
      BY <3>1, <3>2, <3>4, StartApplies DEF ProgramInv, OptInv
    <3>5. ConfigOK'
      BY <3>1, <3>3, <3>4 DEF ConfigOK, InEffect, NilServerFn, Has, Asked, Latest
    <3> QED BY <1>1, <2>1, <3>2, <3>5 DEF ProgramInv, OptInv
  <2>3. CASE RunStep(s)
    <3>1. UNCHANGED optionVars
      BY <2>3 DEF RunStep, StartGroup, AddResource, AddResourceFails, AddResourcePanics,
                  FinishGroup, InstallAPIGroup, Serve, ServerPanics, ConfigUnchanged
    <3>2. active = s /\ phase[s] \in {"grouping", "adding"} /\ active' \in {s, NoServer}
      BY <2>3 DEF RunStep, StartGroup, AddResource, AddResourceFails, AddResourcePanics,
                  FinishGroup, InstallAPIGroup, Serve, ServerPanics, Grouped, InPhase, Ends
    <3>3. \A t \in Servers : Starting(t)' => Starting(t)
      BY <3>2, BuilderAssumption DEF Starting
    <3>4. OptInv'
      BY <3>1, <3>3 DEF ProgramInv, optionVars, OptInv, ListsOK, ConfigOK, NilServerFn
    <3> QED BY <1>1, <2>1, <3>4 DEF ProgramInv
  <2> QED BY <1>4, <2>2, <2>3
<1> QED BY <1>2, <1>3, <1>4 DEF Next

(* The three strengthenings hold together: no step of a startup disturbs    *)
(* the builder's, no customization or Build the startup's.                   *)
THEOREM ProgramInvariant == Spec => []ProgramInv
BY ProgramInit, ProgramStep, PTL DEF Spec

(* A server that starts does it in a step of its own command.                *)
LEMMA StartedInEffect ==
  ASSUME ProgramInv, [Next]_vars, NEW s \in Servers, Started(s)
  PROVE  InEffect(s)
<1>1. phase[s] = "built" /\ phase'[s] = "grouping" /\ DOMAIN phase = Servers
  BY DEF Started, ProgramInv, SInv, BInv, Shapes
<1>2. CASE OptionsNext /\ UNCHANGED runVars
  <2>1. phase'[s] \in {phase[s], "built", "building"}
    <3>1. CASE Customize
      BY <3>1, CustomizeStep DEF ProgramInv, OptInv, SInv, BInv, Shapes
    <3>2. CASE BuildNext
      BY <1>1, <3>2 DEF BuildNext, Configure, BuildStep, Register, buildVars, WithEtcdPath,
                        WithFlagFns, Build, RunAddToScheme, RunSetVersionPriority, FinishBuild
    <3> QED BY <1>2, <3>1, <3>2 DEF OptionsNext
  <2> QED BY <1>1, <2>1
<1>3. ASSUME NEW t \in Servers, Run(t)
      PROVE  InEffect(s)
  <2>1. /\ StartCommand(t) /\ UNCHANGED <<ServerOptionsFns, RecommendedConfigFns, GenericAPIServerFns>>
        /\ phase' \in {phase, [phase EXCEPT ![t] = "failed"], [phase EXCEPT ![t] = "grouping"]}
    BY <1>3 DEF Run, StartCommand
  <2>2. t = s
    BY <1>1, <2>1
  <2> QED BY <1>1, <2>1, <2>2, StartApplies DEF ProgramInv, OptInv
<1>4. ASSUME NEW t \in Servers, RunStep(t)
      PROVE  FALSE
  <2>1. /\ phase[t] \in {"grouping", "adding"}
        /\ phase' = phase \/ \E p : phase' = [phase EXCEPT ![t] = p]
    BY <1>4 DEF RunStep, StartGroup, AddResource, AddResourceFails, AddResourcePanics,
                FinishGroup, InstallAPIGroup, Serve, ServerPanics, Grouped, InPhase, Ends, Enter
  <2>2. t # s
    BY <1>1, <2>1
  <2>3. phase'[s] = phase[s]
    BY <1>1, <2>1, <2>2
  <2> QED BY <1>1, <2>3
<1>5. CASE UNCHANGED vars
  BY <1>1, <1>5 DEF vars, buildVars
<1> QED BY <1>2, <1>3, <1>4, <1>5 DEF Next

(* Every function given so far is in effect on a server that starts.         *)
THEOREM FnsInEffectAlways == Spec => FnsInEffect
<1>1. ProgramInv /\ [Next]_vars =>
        \A s \in Servers : Started(s) =>
          /\ Has(applied'[s].config, RecommendedConfigFns)
          /\ ~applied'[s].nilServer => Has(applied'[s].server, GenericAPIServerFns)
          /\ InPlace => Has(applied'[s].options, Effective(debugging'))
          /\ DebugFn.field \in DOMAIN applied'[s].options
               => debugging' /\ Contains(ServerOptionsFns, DebugFn)
  BY StartedInEffect DEF InEffect
<1> QED BY <1>1, ProgramInvariant, PTL DEF FnsInEffect, Spec

(* A server is started with the definitions of the last call, and in them    *)
(* the references resolve, for any definitions and any functions.            *)
THEOREM OpenAPIResolvesAlways == Spec => OpenAPIResolves
<1>1. ASSUME ProgramInv, [Next]_vars, NEW s \in Servers, Started(s), NEW defs \in OpenAPI,
             OpenAPIFn(defs) \in Latest(RecommendedConfigFns, "OpenAPIConfig")
      PROVE  /\ "OpenAPIConfig" \in DOMAIN applied'[s].config
             /\ RefsResolve(applied'[s].config["OpenAPIConfig"], BuiltIn, defs)
  <2>1. Has(applied'[s].config, RecommendedConfigFns)
    BY <1>1, StartedInEffect DEF InEffect
  <2> QED BY <1>1, <2>1, OpenAPILemma DEF ProgramInv, OptInv
<1>2. ProgramInv /\ [Next]_vars =>
        \A s \in Servers : Started(s) =>
          \A defs \in OpenAPI :
            OpenAPIFn(defs) \in Latest(RecommendedConfigFns, "OpenAPIConfig") =>
              /\ "OpenAPIConfig" \in DOMAIN applied'[s].config
              /\ RefsResolve(applied'[s].config["OpenAPIConfig"], BuiltIn, defs)
  BY <1>1
<1> QED BY <1>2, ProgramInvariant, PTL DEF OpenAPIResolves, Spec

(* The causes of a panic, the builder's misuses and the startup's.           *)
PanicCause ==
  \/ Misused
  \/ \E i \in DOMAIN calls : calls[i].provider = NilProvider
  \/ StartCause

(* Nothing at all runs after a panic. *)
LEMMA PanicStops ==
  ASSUME ProgramInv, panicked PROVE ~Next
<1>1. ~Customize
  BY CustomizeStep DEF ProgramInv, OptInv, SInv, BInv, Shapes, Idle
<1>2. \A s \in Servers : ~Run(s) /\ ~RunStep(s)
  BY StartupStep
<1> QED BY <1>1, <1>2, PanicEnds DEF Next, OptionsNext

(* The storage provider that a startup crashes on was handed over in a call. *)
LEMMA NilProviderGiven ==
  ASSUME ProgramInv, NEW r \in DOMAIN APIs, APIs[r] = NilProvider
  PROVE  \E i \in DOMAIN calls : calls[i].provider = NilProvider
<1>1. PICK i \in 1..Len(calls) : calls[i].provider = APIs[r]
  BY DEF ProgramInv, SInv, RegInv, FromCalls
<1>2. DOMAIN calls = 1..Len(calls)
  <2> DEFINE S == [server : Servers, object : Objects, provider : Providers]
  <2>1. calls \in Seq(S)
    BY DEF ProgramInv, SInv, RegInv, RegTypeOK
  <2> HIDE DEF S
  <2> QED BY <2>1, LenProperties
<1> QED BY <1>1, <1>2

(* The one way from a program that runs to one that has panicked.            *)
LEMMA PanicNow ==
  ASSUME ProgramInv, ~panicked, Next, panicked'
  PROVE  PanicCause'
<1>1. CASE OptionsNext
  <2>1. ~Customize
    BY CustomizeStep DEF ProgramInv, OptInv, SInv, BInv, Shapes
  <2> QED BY <1>1, <2>1, PanicStep DEF OptionsNext, ProgramInv, PanicCause
<1>2. ASSUME NEW s \in Servers, Run(s) PROVE PanicCause'
  <2>1. /\ StartCommand(s)
        /\ UNCHANGED <<ServerOptionsFns, RecommendedConfigFns, GenericAPIServerFns>>
    BY <1>2 DEF Run
  <2>2. StartCause
    BY <2>1, StartPanics DEF ProgramInv, OptInv
  <2>3. StartCause'
    BY <2>1, <2>2 DEF StartCause
  <2> QED BY <2>3 DEF PanicCause
<1>3. ASSUME NEW s \in Servers, RunStep(s) PROVE PanicCause'
  <2>1. AddResourcePanics(s) \/ ServerPanics(s)
    BY <1>3 DEF RunStep, StartGroup, AddResource, AddResourceFails, FinishGroup,
                InstallAPIGroup, Serve
  <2>2. CASE AddResourcePanics(s)
    <3>1. PICK r \in visit.gvrs : APIs[r] = NilProvider
      BY <2>2 DEF AddResourcePanics, Crashes
    <3>2. r \in DOMAIN APIs
      BY DEF ProgramInv, AInv, ShapeOK
    <3>3. UNCHANGED calls
      BY <2>2 DEF AddResourcePanics, ConfigUnchanged, regVars
    <3>4. \E i \in DOMAIN calls : calls[i].provider = NilProvider
      BY <3>1, <3>2, NilProviderGiven
    <3> QED BY <3>3, <3>4 DEF PanicCause
  <2>3. CASE ServerPanics(s)
    <3>1. /\ Starting(s) /\ applied[s].nilServer
          /\ UNCHANGED <<ServerOptionsFns, RecommendedConfigFns, GenericAPIServerFns>>
      BY <2>3 DEF ServerPanics, Grouped, InPhase, Starting, ConfigUnchanged, optionVars
    <3>2. NilServerFn
      BY <3>1 DEF ProgramInv, OptInv, ConfigOK
    <3>3. \E f \in ToSet(GenericAPIServerFns) : f.does = "nil"
      BY <3>2 DEF NilServerFn, ToSet
    <3>4. StartCause
      BY <3>3, AllLists DEF StartCause, ProgramInv, OptInv
    <3>5. StartCause'
      BY <3>1, <3>4 DEF StartCause
    <3> QED BY <3>5 DEF PanicCause
  <2> QED BY <2>1, <2>2, <2>3
<1> QED BY <1>1, <1>2, <1>3 DEF Next

(* A program panics, while building or while starting, only for one of the   *)
(* causes that the documentation of StartPanicExplained lists.               *)
THEOREM StartPanicExplainedAlways == Spec => []StartPanicExplained
<1>1. Init => StartPanicExplained
  BY DEF Init, BuildInit, StartPanicExplained
<1>2. StartPanicExplained <=> (panicked => PanicCause)
  BY DEF StartPanicExplained, PanicCause, StartCause
<1>3. StartPanicExplained' <=> (panicked' => PanicCause')
  BY DEF StartPanicExplained, PanicCause, StartCause
<1>4. ProgramInv /\ StartPanicExplained /\ [Next]_vars => StartPanicExplained'
  <2> SUFFICES ASSUME ProgramInv, panicked => PanicCause, [Next]_vars, panicked'
               PROVE  PanicCause'
    BY <1>2, <1>3
  <2>1. CASE panicked
    <3>1. UNCHANGED vars
      BY <2>1, PanicStops
    <3>2. UNCHANGED <<APIs, calls, FlagsFns, ServerOptionsFns, RecommendedConfigFns,
                      GenericAPIServerFns, Registered>>
      BY <3>1 DEF vars, regVars, buildVars, optionVars, Registered
    <3>3. Misused => Misused'
      BY <3>2 DEF Misused
    <3>4. StartCause => StartCause'
      BY <3>2 DEF StartCause
    <3> QED BY <2>1, <3>2, <3>3, <3>4 DEF PanicCause
  <2>2. CASE ~panicked
    <3>1. Next
      BY <2>2 DEF vars, buildVars
    <3> QED BY <2>2, <3>1, PanicNow
  <2> QED BY <2>1, <2>2
<1> QED BY <1>1, <1>4, ProgramInvariant, PTL DEF Spec

(* In the whole program, where servers are customized, built and started in  *)
(* any order, the registries and the scheme are what they are for a program  *)
(* that only registers and builds: RegistriesAgree, APIsBacked,              *)
(* OrderedIsExternal, SchemeIsDocumented and CommandVersionsPrioritised are  *)
(* about the very maps that a startup reads.                                 *)
THEOREM ProgramRegistries ==
  Spec => [](/\ RegTypeOK /\ OrderedIsExternal /\ APIsBacked /\ RegistriesAgree
             /\ SchemeIsDocumented /\ CommandVersionsPrioritised)
<1>1. ProgramInv => /\ RegTypeOK /\ OrderedIsExternal /\ APIsBacked /\ RegistriesAgree
                    /\ SchemeIsDocumented /\ CommandVersionsPrioritised
  BY Agreement, Documentation, Prioritised DEF ProgramInv, SInv, RegInv
<1> QED BY <1>1, ProgramInvariant, PTL

(* In the whole program a type, a priority and a command stay, and so does   *)
(* a singleton: no startup and no customization takes one away.              *)
THEOREM ProgramKeeps == Spec => OthersKept /\ SingletonKept
<1> DEFINE Singletons ==
             \A s \in Servers : \A gr \in DOMAIN StorageProvider[s] :
               /\ gr \in DOMAIN StorageProvider'[s]
               /\ StorageProvider'[s][gr] = StorageProvider[s][gr]
<1>1. ASSUME ProgramInv, [Next]_vars
      PROVE  NothingLost /\ Singletons
  <2>1. ASSUME [BuildNext]_bvars PROVE NothingLost /\ Singletons
    <3>1. NothingLost
      BY <1>1, <2>1, BuildLosesNothing DEF ProgramInv, SInv
    <3>2. CASE UNCHANGED StorageProvider
      BY <3>1, <3>2
    <3>3. ASSUME NEW t \in Servers, NEW o \in Objects, NEW sp \in Providers, Register(t, o, sp)
          PROVE  Singletons
      <4>1. StorageProvider \in [Servers -> Maps(GRs, Providers)]
        BY <1>1 DEF ProgramInv, SInv, RegInv, RegTypeOK
      <4>2. \/ UNCHANGED StorageProvider
            \/ /\ GR(GVR(o)) \notin DOMAIN StorageProvider[t]
               /\ StorageProvider' = [StorageProvider EXCEPT ![t] = Put(@, GR(GVR(o)), sp)]
        BY <3>3 DEF Register, WithResourceAndHandler, forGroupVersionResource, registerSingleton
      <4> QED BY <4>1, <4>2 DEF Put
    <3>4. UNCHANGED StorageProvider
            \/ \E t \in Servers, o \in Objects, sp \in Providers : Register(t, o, sp)
      BY <2>1 DEF BuildNext, Configure, BuildStep, WithEtcdPath, WithFlagFns, Build,
                  RunAddToScheme, RunSetVersionPriority, FinishBuild, bvars, regVars
    <3> QED BY <3>1, <3>2, <3>3, <3>4
  <2>2. ASSUME UNCHANGED <<regVars, cmd>>, Scheme'.known = Scheme.known,
               Scheme'.versionPriority = Scheme.versionPriority
        PROVE  NothingLost /\ Singletons
    BY <2>2 DEF NothingLost, regVars
  <2>3. CASE Customize
    BY <1>1, <2>2, <2>3, CustomizeStep DEF ProgramInv, OptInv, SInv, BInv, Shapes
  <2>4. ASSUME NEW s \in Servers, Run(s) \/ RunStep(s)
        PROVE  NothingLost /\ Singletons
    BY <1>1, <2>2, <2>4, StartupStep
  <2>5. CASE UNCHANGED vars
    BY <2>1, <2>5 DEF vars, bvars
  <2> QED BY <1>1, <2>1, <2>3, <2>4, <2>5 DEF Next, OptionsNext
<1>2. ProgramInv /\ [Next]_vars => NothingLost /\ Singletons
  BY <1>1
<1> QED BY <1>2, ProgramInvariant, PTL DEF OthersKept, SingletonKept, Spec, NothingLost

-----------------------------------------------------------------------------
(* What is installed and served.                                             *)

(* An info that was made: its storages and the versions it was given.        *)
InfoOK(info) ==
  /\ info.group \in Groups(DOMAIN APIs)
  /\ info.versions = PrioritizedVersionsForGroup(Scheme, info.group)
  /\ \A k \in DOMAIN info.apis : info.apis[k] \in created /\ Key(info.apis[k]) = k

(* The APIs that a server has to answer for. *)
Due(r) ==
  /\ r.version # APIVersionInternal
  /\ \E t \in Servers : \E o \in BuiltObjects(t) : GVR(o) = r

(* x is the main storage of r.                                               *)
StorageOf(x, r) == x.fn = "resource" /\ x.gvr = r

(* Where such an API is while s starts: not yet visited, in an info under    *)
(* the name of a version that will be installed, or installed.               *)
Underway(s, r) ==
  \/ r.group \in groups
  \/ phase[s] = "adding" /\ r.group = visit.group
  \/ \E i \in DOMAIN apiGroups : \E x \in Routes(apiGroups[i]) : StorageOf(x, r)
  \/ \E x \in served[s] : StorageOf(x, r)

(* While a server starts: the storages made and the infos made of them.      *)
InfosOK ==
  \A s \in Servers : Starting(s) =>
    /\ \A x \in created : x.gvr \in DOMAIN APIs /\ x.type \in StorageTypes(APIs[x.gvr])
    /\ \A i \in DOMAIN apiGroups : InfoOK(apiGroups[i])

(* While a server starts, no due API is lost on the way to it.               *)
UnderwayOK ==
  \A s \in Servers : Starting(s) => \A r \in DOMAIN APIs : Due(r) => Underway(s, r)

(* No server answers for an internal version.                                *)
ServedOK ==
  /\ DOMAIN served = Servers
  /\ \A s \in Servers : \A x \in served[s] : x.gvr.version # APIVersionInternal

(* The strengthening of what is installed and served.                        *)
LInv == GInv /\ InfosOK /\ UnderwayOK /\ ServedOK

(* The versions that NewDefaultAPIGroupInfo asks for are external ...        *)
LEMMA VersionsExternal ==
  ASSUME SInv, NEW g, NEW v \in PrioritizedVersionsForGroup(Scheme, g)
  PROVE  v # APIVersionInternal
<1>1. CASE g \in DOMAIN vp /\ v \in ToSet(vp[g])
  <2>1. vp[g] \in Seq(External(g))
    BY <1>1 DEF SInv, BInv, PriorityOK
  <2>2. v \in External(g)
    BY <1>1, <2>1, SeqElements
  <2> QED BY <2>2 DEF External, ExternalVersions
<1>2. CASE \E x \in Scheme.observed : v = x.version
  BY <1>2 DEF SInv, KInv, ObservedOK
<1> QED BY <1>1, <1>2 DEF PrioritizedVersionsForGroup, vp

(* ... and that of a built object is among them.                             *)
LEMMA DueVersion ==
  ASSUME SInv, ~panicked, \A s \in Servers : ~Building(s), NEW r \in DOMAIN APIs, Due(r)
  PROVE  r.version \in PrioritizedVersionsForGroup(Scheme, r.group)
<1>0. PICK t \in Servers : \E o \in BuiltObjects(t) : GVR(o) = r
  BY DEF Due
<1>1. PICK o \in BuiltObjects(t) : GVR(o) = r
  BY <1>0
<1>2. o \in Objects /\ o \in InScheme(t)
  BY <1>1 DEF BuiltObjects, InScheme
<1> DEFINE k == [gv |-> GV(GVR(o)), type |-> o.type]
<1>3. k \in Documented(o)
  BY <1>2, SchemeAssumption DEF Documented, OwnTypes
<1>4. k \in Scheme.known
  BY <1>2, <1>3, KnownPoint DEF SInv, KInv, KnownOK
<1>5. k.gv = GV(r) /\ GV(r).group = r.group /\ GV(r).version = r.version
  BY <1>1 DEF GV
<1>6. GV(r) \in Scheme.observed
  BY <1>4, <1>5 DEF SInv, KInv, ObservedOK, Due
<1> QED BY <1>5, <1>6 DEF PrioritizedVersionsForGroup

(* What a step of a startup leaves of the above.                             *)
LEMMA StartupKeeps ==
  ASSUME ProgramInv, NEW s \in Servers, Run(s) \/ RunStep(s)
  PROVE  /\ UNCHANGED APIs
         /\ \A r : Due(r)' <=> Due(r)
         /\ \A info : InfoOK(info) /\ created \subseteq created' => InfoOK(info)'
<1>1. /\ UNCHANGED regVars /\ Scheme'.observed = Scheme.observed
      /\ Scheme'.versionPriority = Scheme.versionPriority
  BY StartupStep
<1>2. \A t : BuiltObjects(t)' = BuiltObjects(t)
  BY <1>1 DEF BuiltObjects, regVars
<1>3. \A g : PrioritizedVersionsForGroup(Scheme, g)' = PrioritizedVersionsForGroup(Scheme, g)
  BY <1>1 DEF PrioritizedVersionsForGroup
<1> QED BY <1>1, <1>2, <1>3 DEF regVars, Due, InfoOK, Groups

(* A startup takes no priority away.                                         *)
LEMMA StartupGInv ==
  ASSUME ProgramInv, GInv, NEW s \in Servers, Run(s) \/ RunStep(s)
  PROVE  GInv'
<1>1. /\ UNCHANGED <<regVars, cursor>> /\ Scheme'.versionPriority = Scheme.versionPriority
      /\ \A t \in Servers : Building(t)' <=> Building(t)
      /\ ~panicked
  BY StartupStep
<1>2. Kept
  BY <1>1 DEF Kept, vp
<1> QED BY <1>1, <1>2, GSame

(* No server starts or serves at first.                                      *)
LEMMA LInit == Init => LInv
<1> SUFFICES ASSUME Init PROVE LInv
  OBVIOUS
<1>1. GInv
  BY GInitInv DEF Init
<1>2. ServedOK
  BY DEF Init, ServedOK
<1>3. active = NoServer
  BY DEF Init, BuildInit
<1>4. InfosOK /\ UnderwayOK
  BY <1>3, BuilderAssumption DEF InfosOK, UnderwayOK, Starting
<1> QED BY <1>1, <1>2, <1>4 DEF LInv

(* A step of the configuration or of a Build: no server starts, and the      *)
(* groups keep their versions.                                               *)
LEMMA LOutside ==
  ASSUME ProgramInv, LInv, OptionsNext, UNCHANGED runVars
  PROVE  LInv'
<1>1. \A s \in Servers : ~Starting(s)'
  BY OutsideStep DEF ProgramInv
<1>2. InfosOK' /\ UnderwayOK'
  BY <1>1 DEF InfosOK, UnderwayOK
<1>3. ServedOK'
  BY DEF LInv, ServedOK, runVars
<1>4. CASE Customize
  <2>1. UNCHANGED <<regVars, Scheme, phase, active, cursor, panicked>>
    BY <1>4, CustomizeStep DEF ProgramInv, OptInv, SInv, BInv, Shapes
  <2>2. GInv'
    BY <2>1, GSame DEF LInv, Kept, vp, Building
  <2> QED BY <1>2, <1>3, <2>2 DEF LInv
<1>5. CASE BuildNext
  <2>1. GInv'
    BY <1>5, GStep DEF ProgramInv, LInv
  <2> QED BY <1>2, <1>3, <2>1 DEF LInv
<1> QED BY <1>4, <1>5 DEF OptionsNext

(* When the loop begins every API is in a group to visit.                    *)
LEMMA LRun ==
  ASSUME ProgramInv, LInv, NEW s \in Servers, Run(s)
  PROVE  LInv'
<1>1. GInv' /\ UNCHANGED APIs
  BY StartupGInv, StartupKeeps DEF LInv
<1>2. UNCHANGED served
  BY DEF Run
<1>3. ServedOK'
  BY <1>2 DEF LInv, ServedOK
<1>4. /\ active = NoServer
      /\ IF phase'[s] = "grouping"
         THEN active' = s /\ groups' = Groups(DOMAIN APIs) /\ apiGroups' = << >> /\ created' = {}
         ELSE UNCHANGED <<active, groups, apiGroups, created>>
  BY DEF Run, Idle
<1>5. ASSUME NEW t \in Servers, Starting(t)'
      PROVE  t = s /\ groups' = Groups(DOMAIN APIs) /\ apiGroups' = << >> /\ created' = {}
  BY <1>4, <1>5, BuilderAssumption DEF Starting
<1>6. DOMAIN << >> = {}
  OBVIOUS
<1>7. InfosOK'
  BY <1>5, <1>6 DEF InfosOK
<1>8. UnderwayOK'
  BY <1>1, <1>5 DEF UnderwayOK, Underway, Groups
<1> QED BY <1>1, <1>3, <1>7, <1>8 DEF LInv

(* When a startup is over only what is served matters.                       *)
LEMMA LEnds ==
  ASSUME GInv', ServedOK, UNCHANGED served, active' = NoServer
  PROVE  LInv'
<1>1. \A s \in Servers : ~Starting(s)'
  BY BuilderAssumption DEF Starting
<1> QED BY <1>1 DEF LInv, InfosOK, UnderwayOK, ServedOK

(* The group taken from those left is the one visited.                       *)
LEMMA LStartGroup ==
  ASSUME ProgramInv, LInv, NEW s \in Servers, StartGroup(s)
  PROVE  LInv'
<1>1. RunStep(s)
  BY DEF RunStep
<1>2. GInv' /\ UNCHANGED APIs /\ (\A r : Due(r)' <=> Due(r))
      /\ \A info : InfoOK(info) /\ created \subseteq created' => InfoOK(info)'
  BY <1>1, StartupGInv, StartupKeeps DEF LInv
<1>3. PICK g \in groups : /\ groups' = groups \ {g}
                          /\ visit' = [group |-> g, gvrs |-> GroupGVRs(g), apis |-> EmptyMap]
  BY DEF StartGroup
<1>4. /\ active = s /\ phase[s] = "grouping" /\ phase' = [phase EXCEPT ![s] = "adding"]
      /\ UNCHANGED <<active, apiGroups, created, served>>
  BY DEF StartGroup, InPhase, Enter
<1>5. phase'[s] = "adding" /\ visit'.group = g
  BY <1>3, <1>4 DEF ProgramInv, AInv, PhaseOK
<1>6. \A t \in Servers : Starting(t)' => t = s
  BY <1>4 DEF Starting
<1>7. Starting(s)
  BY <1>4 DEF Starting
<1>8. InfosOK'
  BY <1>2, <1>4, <1>6, <1>7 DEF LInv, InfosOK
<1>9. ASSUME NEW r \in DOMAIN APIs, Due(r) PROVE Underway(s, r)'
  <2>1. Underway(s, r)
    BY <1>7, <1>9 DEF LInv, UnderwayOK
  <2> QED BY <1>3, <1>4, <1>5, <2>1 DEF Underway
<1>10. UnderwayOK'
  BY <1>2, <1>6, <1>9 DEF UnderwayOK
<1>11. ServedOK'
  BY <1>4 DEF LInv, ServedOK
<1> QED BY <1>2, <1>8, <1>10, <1>11 DEF LInv

(* The storages of one more API.                                             *)
LEMMA LAddResource ==
  ASSUME ProgramInv, LInv, NEW s \in Servers, AddResource(s)
  PROVE  LInv'
<1>1. RunStep(s)
  BY DEF RunStep
<1>2. GInv' /\ UNCHANGED APIs /\ (\A r : Due(r)' <=> Due(r))
      /\ \A info : InfoOK(info) /\ created \subseteq created' => InfoOK(info)'
  BY <1>1, StartupGInv, StartupKeeps DEF LInv
<1>3. PICK r \in visit.gvrs :
        /\ ~Crashes(APIs[r]) /\ APIs[r].fn = "set"
        /\ visit' = [visit EXCEPT !.gvrs = @ \ {r}, !.apis = Merge(@, Place(StoragesFor(s, r)))]
        /\ created' = created \cup StoragesFor(s, r)
  BY DEF AddResource
<1>4. /\ active = s /\ phase[s] = "adding"
      /\ UNCHANGED <<active, phase, groups, apiGroups, served>>
  BY DEF AddResource, InPhase
<1>5. visit'.group = visit.group /\ r \in DOMAIN APIs
  BY <1>3 DEF ProgramInv, AInv, ShapeOK
<1>6. ASSUME NEW x \in StoragesFor(s, r) PROVE x.gvr = r /\ x.type \in StorageTypes(APIs[r])
  BY <1>3, <1>5, <1>6, MadeLemma DEF ProgramInv, AInv, ShapeOK
<1>7. \A t \in Servers : Starting(t)' => t = s
  BY <1>4 DEF Starting
<1>8. Starting(s)
  BY <1>4 DEF Starting
<1>9. InfosOK'
  BY <1>2, <1>3, <1>4, <1>5, <1>6, <1>7, <1>8 DEF LInv, InfosOK
<1>10. ASSUME NEW q \in DOMAIN APIs, Due(q) PROVE Underway(s, q)'
  <2>1. Underway(s, q)
    BY <1>8, <1>10 DEF LInv, UnderwayOK
  <2> QED BY <1>4, <1>5, <2>1 DEF Underway
<1>11. UnderwayOK'
  BY <1>2, <1>7, <1>10 DEF UnderwayOK
<1>12. ServedOK'
  BY <1>4 DEF LInv, ServedOK
<1> QED BY <1>2, <1>9, <1>11, <1>12 DEF LInv

(* What is left of a sequence, and what was taken.                           *)
LEMMA HeadOrTail ==
  ASSUME NEW q, q \in Seq(ToSet(q)), q # << >>
  PROVE  /\ Head(q) \in ToSet(q)
         /\ \A i \in DOMAIN q : q[i] = Head(q) \/ \E j \in DOMAIN Tail(q) : Tail(q)[j] = q[i]
<1> DEFINE n == Tail(q)
<1>1. /\ n \in Seq(ToSet(q)) /\ Len(n) = Len(q) - 1 /\ Len(q) \in Nat /\ Len(q) > 0
      /\ \A i \in 1..Len(n) : n[i] = q[i + 1]
      /\ Head(q) = q[1]
  BY HeadTailProperties, EmptySeq, LenProperties
<1>2. DOMAIN n = 1..Len(n) /\ DOMAIN q = 1..Len(q)
  BY <1>1, LenProperties
<1>3. ASSUME NEW i \in DOMAIN q, q[i] # Head(q)
      PROVE  \E j \in DOMAIN n : n[j] = q[i]
  <2>1. i - 1 \in DOMAIN n /\ (i - 1) + 1 = i
    BY <1>1, <1>2, <1>3
  <2> QED BY <1>1, <1>2, <2>1
<1>4. Head(q) \in ToSet(q)
  BY <1>1, <1>2 DEF ToSet
<1> QED BY <1>3, <1>4

(* The storage of a due API that was visited is at a version to install.     *)
LEMMA LFinishGroup ==
  ASSUME ProgramInv, LInv, NEW s \in Servers, FinishGroup(s)
  PROVE  LInv'
<1> DEFINE info == [group |-> visit.group, apis |-> visit.apis,
                    versions |-> PrioritizedVersionsForGroup(Scheme, visit.group)]
           g == visit.group
<1>1. RunStep(s)
  BY DEF RunStep
<1>2. GInv' /\ UNCHANGED APIs /\ (\A r : Due(r)' <=> Due(r))
      /\ \A x : InfoOK(x) /\ created \subseteq created' => InfoOK(x)'
  BY <1>1, StartupGInv, StartupKeeps DEF LInv
<1>3. /\ active = s /\ phase[s] = "adding" /\ ~panicked /\ visit.gvrs = {}
      /\ UNCHANGED <<active, groups, visit, created, served>>
      /\ apiGroups' = Append(apiGroups, info)
  BY DEF FinishGroup, InPhase
<1>4. /\ \A i \in DOMAIN apiGroups' :
           apiGroups'[i] = info \/ (i \in DOMAIN apiGroups /\ apiGroups'[i] = apiGroups[i])
      /\ \A i \in DOMAIN apiGroups : i \in DOMAIN apiGroups' /\ apiGroups'[i] = apiGroups[i]
      /\ \E i \in DOMAIN apiGroups' : apiGroups'[i] = info
  <2> HIDE DEF info
  <2> QED BY <1>3, AppendInfo DEF ProgramInv, AInv, ShapeOK
<1>5. InfoOK(info)
  BY <1>3 DEF InfoOK, ProgramInv, AInv, VisitOK, MapOK
<1>6. \A t \in Servers : Starting(t)' => t = s
  BY <1>3 DEF Starting
<1>7. Starting(s)
  BY <1>3 DEF Starting
<1>8. InfosOK'
  <2>1. ASSUME NEW i \in DOMAIN apiGroups' PROVE InfoOK(apiGroups'[i])
    <3> HIDE DEF info
    <3>1. \A j \in DOMAIN apiGroups : InfoOK(apiGroups[j])
      BY <1>7 DEF LInv, InfosOK
    <3> QED BY <1>4, <1>5, <2>1, <3>1
  <2>2. \A x \in created : x.gvr \in DOMAIN APIs /\ x.type \in StorageTypes(APIs[x.gvr])
    BY <1>7 DEF LInv, InfosOK
  <2>3. ASSUME NEW i \in DOMAIN apiGroups' PROVE InfoOK(apiGroups[i])'
    <3>1. InfoOK(apiGroups'[i])
      BY <2>1, <2>3
    <3> HIDE DEF info
    <3> QED BY <1>2, <1>3, <3>1
  <2> QED BY <1>2, <1>3, <2>2, <2>3 DEF InfosOK
<1>9. ASSUME NEW r \in DOMAIN APIs, Due(r), r.group = g
      PROVE  \E x \in Routes(info) : StorageOf(x, r)
  <2> DEFINE x == Storage(s, r, "resource", "", APIs[r].type)
             xs == StoragesFor(s, r)
  <2>1. x.fn = "resource" /\ x.gvr = r /\ x \in xs
    BY DEF Storage, StoragesFor
  <2>2. ~Replaced(x, xs)
    BY <2>1 DEF Replaced
  <2>3. r \in Done
    BY <1>3, <1>9 DEF Done, GroupGVRs
  <2>4. {visit.apis[k] : k \in DOMAIN visit.apis} =
          UNION {{y \in StoragesFor(s, q) : ~Replaced(y, StoragesFor(s, q))} : q \in Done}
    BY <1>3 DEF ProgramInv, AInv, VisitOK
  <2> HIDE DEF x
  <2>5. x \in {visit.apis[k] : k \in DOMAIN visit.apis}
    BY <2>1, <2>2, <2>3, <2>4
  <2>6. PICK k \in DOMAIN visit.apis : visit.apis[k] = x
    BY <2>5
  <2>7. Key(x) = k
    BY <2>6 DEF ProgramInv, AInv, MapOK
  <2>8. k.version = r.version
    BY <2>1, <2>7 DEF Key
  <2>9. \A t \in Servers : ~Building(t)
    BY <1>3 DEF Building
  <2>10. r.version \in PrioritizedVersionsForGroup(Scheme, r.group)
    BY <1>3, <1>9, <2>9, DueVersion DEF ProgramInv
  <2>11. x \in Routes(info)
    BY <1>9, <2>6, <2>8, <2>10 DEF Routes
  <2> QED BY <2>1, <2>11 DEF StorageOf
<1>10. ASSUME NEW r \in DOMAIN APIs, Due(r) PROVE Underway(s, r)'
  <2>1. Underway(s, r)
    BY <1>7, <1>10 DEF LInv, UnderwayOK
  <2> HIDE DEF info
  <2>2. CASE r.group = g
    <3>1. PICK i \in DOMAIN apiGroups' : apiGroups'[i] = info
      BY <1>4
    <3>2. \E x \in Routes(apiGroups'[i]) : StorageOf(x, r)
      BY <1>9, <1>10, <2>2, <3>1
    <3> QED BY <3>1, <3>2 DEF Underway
  <2>3. CASE r.group \in groups \/ \E x \in served[s] : StorageOf(x, r)
    BY <1>3, <2>3 DEF Underway
  <2>4. CASE \E i \in DOMAIN apiGroups : \E x \in Routes(apiGroups[i]) : StorageOf(x, r)
    <3>1. PICK i \in DOMAIN apiGroups : \E x \in Routes(apiGroups[i]) : StorageOf(x, r)
      BY <2>4
    <3>2. i \in DOMAIN apiGroups' /\ apiGroups'[i] = apiGroups[i]
      BY <1>4
    <3> QED BY <3>1, <3>2 DEF Underway
  <2> QED BY <2>1, <2>2, <2>3, <2>4 DEF Underway
<1>11. UnderwayOK'
  BY <1>2, <1>6, <1>10 DEF UnderwayOK
<1>12. ServedOK'
  BY <1>3 DEF LInv, ServedOK
<1> QED BY <1>2, <1>8, <1>11, <1>12 DEF LInv

(* A route is a storage of an external version. *)
LEMMA RoutesLemma ==
  ASSUME SInv, NEW info, InfoOK(info), NEW x \in Routes(info)
  PROVE  x \in created /\ x.gvr.version # APIVersionInternal
<1>1. PICK k \in DOMAIN info.apis : k.version \in info.versions /\ x = info.apis[k]
  BY DEF Routes
<1>2. x \in created /\ Key(x) = k
  BY <1>1 DEF InfoOK
<1>3. x.gvr.version = k.version
  BY <1>2 DEF Key
<1>4. k.version # APIVersionInternal
  BY <1>1, VersionsExternal DEF InfoOK
<1> QED BY <1>2, <1>3, <1>4

(* What leaves the infos is routed to, or the startup is over.               *)
LEMMA LInstall ==
  ASSUME ProgramInv, LInv, NEW s \in Servers, InstallAPIGroup(s)
  PROVE  LInv'
<1> DEFINE info == Head(apiGroups)
<1>1. RunStep(s)
  BY DEF RunStep
<1>2. GInv' /\ UNCHANGED APIs /\ (\A r : Due(r)' <=> Due(r))
      /\ \A x : InfoOK(x) /\ created \subseteq created' => InfoOK(x)'
  BY <1>1, StartupGInv, StartupKeeps DEF LInv
<1>3. /\ active = s /\ phase[s] = "grouping" /\ apiGroups # << >>
      /\ \/ /\ served' = [served EXCEPT ![s] = @ \cup Routes(info)]
            /\ apiGroups' = Tail(apiGroups) /\ UNCHANGED <<phase, active, groups, visit, created>>
         \/ Ends(s, "rejected") /\ UNCHANGED served
  BY DEF InstallAPIGroup, Grouped, InPhase
<1>4. CASE Ends(s, "rejected") /\ UNCHANGED served
  BY <1>2, <1>4, LEnds DEF Ends, LInv
<1>5. CASE /\ served' = [served EXCEPT ![s] = @ \cup Routes(info)]
           /\ apiGroups' = Tail(apiGroups) /\ UNCHANGED <<phase, active, groups, visit, created>>
  <2>1. Starting(s) /\ \A t \in Servers : Starting(t)' => t = s
    BY <1>3, <1>5 DEF Starting
  <2>2. apiGroups \in Seq(ToSet(apiGroups))
    BY DEF ProgramInv, AInv, ShapeOK
  <2>3. \A i \in DOMAIN apiGroups' : \E j \in DOMAIN apiGroups : apiGroups'[i] = apiGroups[j]
    BY <1>3, <1>5, <2>2, TailInfo
  <2>4. /\ info \in ToSet(apiGroups)
        /\ \A i \in DOMAIN apiGroups :
             apiGroups[i] = info \/ \E j \in DOMAIN apiGroups' : apiGroups'[j] = apiGroups[i]
    BY <1>3, <1>5, <2>2, HeadOrTail
  <2>5. /\ \A x \in created : x.gvr \in DOMAIN APIs /\ x.type \in StorageTypes(APIs[x.gvr])
        /\ \A i \in DOMAIN apiGroups : InfoOK(apiGroups[i])
    BY <2>1 DEF LInv, InfosOK
  <2> HIDE DEF info
  <2>6. served'[s] = served[s] \cup Routes(info) /\ DOMAIN served' = Servers
        /\ \A t \in Servers : t # s => served'[t] = served[t]
    BY <1>5 DEF LInv, ServedOK
  <2>7. InfosOK'
    <3>1. ASSUME NEW i \in DOMAIN apiGroups' PROVE InfoOK(apiGroups[i])'
      <4>1. InfoOK(apiGroups'[i])
        BY <2>3, <2>5, <3>1
      <4> QED BY <1>2, <1>5, <4>1
    <3> QED BY <1>2, <1>5, <2>5, <3>1 DEF InfosOK
  <2>8. ASSUME NEW r \in DOMAIN APIs, Due(r) PROVE Underway(s, r)'
    <3>1. Underway(s, r)
      BY <2>1, <2>8 DEF LInv, UnderwayOK
    <3>2. CASE r.group \in groups \/ \E x \in served[s] : StorageOf(x, r)
      BY <1>5, <2>6, <3>2 DEF Underway
    <3>3. CASE \E i \in DOMAIN apiGroups : \E x \in Routes(apiGroups[i]) : StorageOf(x, r)
      BY <2>4, <2>6, <3>3 DEF Underway
    <3> QED BY <1>3, <3>1, <3>2, <3>3 DEF Underway
  <2>9. UnderwayOK'
    BY <1>2, <2>1, <2>8 DEF UnderwayOK
  <2>10. InfoOK(info)
    BY <2>4, <2>5 DEF ToSet
  <2>11. ServedOK'
    BY <2>6, <2>10, RoutesLemma DEF LInv, ServedOK, ProgramInv
  <2> QED BY <1>2, <2>7, <2>9, <2>11 DEF LInv
<1> QED BY <1>3, <1>4, <1>5

(* Every step of the program keeps it.                                       *)
LEMMA LStep == ProgramInv /\ LInv /\ [Next]_vars => LInv'
<1> SUFFICES ASSUME ProgramInv, LInv, [Next]_vars PROVE LInv'
  OBVIOUS
<1>1. CASE OptionsNext /\ UNCHANGED runVars
  BY <1>1, LOutside
<1>2. ASSUME NEW s \in Servers, RunStep(s) PROVE LInv'
  <2>1. GInv' /\ UNCHANGED APIs /\ (\A r : Due(r)' <=> Due(r))
        /\ \A x : InfoOK(x) /\ created \subseteq created' => InfoOK(x)'
    BY <1>2, StartupGInv, StartupKeeps DEF LInv
  <2>2. CASE AddResourceFails(s) \/ Serve(s)
    <3>1. active' = NoServer /\ UNCHANGED served
      BY <2>2 DEF AddResourceFails, Serve, Ends, runVars
    <3> QED BY <2>1, <3>1, LEnds DEF LInv
  <2>3. CASE AddResourcePanics(s) \/ ServerPanics(s)
    <3>1. UNCHANGED <<phase, active, groups, visit, apiGroups, created, served>>
      BY <2>3 DEF AddResourcePanics, ServerPanics, runVars
    <3>2. InfosOK'
      BY <2>1, <3>1 DEF LInv, InfosOK, Starting
    <3>3. UnderwayOK'
      BY <2>1, <3>1 DEF LInv, UnderwayOK, Underway, Starting
    <3>4. ServedOK'
      BY <3>1 DEF LInv, ServedOK
    <3> QED BY <2>1, <3>2, <3>3, <3>4 DEF LInv
  <2> QED BY <1>2, <2>2, <2>3, LStartGroup, LAddResource, LFinishGroup, LInstall DEF RunStep
<1>3. CASE UNCHANGED vars
  <2>1. UNCHANGED <<regVars, Scheme, phase, active, cursor, panicked, groups, visit,
                    apiGroups, created, served>>
    BY <1>3 DEF vars, buildVars, runVars
  <2>2. GInv'
    BY <2>1, GSame DEF LInv, Kept, vp, Building
  <2>3. UNCHANGED APIs /\ (\A r : Due(r)' <=> Due(r)) /\ \A x : InfoOK(x)' <=> InfoOK(x)
    BY <2>1 DEF regVars, Due, BuiltObjects, InfoOK
  <2>4. InfosOK'
    BY <2>1, <2>3 DEF LInv, InfosOK, Starting
  <2>5. UnderwayOK'
    BY <2>1, <2>3 DEF LInv, UnderwayOK, Underway, Starting
  <2>6. ServedOK'
    BY <2>1 DEF LInv, ServedOK
  <2> QED BY <2>2, <2>4, <2>5, <2>6 DEF LInv
<1> QED BY <1>1, <1>2, <1>3, LRun DEF Next

(* In every program the infos of a server that starts have the versions of   *)
(* the scheme, and each due API is underway to it or served.                 *)
THEOREM InstallInvariant == Spec => []LInv
BY LInit, LStep, ProgramInvariant, PTL DEF Spec

(* The sequence of the calls has its length as domain and calls as elements. *)
LEMMA CallsLemma ==
  ASSUME ProgramInv, NEW i \in 1..Len(calls)
  PROVE  i \in DOMAIN calls /\ calls[i].server \in Servers /\ calls[i].object \in Objects
<1> DEFINE S == [server : Servers, object : Objects, provider : Providers]
<1>1. calls \in Seq(S)
  BY DEF ProgramInv, SInv, RegInv, RegTypeOK
<1> HIDE DEF S
<1>2. i \in DOMAIN calls /\ calls[i] \in S
  BY <1>1, LenProperties
<1> QED BY <1>2 DEF S

(* A group of a program in which every API is in the scheme, with the types  *)
(* of its storages, and these have their definitions, can be installed.      *)
LEMMA InstallableLemma ==
  ASSUME ProgramInv, LInv, ~panicked, AllBuilt, AllDefined, NEW s \in Servers, Starting(s),
         NEW info, info \in ToSet(apiGroups)
  PROVE  Installable(s, info)
<1>1. InfoOK(info) /\ \A x \in created : x.gvr \in DOMAIN APIs /\ x.type \in StorageTypes(APIs[x.gvr])
  BY DEF LInv, InfosOK, ToSet
<1>2. \A t \in Servers : ~Building(t)
  BY DEF Starting, Building
(* The call that registered an API.                                          *)
<1>3. ASSUME NEW r \in DOMAIN APIs
      PROVE  \E i \in 1..Len(calls) :
               /\ GVR(calls[i].object) = r /\ calls[i].provider = APIs[r]
               /\ calls[i].object \in Objects /\ calls[i].server \in Servers
               /\ calls[i].object \in BuiltObjects(calls[i].server)
  <2>1. PICK i \in 1..Len(calls) : GVR(calls[i].object) = r /\ calls[i].provider = APIs[r]
    BY DEF ProgramInv, SInv, RegInv, FromCalls
  <2>2. calls[i].object \in Objects /\ calls[i].server \in Servers
    BY CallsLemma
  <2>3. calls[i].object \in BuiltObjects(calls[i].server)
    BY DEF AllBuilt
  <2> QED BY <2>1, <2>2, <2>3
<1>4. info.versions # {}
  <2>1. PICK r \in DOMAIN APIs : r.group = info.group
    BY <1>1 DEF InfoOK, Groups
  <2>2. PICK o \in Objects : GVR(o) = r /\ \E t \in Servers : o \in BuiltObjects(t)
    BY <1>3
  <2>3. o.group = info.group
    BY <2>1, <2>2 DEF GVR
  <2>4. HasVersions(info.group)
    BY <1>2, <2>2, <2>3 DEF LInv, GInv, VersionsOK
  <2> QED BY <1>1, <2>4 DEF InfoOK, PrioritizedVersionsForGroup, HasVersions, vp
<1> DEFINE config == applied[s].config
<1>5. PICK defs \in OpenAPI :
        /\ OpenAPIFn(defs) \in Latest(RecommendedConfigFns, "OpenAPIConfig")
        /\ \A i \in 1..Len(calls) : \A t \in StorageTypes(calls[i].provider) :
             HasDefinition(GetDefinitions(BuiltIn, defs), t)
  BY DEF AllDefined
<1>6. "OpenAPIConfig" \in DOMAIN config /\ config["OpenAPIConfig"] = GetDefinitions(BuiltIn, defs)
  <2>1. /\ Has(config, RecommendedConfigFns) /\ RecommendedConfigFns \in Seq(ConfigKinds)
    BY DEF ProgramInv, OptInv, ConfigOK, ListsOK
  <2> DEFINE f == OpenAPIFn(defs)
  <2>2. f.value = GetDefinitions(BuiltIn, defs) /\ f \in Latest(RecommendedConfigFns, "OpenAPIConfig")
    BY <1>5, FnFields
  <2> HIDE DEF f, config
  <2>3. "OpenAPIConfig" \in DOMAIN config /\ config["OpenAPIConfig"] = f.value
    BY <2>1, <2>2, HasLatest
  <2> QED BY <2>2, <2>3
<1>7. ASSUME NEW x \in Routes(info)
      PROVE  \E k \in Scheme.known : /\ k.gv = GV(x.gvr) /\ k.type = x.type
                                     /\ HasDefinition(config["OpenAPIConfig"], k.type)
  <2>1. x.gvr \in DOMAIN APIs /\ x.type \in StorageTypes(APIs[x.gvr])
    BY <1>1, <1>7, RoutesLemma DEF ProgramInv
  <2>2. PICK i \in 1..Len(calls) :
          /\ GVR(calls[i].object) = x.gvr /\ calls[i].provider = APIs[x.gvr]
          /\ calls[i].object \in Objects /\ calls[i].server \in Servers
          /\ calls[i].object \in BuiltObjects(calls[i].server)
    BY <1>3, <2>1
  <2> DEFINE o == calls[i].object
             k == [gv |-> GV(GVR(o)), type |-> x.type]
  <2>3. o \in InScheme(calls[i].server)
    BY <1>2, <2>2 DEF BuiltObjects, InScheme
  <2>4. k \in Documented(o)
    BY <2>1, <2>2 DEF AllBuilt
  <2>5. k \in Scheme.known
    BY <2>2, <2>3, <2>4, KnownPoint DEF ProgramInv, SInv, KInv, KnownOK
  <2>6. k.gv = GV(x.gvr) /\ k.type = x.type
    BY <2>2
  <2>7. HasDefinition(config["OpenAPIConfig"], x.type)
    BY <1>5, <1>6, <2>1, <2>2
  <2> HIDE DEF k
  <2> QED BY <2>5, <2>6, <2>7
<1>8. \A r : GV(r).group = r.group
  BY DEF GV
<1>9. ASSUME NEW x \in Routes(info)
      PROVE  /\ \E k \in Scheme.known : k.gv.group = x.gvr.group /\ k.type = x.type
             /\ \E k \in Scheme.known : /\ k.gv = GV(x.gvr) /\ k.type.kind = x.type.kind
                                        /\ HasDefinition(config["OpenAPIConfig"], k.type)
  BY <1>7, <1>8, <1>9
<1> QED BY <1>4, <1>6, <1>9 DEF Installable

(* The one step that rejects a group, and the one that lets a server serve.  *)
LEMMA EndingStep ==
  ASSUME AInv, [Next]_vars, NEW s \in Servers, NEW p \in {"rejected", "serving"},
         phase'[s] = p, phase[s] # p
  PROVE  /\ p = "rejected" => InstallAPIGroup(s) /\ ~Installable(s, Head(apiGroups))
         /\ p = "serving" => Serve(s)
<1>1. DOMAIN phase = Servers
  BY DEF AInv, PhaseOK
<1>2. CASE UNCHANGED vars
  BY <1>2 DEF vars, buildVars
<1>3. CASE OptionsNext
  <2>1. CASE Customize
    BY <2>1 DEF Customize, WithOptionsFns, WithConfigFns, WithServerFns, WithOpenAPIDefinitions,
                WithoutEtcd, WithLocalDebugExtension, AppendFns
  <2>2. CASE BuildNext
    BY <1>1, <2>2 DEF BuildNext, Configure, BuildStep, Register, buildVars, WithEtcdPath,
                      WithFlagFns, Build, RunAddToScheme, RunSetVersionPriority, FinishBuild
  <2> QED BY <1>3, <2>1, <2>2 DEF OptionsNext
<1>4. ASSUME NEW t \in Servers, Run(t) PROVE FALSE
  <2>1. phase' \in {phase, [phase EXCEPT ![t] = "failed"], [phase EXCEPT ![t] = "grouping"]}
    BY <1>4 DEF Run, StartCommand
  <2> QED BY <1>1, <2>1
<1>5. ASSUME NEW t \in Servers, RunStep(t)
      PROVE  /\ p = "rejected" => InstallAPIGroup(s) /\ ~Installable(s, Head(apiGroups))
             /\ p = "serving" => Serve(s)
  <2>1. CASE StartGroup(t) \/ AddResource(t) \/ AddResourceFails(t) \/ AddResourcePanics(t)
           \/ FinishGroup(t) \/ ServerPanics(t)
    BY <1>1, <2>1 DEF StartGroup, AddResource, AddResourceFails, AddResourcePanics, FinishGroup,
                      ServerPanics, Ends, Enter
  <2>2. CASE InstallAPIGroup(t)
    <3>1. ~Installable(t, Head(apiGroups)) /\ phase' = [phase EXCEPT ![t] = "rejected"]
      BY <2>2 DEF InstallAPIGroup, Ends, Enter
    <3>2. s = t /\ p = "rejected"
      BY <1>1, <3>1
    <3> QED BY <2>2, <3>1, <3>2
  <2>3. CASE Serve(t)
    <3>1. \E q \in {"serving", "failed"} : phase' = [phase EXCEPT ![t] = q]
      BY <2>3 DEF Serve, Ends, Enter
    <3>2. s = t /\ p = "serving"
      BY <1>1, <3>1
    <3> QED BY <2>3, <3>2
  <2> QED BY <1>5, <2>1, <2>2, <2>3 DEF RunStep
<1> QED BY <1>2, <1>3, <1>4, <1>5 DEF Next

(* A group is rejected only if some API or the type of one of its storages   *)
(* is not in the scheme or lacks its definitions: no order of registrations, *)
(* customizations, Builds and startups on any number of servers makes        *)
(* InstallAPIGroup fail otherwise.                                           *)
THEOREM RejectionExplainedAlways == Spec => RejectionExplained
<1>1. ASSUME ProgramInv, LInv, [Next]_vars, NEW s \in Servers,
             phase'[s] = "rejected", phase[s] # "rejected"
      PROVE  ~(AllBuilt /\ AllDefined)
  <2>1. InstallAPIGroup(s) /\ ~Installable(s, Head(apiGroups))
    BY <1>1, EndingStep DEF ProgramInv
  <2>2. /\ Starting(s) /\ ~panicked /\ apiGroups # << >>
    BY <2>1 DEF InstallAPIGroup, Grouped, InPhase, Starting
  <2>3. Head(apiGroups) \in ToSet(apiGroups)
    BY <1>1, <2>2, HeadOrTail DEF ProgramInv, AInv, ShapeOK
  <2> DEFINE info == Head(apiGroups)
  <2> HIDE DEF info
  <2>4. info \in ToSet(apiGroups) /\ ~Installable(s, info)
    BY <2>1, <2>3 DEF info
  <2> QED BY <1>1, <2>2, <2>4, InstallableLemma
<1>2. ProgramInv /\ LInv /\ [Next]_vars =>
        \A s \in Servers : phase'[s] = "rejected" /\ phase[s] # "rejected" =>
          ~(AllBuilt /\ AllDefined)
  BY <1>1
<1> QED BY <1>2, ProgramInvariant, InstallInvariant, PTL DEF RejectionExplained, Spec

(* A server that starts to serve answers for every external version of an    *)
(* object that was built, on whatever server, and for no internal one.       *)
THEOREM ServesBuiltVersionsAlways == Spec => ServesBuiltVersions
<1>1. ASSUME ProgramInv, LInv, [Next]_vars, NEW s \in Servers,
             phase'[s] = "serving", phase[s] # "serving", NEW r \in DOMAIN APIs
      PROVE  /\ Due(r) => r \in {x.gvr : x \in {y \in served[s] : y.fn = "resource"}}
             /\ r.version = APIVersionInternal =>
                  r \notin {x.gvr : x \in {y \in served[s] : y.fn = "resource"}}
  <2>1. Serve(s)
    BY <1>1, EndingStep DEF ProgramInv
  <2>2. Starting(s) /\ phase[s] = "grouping" /\ groups = {} /\ apiGroups = << >>
    BY <2>1 DEF Serve, Grouped, InPhase, Starting
  <2>3. ASSUME Due(r) PROVE \E x \in served[s] : StorageOf(x, r)
    <3>1. Underway(s, r)
      BY <1>1, <2>2, <2>3 DEF LInv, UnderwayOK
    <3>2. DOMAIN << >> = {}
      OBVIOUS
    <3> QED BY <2>2, <3>1, <3>2 DEF Underway
  <2> QED BY <1>1, <2>3 DEF StorageOf, LInv, ServedOK
<1>2. ProgramInv /\ LInv /\ [Next]_vars =>
        \A s \in Servers : phase'[s] = "serving" /\ phase[s] # "serving" =>
          \A r \in DOMAIN APIs :
            /\ Due(r) => r \in {x.gvr : x \in {y \in served[s] : y.fn = "resource"}}
            /\ r.version = APIVersionInternal =>
                 r \notin {x.gvr : x \in {y \in served[s] : y.fn = "resource"}}
  BY <1>1
<1> QED BY <1>2, ProgramInvariant, InstallInvariant, PTL DEF ServesBuiltVersions, Spec, Due
=============================================================================
