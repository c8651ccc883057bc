----------------------------- MODULE APIServer -----------------------------
(***************************************************************************)
(* Running the command of a built Server (pkg/cmd/apiserverbuilder and     *)
(* pkg/apiserver): the options are completed, validated and applied, the   *)
(* generic server is made, BuildAPIGroupInfos turns the program wide map   *)
(* APIs into storages for each API group, and each group is installed.     *)
(*                                                                         *)
(* A StorageProvider is NilProvider (a nil pointer) or a record            *)
(*   fn         "nil": ResourceStorageProviderFn is nil; "set" otherwise   *)
(*   type       the Go type that its storage's New() returns               *)
(*   defaulter  the storage's own type if the storage is a Defaulter and a *)
(*              runtime.Object, NoType otherwise                           *)
(*   status     the Go type of the status storage's New(), NoType if there *)
(*              is no StatusSubResourceStorageProviderFn                   *)
(*   subs       ArbitrarySubresourceHandlerProviders: name -> the Go type  *)
(*              of its storage's New(), NoType if the function is nil      *)
(* Every call of a provider's function makes a new storage or an error.    *)
(***************************************************************************)
EXTENDS ServerOptions

CONSTANT NilProvider

(* Groups are compared as their names sort; a subresource has a name.        *)
ASSUME APIServerAssumption ==
  /\ \A o \in Objects : o.group \in Nat
  /\ \A sp \in Providers \ {NilProvider} :
       "" \notin DOMAIN sp.subs /\ (sp.fn = "set" => sp.type # NoType)

VARIABLES
  groups,     \* groups that BuildAPIGroupInfos has still to visit
  visit,      \* the group it visits, the APIs left in it, the map made of it
  apiGroups,  \* the APIGroupInfos made and not yet installed, in order
  created,    \* every storage made in this startup
  served      \* per server: the storages that its generic server routes to

runVars == <<groups, visit, apiGroups, created, served>>
vars == <<regVars, buildVars, optionVars, runVars>>

NoVisit == [group |-> 0, gvrs |-> {}, apis |-> EmptyMap]

Init ==
  /\ BuildInit
  /\ OptionsInit
  /\ groups = {}
  /\ visit = NoVisit
  /\ apiGroups = << >>
  /\ created = {}
  /\ served = [s \in Servers |-> {}]

(* What no step of a startup writes. *)
ConfigUnchanged ==
  /\ UNCHANGED <<regVars, optionVars>>
  /\ UNCHANGED <<Schemes, EtcdPath, serverEtcdPath, FlagsFns, cursor, cmd>>

InPhase(s, p) == active = s /\ phase[s] = p /\ ~panicked
Enter(s, p) == phase' = [phase EXCEPT ![s] = p]

(* The startup returns, with an error or because the server now serves: the  *)
(* local variables are gone, storages that no server routes to are dropped.  *)
Ends(s, p) ==
  /\ Enter(s, p)
  /\ active' = NoServer
  /\ groups' = {} /\ visit' = NoVisit /\ apiGroups' = << >> /\ created' = {}

-----------------------------------------------------------------------------
(* The command of s is executed: what StartCommand says and, if it gets so   *)
(* far, the first loop of BuildAPIGroupInfos.                                *)
Run(s) ==
  /\ Idle
  /\ phase[s] = "built"
  /\ StartCommand(s)
  /\ IF phase'[s] = "grouping"
     THEN active' = s /\ groups' = Groups(DOMAIN APIs) /\ apiGroups' = << >> /\ created' = {}
     ELSE UNCHANGED <<active, groups, apiGroups, created>>
  /\ visit' = NoVisit
  /\ UNCHANGED <<served, regVars, Scheme, Schemes, EtcdPath, serverEtcdPath, FlagsFns,
                 cursor, cmd, ServerOptionsFns, RecommendedConfigFns, GenericAPIServerFns>>

(* Mutant of GroupGVRs: a group is visited for its preferred version only.   *)
GroupGVRs_Preferred(g) ==
  {r \in DOMAIN APIs : r.group = g /\ g \in DOMAIN Scheme.versionPriority
                         /\ r.version = Scheme.versionPriority[g][1]}

GroupGVRs(g) == {r \in DOMAIN APIs : r.group = g}

(* The outer loop: the next group of the sorted list. *)
StartGroup(s) ==
  /\ InPhase(s, "grouping")
  /\ \E g \in groups :
       /\ \A h \in groups : g <= h
       /\ groups' = groups \ {g}
       /\ visit' = [group |-> g, gvrs |-> GroupGVRs(g), apis |-> EmptyMap]
  /\ Enter(s, "adding")
  /\ UNCHANGED <<Scheme, active, panicked, apiGroups, created, served>>
  /\ ConfigUnchanged

-----------------------------------------------------------------------------
(* One pass of the inner loop, for any API left: Go's map order.             *)

(* A storage, identified by the call that made it.                           *)
Storage(s, r, fn, sub, t) ==
  [server |-> s, gvr |-> r, fn |-> fn, sub |-> sub, type |-> t]

(* Mutant of Subs: the nil check of the provider function is dropped.        *)
Subs_NoNilCheck(sp) == DOMAIN sp.subs

(* The arbitrary subresources that have a provider function.                 *)
Subs(sp) == {n \in DOMAIN sp.subs : sp.subs[n] # NoType}

(* The storages made for r. *)
StoragesFor(s, r) ==
  LET sp == APIs[r]
  IN  {Storage(s, r, "resource", "", sp.type)}
        \cup {Storage(s, r, "status", "status", t) : t \in {sp.status} \ {NoType}}
        \cup {Storage(s, r, "arbitrary", n, sp.subs[n]) : n \in Subs(sp)}

(* Mutant of Key: the map is keyed by resource, the same for all versions.   *)
Key_NoVersion(x) == [version |-> "v1", resource |-> x.gvr.resource, sub |-> x.sub]

Key(x) == [version |-> x.gvr.version, resource |-> x.gvr.resource, sub |-> x.sub]

(* Where they go.  The status storage is put in the map first, so that of an *)
(* arbitrary subresource named "status" replaces it.                         *)
Replaced(x, xs) == x.fn = "status" /\ \E y \in xs : y.fn = "arbitrary" /\ Key(y) = Key(x)

Place(xs) ==
  LET kept == {x \in xs : ~Replaced(x, xs)}
  IN  [k \in {Key(x) : x \in kept} |-> CHOOSE x \in kept : Key(x) = k]

(* Mutant of Crashes: a nil provider function is called.                     *)
Crashes_NoFnCheck(sp) == sp = NilProvider \/ sp.fn = "nil"

(* The nil *StorageProvider is dereferenced. *)
Crashes(sp) == sp = NilProvider

(* The storage's Defaulter is added as soon as the storage is made.          *)
WithDefaulter(sp) ==
  [Scheme EXCEPT !.defaulters = @ \cup ({sp.defaulter} \ {NoType})]

AddResource(s) ==
  /\ InPhase(s, "adding")
  /\ \E r \in visit.gvrs :
       /\ ~Crashes(APIs[r])
       /\ APIs[r].fn = "set"
       /\ visit' = [visit EXCEPT !.gvrs = @ \ {r},
                                 !.apis = Merge(@, Place(StoragesFor(s, r)))]
       /\ created' = created \cup StoragesFor(s, r)
       /\ Scheme' = WithDefaulter(APIs[r])
  /\ UNCHANGED <<groups, apiGroups, served, phase, active, panicked>>
  /\ ConfigUnchanged

(* The nil check, or an error of one of the calls: of the first, or of a     *)
(* later one, for a subresource, if there is one.                            *)
AddResourceFails(s) ==
  /\ InPhase(s, "adding")
  /\ \E r \in visit.gvrs : ~Crashes(APIs[r]) /\
       \/ UNCHANGED Scheme
       \/ /\ APIs[r].fn = "set"
          /\ \E x \in StoragesFor(s, r) : x.fn # "resource"
          /\ Scheme' = WithDefaulter(APIs[r])
  /\ Ends(s, "failed")
  /\ UNCHANGED <<panicked, served>>
  /\ ConfigUnchanged

AddResourcePanics(s) ==
  /\ InPhase(s, "adding")
  /\ \E r \in visit.gvrs : Crashes(APIs[r])
  /\ panicked' = TRUE
  /\ UNCHANGED <<Scheme, phase, active>>
  /\ UNCHANGED runVars
  /\ ConfigUnchanged

(* NewDefaultAPIGroupInfo asks the scheme for the group's versions.          *)
FinishGroup(s) ==
  /\ InPhase(s, "adding")
  /\ visit.gvrs = {}
  /\ apiGroups' = Append(apiGroups,
       [group |-> visit.group, apis |-> visit.apis,
        versions |-> PrioritizedVersionsForGroup(Scheme, visit.group)])
  /\ Enter(s, "grouping")
  /\ UNCHANGED <<Scheme, active, panicked, groups, visit, created, served>>
  /\ ConfigUnchanged

-----------------------------------------------------------------------------
(* New, the loop over apiGroups.                                             *)

(* External: what InstallAPIGroup routes to, the storages of the versions    *)
(* that the scheme gave; the versions without any are skipped.               *)
Routes(info) == {info.apis[k] : k \in {x \in DOMAIN info.apis : x.version \in info.versions}}

(* External: InstallAPIGroup accepts a group if the scheme gave it a version,*)
(* the configuration has OpenAPI definitions and, for the storage of every   *)
(* resource and subresource it routes to, the scheme knows the Go type in the*)
(* group and its kind in the resource's version and the type of that kind has*)
(* its definitions.  (Only this is asked of a storage: it names its scope and*)
(* a singular name and does not choose its kind itself.)                     *)
Installable(s, info) ==
  LET config == applied[s].config
  IN  /\ info.versions # {}
      /\ "OpenAPIConfig" \in DOMAIN config
      /\ \A x \in Routes(info) :
           /\ \E k \in Scheme.known : k.gv.group = x.gvr.group /\ k.type = x.type
           /\ \E k \in Scheme.known :
                /\ k.gv = GV(x.gvr) /\ k.type.kind = x.type.kind
                /\ HasDefinition(config["OpenAPIConfig"], k.type)

Grouped(s) == InPhase(s, "grouping") /\ groups = {}

(* On a nil generic server only the check of the versions comes before it is *)
(* dereferenced.                                                             *)
InstallAPIGroup(s) ==
  /\ Grouped(s)
  /\ apiGroups # << >>
  /\ applied[s].nilServer => Head(apiGroups).versions = {}
  /\ IF Installable(s, Head(apiGroups))
     THEN /\ served' = [served EXCEPT ![s] = @ \cup Routes(Head(apiGroups))]
          /\ apiGroups' = Tail(apiGroups)
          /\ UNCHANGED <<phase, active, groups, visit, created>>
     ELSE /\ Ends(s, "rejected")
          /\ UNCHANGED served
  /\ UNCHANGED <<Scheme, panicked>>
  /\ ConfigUnchanged

(* PrepareRun().Run: the server serves in the background, as far as the      *)
(* other servers of the program are concerned, or fails to listen.           *)
Serve(s) ==
  /\ Grouped(s)
  /\ apiGroups = << >>
  /\ ~applied[s].nilServer
  /\ \E p \in {"serving", "failed"} : Ends(s, p)
  /\ UNCHANGED <<Scheme, panicked, served>>
  /\ ConfigUnchanged

(* InstallAPIGroup or PrepareRun of a nil server.                            *)
ServerPanics(s) ==
  /\ Grouped(s)
  /\ applied[s].nilServer
  /\ apiGroups # << >> => Head(apiGroups).versions # {}
  /\ panicked' = TRUE
  /\ UNCHANGED <<Scheme, phase, active>>
  /\ UNCHANGED runVars
  /\ ConfigUnchanged

RunStep(s) ==
  \/ StartGroup(s)
  \/ AddResource(s)
  \/ AddResourceFails(s)
  \/ AddResourcePanics(s)
  \/ FinishGroup(s)
  \/ InstallAPIGroup(s)
  \/ Serve(s)
  \/ ServerPanics(s)

Next ==
  \/ OptionsNext /\ UNCHANGED runVars
  \/ \E s \in Servers : Run(s) \/ RunStep(s)

Spec == Init /\ [][Next]_vars

-----------------------------------------------------------------------------
(* Type invariant of the startup. *)
RunTypeOK ==
  /\ groups \subseteq Groups(DOMAIN APIs)
  /\ visit.gvrs \subseteq DOMAIN APIs
  /\ \A k \in DOMAIN visit.apis : visit.apis[k] \in created /\ Key(visit.apis[k]) = k
  /\ \A x \in created : \E sp \in Providers :
       /\ sp # NilProvider /\ sp.fn = "set" /\ x.type # NoType
       /\ x.fn = "resource" => x.type = sp.type
       /\ x.fn = "status" => x.type = sp.status
       /\ x.fn = "arbitrary" => x.sub \in DOMAIN sp.subs /\ x.type = sp.subs[x.sub]
  /\ phase \in [Servers -> {"configured", "building", "built", "grouping", "adding",
                            "rejected", "failed", "serving"}]
  /\ \A s \in Servers : phase[s] \in {"building", "grouping", "adding"} => active = s

(* BuildAPIGroupInfos, whatever the order in which it meets the APIs, makes  *)
(* the infos in ascending order of their groups, leaves out no group, and    *)
(* puts in each every storage made for the group, at its own version and     *)
(* resource: no storage is made and then lost, except a status storage that  *)
(* an arbitrary subresource named "status" replaces.                         *)
GroupInfosComplete ==
  [][\A s \in Servers : phase[s] = "adding" /\ phase'[s] = "grouping" =>
       LET info == Last(apiGroups')
           placed == {info.apis[k] : k \in DOMAIN info.apis}
           made == {x \in created : x.gvr.group = info.group}
       IN  /\ \A i \in DOMAIN apiGroups : apiGroups[i].group < info.group
           /\ \A r \in DOMAIN APIs : \/ r.group \in groups
                                     \/ \E i \in DOMAIN apiGroups' : apiGroups'[i].group = r.group
           /\ {x.gvr : x \in {y \in placed : y.fn = "resource"}} = {r \in DOMAIN APIs : r.group = info.group}
           /\ placed = {x \in made : ~Replaced(x, made)}]_vars

(* A server that starts to serve answers for every external version in APIs  *)
(* that was registered before a Build of its server, on whatever server of   *)
(* the program, and never for an internal version: none of the versions the  *)
(* scheme was given is silently skipped.                                     *)
ServesBuiltVersions ==
  [][\A s \in Servers : phase'[s] = "serving" /\ phase[s] # "serving" =>
       LET answered == {x.gvr : x \in {y \in served[s] : y.fn = "resource"}}
       IN  \A r \in DOMAIN APIs :
             /\ (/\ r.version # APIVersionInternal
                 /\ \E t \in Servers : \E o \in BuiltObjects(t) : GVR(o) = r) => r \in answered
             /\ r.version = APIVersionInternal => r \notin answered]_vars

(* What the New() of a provider's storages returns.                          *)
StorageTypes(sp) ==
  ({sp.type, sp.status} \cup {sp.subs[n] : n \in DOMAIN sp.subs}) \ {NoType}

(* Every API is in the scheme: each was registered before the last Build of  *)
(* the server it was registered on, with a provider whose storages, those of *)
(* the subresources too, are of types that its object brings.                *)
AllBuilt ==
  \A i \in 1..Len(calls) :
    LET o == calls[i].object
    IN  /\ o \in BuiltObjects(calls[i].server)
        /\ \A t \in StorageTypes(calls[i].provider) :
             [gv |-> GV(GVR(o)), type |-> t] \in Documented(o)

(* The definitions that were last given to the program, on any server, are   *)
(* complete for the types of the storages.                                   *)
AllDefined ==
  \E defs \in OpenAPI :
    /\ OpenAPIFn(defs) \in Latest(RecommendedConfigFns, "OpenAPIConfig")
    /\ \A i \in 1..Len(calls) : \A t \in StorageTypes(calls[i].provider) :
         HasDefinition(GetDefinitions(BuiltIn, defs), t)

(* A group is rejected only in a program that has registered a resource on   *)
(* a server not yet built, or since its last Build, or with a storage of a   *)
(* type the object does not bring, or that lacks OpenAPI definitions: no     *)
(* order of the Builds and runs of several servers that respects this makes a*)
(* startup fail here, and the definitions need not come before the Build.    *)
RejectionExplained ==
  [][\A s \in Servers :
       phase'[s] = "rejected" /\ phase[s] # "rejected" => ~(AllBuilt /\ AllDefined)]_vars

(* A panic while building or starting is a misuse that PanicExplained lists, *)
(* a nil provider, a function that returns nil, no serving options, or the   *)
(* debug extension asked for after a function that removes the authentication*)
(* (not before it).                                                          *)
StartPanicExplained ==
  panicked =>
    \/ Misused
    \/ \E i \in DOMAIN calls : calls[i].provider = NilProvider
    \/ \E f \in ToSet(ServerOptionsFns \o RecommendedConfigFns \o GenericAPIServerFns) :
         f.does = "nil"
    \/ \E f \in ToSet(ServerOptionsFns) : f.field = "SecureServing"
    \/ \E i, j \in DOMAIN ServerOptionsFns :
         i < j /\ ServerOptionsFns[i].field = "Authentication" /\ ServerOptionsFns[j] = RemoteFn

-----------------------------------------------------------------------------
(* storage_provider.go: "singletonProvider ensures different versions of the *)
(* same resource share storage".  The storages of one startup for one group  *)
(* resource are one storage.                                                 *)
VersionsShareStorage ==
  \A x, y \in created :
    x.fn = "resource" /\ y.fn = "resource" /\ GR(x.gvr) = GR(y.gvr) => x = y
=============================================================================
