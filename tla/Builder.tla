------------------------------ MODULE Builder ------------------------------
(***************************************************************************)
(* Building the command of a Server (pkg/builder/builder.go).              *)
(*                                                                         *)
(* Build runs every function of the server's scheme builder on the package *)
(* variable apiserver.Scheme, once for each entry of r.Schemes, and then   *)
(* makes the command.  What it reads and writes is shared by all servers   *)
(* of the program: the scheme, APIs, options.EtcdPath, options.FlagsFns.   *)
(* One goroutine configures and builds; `active' is the server whose Build *)
(* (or, in APIServer, startup) that goroutine is executing.                *)
(***************************************************************************)
EXTENDS Registration, SchemeOps

CONSTANTS
  NoServer,    \* no Build or startup in progress
  EtcdPaths,   \* the arguments of WithEtcdPath
  FlagFns,     \* the arguments of WithFlagFns, see FlagsFns
  CommandFlags,\* the flags of the recommended options and the feature gates
  MaxBuilds,   \* bound: Build calls on one server
  MaxFlagFns   \* bound: WithFlagFns calls in one behaviour

(* A flag function is a record [flag, does]: it defines the flag on the flag  *)
(* set it is given and returns that set ("set"), a new one ("other") or nil. *)
ASSUME BuilderAssumption ==
  /\ NoServer \notin Servers
  /\ \A f \in FlagFns : f.does \in {"set", "other", "nil"}
  /\ MaxBuilds \in Nat
  /\ MaxFlagFns \in Nat

VARIABLES
  Scheme,          \* apiserver.Scheme (and ParameterScheme)
  Schemes,         \* per server: how often r.Schemes holds apiserver.Scheme
  EtcdPath,        \* options.EtcdPath
  serverEtcdPath,  \* per server: the field EtcdPath
  FlagsFns,        \* options.FlagsFns
  phase,           \* per server: what has become of it
  active,          \* the server being built or started, or NoServer
  cursor,          \* in Build: the scheme and the scheme function to run next
  cmd,             \* per server: what its command was built with
  panicked         \* the program has died of a panic

buildVars == <<Scheme, Schemes, EtcdPath, serverEtcdPath, FlagsFns, phase,
               active, cursor, cmd, panicked>>

Idle == active = NoServer /\ ~panicked

NoCmd == [etcdPath |-> "", versions |-> << >>, flags |-> {}]

BuildInit ==
  /\ RegInit
  /\ Scheme = EmptyScheme
  /\ Schemes = [s \in Servers |-> 0]
  /\ EtcdPath = ""
  /\ serverEtcdPath = [s \in Servers |-> ""]
  /\ FlagsFns = << >>
  /\ phase = [s \in Servers |-> "configured"]
  /\ active = NoServer
  /\ cursor = [scheme |-> 0, fn |-> 0]
  /\ cmd = [s \in Servers |-> NoCmd]
  /\ panicked = FALSE

-----------------------------------------------------------------------------
(* The builder methods that only record their argument. *)
Register(s, o, sp) ==
  /\ Idle
  /\ WithResourceAndHandler(s, o, sp)
  /\ UNCHANGED buildVars

WithEtcdPath(s, path) ==
  /\ Idle
  /\ serverEtcdPath' = [serverEtcdPath EXCEPT ![s] = path]
  /\ UNCHANGED <<Scheme, Schemes, EtcdPath, FlagsFns, phase, active, cursor,
                 cmd, panicked>>
  /\ UNCHANGED regVars

WithFlagFns(f) ==
  /\ Idle
  /\ Len(FlagsFns) < MaxFlagFns
  /\ FlagsFns' = Append(FlagsFns, f)
  /\ UNCHANGED <<Scheme, Schemes, EtcdPath, serverEtcdPath, phase, active,
                 cursor, cmd, panicked>>
  /\ UNCHANGED regVars

-----------------------------------------------------------------------------
(* Mutant of BuildEtcdPath: the global keeps the first path it was given.    *)
BuildEtcdPath_Once(s) == IF EtcdPath = "" THEN serverEtcdPath[s] ELSE EtcdPath

BuildEtcdPath(s) == serverEtcdPath[s]

(* Build, up to its loop over r.Schemes. *)
Build(s) ==
  /\ Idle
  /\ phase[s] \in {"configured", "built"}
  /\ Schemes[s] < MaxBuilds
  /\ EtcdPath' = BuildEtcdPath(s)
  /\ Schemes' = [Schemes EXCEPT ![s] = @ + 1]
  /\ schemeBuilder' = [schemeBuilder EXCEPT ![s] = Append(@, SetVersionPriorityFn)]
  /\ phase' = [phase EXCEPT ![s] = "building"]
  /\ active' = s
  /\ cursor' = [scheme |-> 1, fn |-> 1]
  /\ UNCHANGED <<Scheme, serverEtcdPath, FlagsFns, cmd, panicked>>
  /\ UNCHANGED <<APIs, StorageProvider, groupVersions, orderedGroupVersions, calls>>

AddingToScheme(s) ==
  phase[s] = "building" /\ active = s /\ ~panicked /\ cursor.scheme <= Schemes[s]

CurrentFn(s) == schemeBuilder[s][cursor.fn]

AdvanceCursor(s) ==
  cursor' = IF cursor.fn < Len(schemeBuilder[s])
            THEN [cursor EXCEPT !.fn = @ + 1]
            ELSE [scheme |-> cursor.scheme + 1, fn |-> 1]

(* The scheme function of one object.  An error of AddToScheme is turned     *)
(* into a panic by Build, like a panic of the scheme itself.                 *)
RunAddToScheme(s) ==
  /\ AddingToScheme(s)
  /\ CurrentFn(s).fn = "AddToScheme"
  /\ \E r \in {AddToScheme(Scheme, CurrentFn(s).obj)} :
       /\ Scheme' = r.scheme
       /\ panicked' = ~r.ok
  /\ AdvanceCursor(s)
  /\ UNCHANGED <<Schemes, EtcdPath, serverEtcdPath, FlagsFns, phase, active,
                 cmd>>
  /\ UNCHANGED regVars

(* Mutant of BuildPriorities: the versions of this server's own objects only.*)
BuildPriorities_Own(s) ==
  Priorities({r \in DOMAIN APIs : GV(r) \in groupVersions[s]})

BuildPriorities(s) == Priorities(DOMAIN APIs)

(* The scheme function that Build registered: a priority for the versions of *)
(* every group in APIs, then the meta types of the server's group versions.  *)
(* When a group has no external version Build panics: what the groups before *)
(* it were given is left out, nothing reads the scheme after that.           *)
RunSetVersionPriority(s) ==
  /\ AddingToScheme(s)
  /\ CurrentFn(s).fn = "SetVersionPriority"
  /\ IF CanPrioritize(DOMAIN APIs)
     THEN /\ \E priorities \in BuildPriorities(s) :
               Scheme' = [Prioritize(Scheme, priorities) EXCEPT
                            !.observed = @ \cup ToSet(orderedGroupVersions[s])]
          /\ UNCHANGED panicked
     ELSE /\ panicked' = TRUE
          /\ UNCHANGED <<Scheme>>
  /\ AdvanceCursor(s)
  /\ UNCHANGED <<Schemes, EtcdPath, serverEtcdPath, FlagsFns, phase, active, cmd>>
  /\ UNCHANGED regVars

(* ApplyFlagsFns: each function is given what the one before it returned.    *)
(* Functions j and i, j before i, are given the same flag set.               *)
SameFlagSet(j, i) == \A k \in j..(i-1) : FlagsFns[k].does # "other"

(* Defining a flag panics on a nil flag set and on one that has it already,  *)
(* and the command's own set has CommandFlags before the first function.     *)
FlagFnPanics(i) ==
  \/ i > 1 /\ FlagsFns[i-1].does = "nil"
  \/ SameFlagSet(1, i) /\ FlagsFns[i].flag \in CommandFlags
  \/ \E j \in 1..(i-1) : SameFlagSet(j, i) /\ FlagsFns[j].flag = FlagsFns[i].flag

(* NewServerOptions, NewCommandStartServer and ApplyFlagsFns, whose result is *)
(* discarded: the command has the flags that were defined on its own set.    *)
(* AddGoFlagSet adds no flag that is there.  r.errs is never written.        *)
FinishBuild(s) ==
  /\ phase[s] = "building" /\ active = s /\ ~panicked
  /\ cursor.scheme > Schemes[s]
  /\ cmd' = [cmd EXCEPT ![s] = [etcdPath |-> EtcdPath,
                                versions |-> orderedGroupVersions[s],
                                flags |-> {FlagsFns[i].flag : i \in
                                  {j \in DOMAIN FlagsFns : SameFlagSet(1, j)}}]]
  /\ panicked' = \E i \in DOMAIN FlagsFns : FlagFnPanics(i)
  /\ phase' = [phase EXCEPT ![s] = "built"]
  /\ active' = NoServer
  /\ UNCHANGED <<Scheme, Schemes, EtcdPath, serverEtcdPath, FlagsFns, cursor>>
  /\ UNCHANGED regVars

Configure ==
  \/ \E s \in Servers, o \in Objects, sp \in Providers : Register(s, o, sp)
  \/ \E s \in Servers, path \in EtcdPaths : WithEtcdPath(s, path)
  \/ \E f \in FlagFns : WithFlagFns(f)

BuildStep(s) ==
  \/ RunAddToScheme(s)
  \/ RunSetVersionPriority(s)
  \/ FinishBuild(s)

BuildNext == Configure \/ \E s \in Servers : Build(s) \/ BuildStep(s)

BuildSpec == BuildInit /\ [][BuildNext]_<<regVars, buildVars>>

-----------------------------------------------------------------------------
(* The Go types of an object; a nil pointer of a status or options object    *)
(* (NoType) is none.                                                         *)
OwnTypes(o) ==
  ({o.type, o.status} \cup
     UNION {{o.subs[i].type, o.subs[i].options} : i \in DOMAIN o.subs}) \ {NoType}

Types == {ScaleType} \cup UNION {OwnTypes(o) : o \in Objects}

SchemeGVs == GVs \cup {AutoscalingV1} \cup {Internal(gv.group) : gv \in GVs}

SchemeTypeOK ==
  /\ Scheme.known \subseteq [gv : SchemeGVs, type : Types]
  /\ Scheme.observed \subseteq SchemeGVs
  /\ DOMAIN Scheme.versionPriority \subseteq Groups(GVRs)
  /\ \A g \in DOMAIN Scheme.versionPriority :
       Scheme.versionPriority[g] \in Seq({gv.version : gv \in GVs})
  /\ Scheme.defaulters \subseteq Types
  /\ Scheme.params \subseteq [gv : GVs, type : Types]

(* Type invariant of the builder: the scheme, the globals, the servers. *)
BuildTypeOK ==
  /\ SchemeTypeOK
  /\ Schemes \in [Servers -> 0..MaxBuilds]
  /\ EtcdPath \in EtcdPaths \cup {""}
  /\ serverEtcdPath \in [Servers -> EtcdPaths \cup {""}]
  /\ FlagsFns \in Seq(FlagFns)
  /\ active \in Servers \cup {NoServer}
  /\ \A s \in Servers : phase[s] = "building" => active = s

(* The objects that the last Build of a server put in the scheme: those      *)
(* registered before the priority function that Build appended.              *)
BuiltObjects(s) ==
  {o \in Objects : \E i, j \in 1..Len(schemeBuilder[s]) :
     /\ i < j
     /\ schemeBuilder[s][i] = AddToSchemeFn(o)
     /\ schemeBuilder[s][j] = SetVersionPriorityFn}

(* The group version and type pairs that resource/register.go documents for  *)
(* an object: its own version, the internal one for the storage version, its *)
(* status, scale and arbitrary subresource types.                            *)
Documented(o) ==
  {[gv |-> GV(GVR(o)), type |-> t] : t \in OwnTypes(o)}
    \cup (IF o.isStorageVersion
          THEN {[gv |-> Internal(o.group), type |-> o.type]} ELSE {})
    \cup (IF o.scale THEN {[gv |-> AutoscalingV1, type |-> ScaleType]} ELSE {})

(* Between Builds the shared scheme holds exactly what the objects of the    *)
(* built servers document: several servers, several Builds of one server     *)
(* (every scheme function then runs again, for every copy of the scheme in   *)
(* r.Schemes) and objects registered after a Build neither lose a type nor   *)
(* bring one in early.                                                       *)
SchemeIsDocumented ==
  Idle => Scheme.known =
            UNION {Documented(o) : o \in UNION {BuiltObjects(s) : s \in Servers}}

(* A command's codec encodes to group versions that the scheme knows an      *)
(* order for: whatever servers were built since, every version in the list   *)
(* given to NewServerOptions has a priority within its group, and a priority *)
(* list has no duplicates and no internal version.                           *)
CommandVersionsPrioritised ==
  /\ \A s \in Servers : \A i \in 1..Len(cmd[s].versions) :
       LET gv == cmd[s].versions[i]
       IN  /\ gv.group \in DOMAIN Scheme.versionPriority
           /\ Contains(Scheme.versionPriority[gv.group], gv.version)
  /\ \A g \in DOMAIN Scheme.versionPriority :
       /\ IsInjective(Scheme.versionPriority[g])
       /\ ~Contains(Scheme.versionPriority[g], APIVersionInternal)

(* The programs that Build may reject: they use a group with an internal     *)
(* version only, an object that is no storage version and has no working     *)
(* conversions, a subresource with a failing conversion, two Go types for    *)
(* one group, version and kind, or a flag function that defines a flag of    *)
(* the command or of another function or returns nil to the next one.        *)
Registered == {calls[i].object : i \in 1..Len(calls)}

Misused ==
  \/ \E g \in Groups(DOMAIN APIs) : ExternalVersions(DOMAIN APIs, g) = {}
  \/ \E o \in Registered : ~o.isStorageVersion /\ o.conversions # "ok"
  \/ \E o \in Registered : \E i \in DOMAIN o.subs : o.subs[i].conversions = "error"
  \/ \E o1, o2 \in Registered : \E k \in Documented(o1) : Conflict(Documented(o2), k.gv, k.type)
  \/ \E i \in DOMAIN FlagsFns :
       \/ FlagsFns[i].flag \in CommandFlags
       \/ \E j \in DOMAIN FlagsFns :
            i < j /\ (FlagsFns[i].does = "nil" \/ FlagsFns[i].flag = FlagsFns[j].flag)

(* Build panics on no program that uses the builder correctly, in whatever   *)
(* order its servers are configured, built and built again.                  *)
PanicExplained == panicked => Misused

(* Building one server never undoes another: a type that the scheme knows, a *)
(* group that has its versions prioritised and a version in such a list stay *)
(* (their order may change), and a command that was made is replaced only by *)
(* a Build of its own server, which gives it that server's own etcd path.    *)
OthersKept ==
  [][/\ Scheme.known \subseteq Scheme'.known
     /\ \A g \in DOMAIN Scheme.versionPriority :
          /\ g \in DOMAIN Scheme'.versionPriority
          /\ ToSet(Scheme.versionPriority[g]) \subseteq ToSet(Scheme'.versionPriority[g])
     /\ \A s \in Servers : cmd'[s] # cmd[s] =>
          active = s /\ cmd'[s].etcdPath = serverEtcdPath[s]]_<<regVars, buildVars>>
=============================================================================
