---------------------------- MODULE ServerOptions ----------------------------
(***************************************************************************)
(* The functions that customize a server: WithOptionsFns, WithConfigFns,   *)
(* WithServerFns and what is built on them (pkg/builder/builder_*.go,      *)
(* pkg/cmd/apiserverbuilder/options, ApplyGenericAPIServerFns).  They are  *)
(* kept in package variables: every server of the program applies the      *)
(* functions of all of them, in the order in which they were given.        *)
(*                                                                         *)
(* An object to customize (options, configuration, generic server) is a    *)
(* map from the fields that were set to their values.  A function is a     *)
(* record [field, value, does]: it sets the field of the object it is given*)
(* and returns it ("set"), or of a copy that it returns ("copy"), only     *)
(* looks at the object ("read"), or returns nil ("nil").                   *)
(***************************************************************************)
EXTENDS Builder, OpenAPIDefs

CONSTANTS
  OptionsFns,  \* the arguments of WithOptionsFns; none sets Authorization
  ConfigFns,   \* the arguments of WithConfigFns
  ServerFns,   \* the arguments of WithServerFns
  OpenAPI,     \* the definitions given to WithOpenAPIDefinitions
  BuiltIn,     \* the definitions of apiextensions
  MaxFns       \* bound: calls that add to the three lists

DebugFlag == "standalone-debug-mode"

(* No other function than the debug extension's sets Authorization or defines *)
(* its flag, and none but WithOpenAPIDefinitions' sets OpenAPIConfig.  The   *)
(* functions of the other two lists do not get the options.                  *)
ASSUME OptionsAssumption ==
  /\ MaxFns \in Nat
  /\ \A f \in OptionsFns : f.field # "Authorization"
  /\ \A f \in ConfigFns \cup ServerFns :
       f.field \notin {"Authorization", "RemoteKubeConfigFileOptional", "OpenAPIConfig"}
  /\ \A f \in OptionsFns \cup ConfigFns \cup ServerFns :
       f.does \in {"set", "copy", "read", "nil"}
  /\ \A f \in FlagFns : f.flag # DebugFlag

(* The names in the definitions that the generated functions return.         *)
Names == UNION {DOMAIN d \cup UNION {d[n].refs : n \in DOMAIN d} : d \in OpenAPI \cup {BuiltIn}}

(* They are Go paths, one for each type.                                     *)
ASSUME NamesAssumption ==
  /\ \A n \in Names : n = [type |-> n.type, github |-> n.github,
                           registered |-> n.registered, form |-> "path"]
  /\ \A m, n \in Names : m.type = n.type => m = n

VARIABLES
  ServerOptionsFns,      \* options.ServerOptionsFns
  RecommendedConfigFns,  \* options.RecommendedConfigFns
  GenericAPIServerFns,   \* apiserver.GenericAPIServerFns
  debugging,             \* enablesLocalStandaloneDebugging
  applied                \* per server: the objects it was started with

optionVars == <<ServerOptionsFns, RecommendedConfigFns, GenericAPIServerFns,
                debugging, applied>>

Fn(field, value, does) == [field |-> field, value |-> value, does |-> does]
WithoutEtcdFn == Fn("Etcd", "nil", "set")
DebugFn       == Fn("Authorization", "nil", "set")
DebugFlagFn   == [flag |-> DebugFlag, does |-> "set"]
RemoteFn      == Fn("RemoteKubeConfigFileOptional", "true", "set")
OpenAPIFn(defs) == Fn("OpenAPIConfig", GetDefinitions(BuiltIn, defs), "set")

NotApplied == [options |-> EmptyMap, config |-> EmptyMap, server |-> EmptyMap,
               nilServer |-> FALSE]

OptionsInit ==
  /\ ServerOptionsFns = << >>
  /\ RecommendedConfigFns = << >>
  /\ GenericAPIServerFns = << >>
  /\ debugging = FALSE
  /\ applied = [s \in Servers |-> NotApplied]

-----------------------------------------------------------------------------
(* The builder methods: each appends to the lists one function or, for the  *)
(* debug extension, two and a flag.                                         *)
Customizations ==
  Len(ServerOptionsFns \o RecommendedConfigFns \o GenericAPIServerFns)
    - Len(SelectSeq(FlagsFns, LAMBDA f : f = DebugFlagFn))

AppendFns(options, configs, servers, flags) ==
  /\ Idle
  /\ Customizations < MaxFns
  /\ ServerOptionsFns' = ServerOptionsFns \o options
  /\ RecommendedConfigFns' = RecommendedConfigFns \o configs
  /\ GenericAPIServerFns' = GenericAPIServerFns \o servers
  /\ FlagsFns' = FlagsFns \o flags
  /\ UNCHANGED <<debugging, applied, regVars, Scheme, Schemes, EtcdPath,
                 serverEtcdPath, phase, active, cursor, cmd, panicked>>

WithOptionsFns(f) == AppendFns(<<f>>, << >>, << >>, << >>)
WithConfigFns(f) == AppendFns(<< >>, <<f>>, << >>, << >>)
WithServerFns(f) == AppendFns(<< >>, << >>, <<f>>, << >>)
WithoutEtcd == WithOptionsFns(WithoutEtcdFn)
WithOpenAPIDefinitions(defs) == WithConfigFns(OpenAPIFn(defs))
WithLocalDebugExtension == AppendFns(<<DebugFn, RemoteFn>>, << >>, << >>, <<DebugFlagFn>>)

Customize ==
  \/ \E f \in OptionsFns : WithOptionsFns(f)
  \/ \E f \in ConfigFns : WithConfigFns(f)
  \/ \E f \in ServerFns : WithServerFns(f)
  \/ \E defs \in OpenAPI : WithOpenAPIDefinitions(defs)
  \/ WithoutEtcd
  \/ WithLocalDebugExtension

(* Defining the debug flag on the flags of a command sets it to its default. *)
OptionsNext ==
  \/ Customize
  \/ /\ BuildNext
     /\ LET built == \E s \in Servers : phase[s] = "building" /\ phase'[s] = "built"
        IN  debugging' = (debugging /\ ~(built /\ Contains(FlagsFns, DebugFlagFn)))
     /\ UNCHANGED <<ServerOptionsFns, RecommendedConfigFns, GenericAPIServerFns, applied>>

-----------------------------------------------------------------------------
(* Applying a list of functions, each to what the one before it returned.    *)
(*   object    what the first one was given, as it is now                    *)
(*   last      what the last one returned, or its argument if that was nil   *)
(*   same      last is object itself                                         *)
(*   nil, ok   the last one returned nil; none has panicked                  *)
NothingApplied ==
  [object |-> EmptyMap, last |-> EmptyMap, same |-> TRUE, nil |-> FALSE, ok |-> TRUE]

IsNil(object, field) == field \in DOMAIN object /\ object[field] = "nil"

(* Each dereferences its argument; those of the debug extension a field, too.*)
Panics(c, f) ==
  \/ c.nil
  \/ f = RemoteFn /\ IsNil(c.last, "Authentication")
  \/ f.field = DebugFn.field /\ f.does \in {"set", "read"} /\ IsNil(c.last, "SecureServing")

Call1(c, f) ==
  LET set == Put(c.last, f.field, f.value)
  IN  CASE ~c.ok            -> c
        [] c.ok /\ Panics(c, f) -> [c EXCEPT !.ok = FALSE]
        [] OTHER -> CASE f.does = "nil"  -> [c EXCEPT !.nil = TRUE]
                      [] f.does = "read" -> c
                      [] f.does = "copy" -> [c EXCEPT !.last = set, !.same = FALSE]
                      [] f.does = "set"  ->
                           [c EXCEPT !.last = set, !.object = IF c.same THEN set ELSE @]

ApplyFns(fns) == FoldLeft(Call1, NothingApplied, fns)

(* The debug function sets its fields in debug mode only.                    *)
Effective(debug) ==
  [i \in DOMAIN ServerOptionsFns |->
     IF ServerOptionsFns[i] = DebugFn /\ ~debug
     THEN [DebugFn EXCEPT !.does = "read"] ELSE ServerOptionsFns[i]]

Complete(debug) == ApplyFns(Effective(debug))

(* Parsing the arguments of the command of s: a flag that is not given leaves*)
(* its variable alone.                                                       *)
Parsed(s) == {debugging} \cup (IF DebugFlag \in cmd[s].flags THEN BOOLEAN ELSE {})

(* Mutant of Customized: the configuration is the object the list was given, *)
(* as it is for the options.                                                 *)
Customized_Discards(o, c, g) ==
  [options |-> o.object, config |-> c.object, server |-> g.last, nilServer |-> g.nil]

(* What a server starts with.  Complete discards what the last function      *)
(* returned and keeps the object; the other lists' last result is used, a    *)
(* generic server that is nil, too.                                          *)
Customized(o, c, g) ==
  [options |-> o.object, config |-> c.last, server |-> g.last, nilServer |-> g.nil]

(* RunE, up to the generic server and the functions applied to it.  Validate *)
(* dereferences SecureServing; it, the certificates, ApplyTo and the generic *)
(* server's New may fail; a function panics on what another one has made nil.*)
StartCommand(s) ==
  \E debug \in Parsed(s) :
    LET o == Complete(debug)
        c == ApplyFns(RecommendedConfigFns)
        g == ApplyFns(GenericAPIServerFns)
        valid == o.ok /\ ~IsNil(o.object, "SecureServing")
        starts == valid /\ c.ok /\ ~c.nil /\ g.ok
    IN  /\ debugging' = debug
        /\ \/ valid /\ UNCHANGED <<applied, panicked>> /\ phase' = [phase EXCEPT ![s] = "failed"]
           \/ /\ ~starts
              /\ panicked' = TRUE
              /\ UNCHANGED <<applied, phase>>
           \/ /\ starts
              /\ applied' = [applied EXCEPT ![s] = Customized(o, c, g)]
              /\ phase' = [phase EXCEPT ![s] = "grouping"]
              /\ UNCHANGED panicked

-----------------------------------------------------------------------------
Sets(f) == f.does \in {"set", "copy"}

(* The last function of a list that sets a field, if there is one.           *)
Latest(fns, field) ==
  LET sets == {i \in DOMAIN fns : Sets(fns[i]) /\ fns[i].field = field}
  IN  {fns[i] : i \in {j \in sets : \A k \in sets : k <= j}}

(* The value that the functions of a list give to a field.                   *)
Asked(fns, field) == {f.value : f \in Latest(fns, field)}

Has(object, fns) ==
  \A i \in DOMAIN fns : Sets(fns[i]) =>
    fns[i].field \in DOMAIN object /\ object[fns[i].field] \in Asked(fns, fns[i].field)

InPlace == \A i \in DOMAIN ServerOptionsFns : ServerOptionsFns[i].does = "set"

Started(s) == phase[s] = "built" /\ phase'[s] = "grouping"

(* A server starts with every function that was given until then, on any     *)
(* server and before or after its Build, in effect on its configuration, its *)
(* generic server (unless it is nil) and, if all of them work in place, its  *)
(* options; debug mode is on only if it was asked for and the variable of    *)
(* the flag, which the commands share, says so.                              *)
FnsInEffect ==
  [][\A s \in Servers : Started(s) =>
       /\ Has(applied'[s].config, RecommendedConfigFns)
       /\ ~applied'[s].nilServer => Has(applied'[s].server, GenericAPIServerFns)
       /\ InPlace => Has(applied'[s].options, Effective(debugging'))
       /\ DebugFn.field \in DOMAIN applied'[s].options
            => debugging' /\ Contains(ServerOptionsFns, DebugFn)]_<<phase, optionVars>>

(* The definitions a server is started with are those of the last call of    *)
(* WithOpenAPIDefinitions on any server, and in them RefsResolve holds.      *)
OpenAPIResolves ==
  [][\A s \in Servers : Started(s) =>
       \A defs \in OpenAPI :
         OpenAPIFn(defs) \in Latest(RecommendedConfigFns, "OpenAPIConfig") =>
           /\ "OpenAPIConfig" \in DOMAIN applied'[s].config
           /\ RefsResolve(applied'[s].config["OpenAPIConfig"], BuiltIn, defs)
    ]_<<phase, optionVars>>

(* builder_generic.go: "WithOptionsFns sets functions to customize the       *)
(* ServerOptions used to create the apiserver".  Each function does, those   *)
(* that return a new ServerOptions included.                                 *)
OptionsCustomized ==
  [][\A s \in Servers : Started(s) =>
       Has(applied'[s].options, Effective(FALSE))]_<<phase, optionVars>>
=============================================================================
