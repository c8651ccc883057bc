---------------------------- MODULE MCAPIServer ----------------------------
(***************************************************************************)
(* Instances of APIServer.  Objects: two versions of a resource with one   *)
(* storage version, the internal version of a resource, the same Go type   *)
(* and resource name in a second group, with a subresource of a type of its*)
(* own.  Providers: one with a status storage and arbitrary subresources   *)
(* (one of them nil, one that is named "status"); one with a storage of the*)
(* subresource's type, which the first group does not know and for which   *)
(* the definitions are not complete; one without any of these, one without *)
(* a provider function, and the nil pointer.                               *)
(***************************************************************************)
EXTENDS APIServer, TLC

T(kind, pkg) == [kind |-> kind, pkg |-> pkg]

MCNoType == T("", "")

Plain(g, v, r, t) ==
  [group |-> g, version |-> v, resource |-> r, type |-> t,
   isStorageVersion |-> TRUE, conversions |-> "none", defaulter |-> FALSE,
   scale |-> FALSE, status |-> MCNoType, subs |-> << >>]

Config1 == Plain(1, "v1", "configs", T("Config", "v1"))
Config2 == [Config1 EXCEPT !.version = "v2", !.isStorageVersion = FALSE,
                           !.conversions = "ok"]
ConfigI == [Config1 EXCEPT !.version = APIVersionInternal]
Group2  == [Config1 EXCEPT !.group = 2,
              !.subs = <<[type |-> T("Log", "v1"), options |-> MCNoType, conversions |-> "ok"]>>]

Provider(fn, t, status, subs) ==
  [fn |-> fn, type |-> t, defaulter |-> MCNoType, status |-> status, subs |-> subs]

ConfigT == T("Config", "v1")
LogT    == T("Log", "v1")

MCNilProvider == Provider("nilptr", MCNoType, MCNoType, EmptyMap)
Simple  == Provider("set", ConfigT, MCNoType, EmptyMap)
Full    == [Provider("set", ConfigT, ConfigT, "status" :> ConfigT @@ "none" :> MCNoType)
              EXCEPT !.defaulter = T("ConfigStore", "v1")]
Logs    == Provider("set", ConfigT, MCNoType, "logs" :> LogT)
NoFn    == Provider("nil", ConfigT, MCNoType, EmptyMap)

ServerSymmetry == Permutations(Servers)

MCObjects   == {Config1, Config2, ConfigI, Group2}
MCProviders == {Full, Logs}
MCOne       == {Config1}
MCBad       == {Simple, NoFn, MCNilProvider}

(* Functions that a program gives to its servers, and OpenAPI definitions:   *)
(* those of some types of the program, with one that replaces a built-in     *)
(* definition, and those without it that lack a definition referred to.      *)
MCOptionsFns == {Fn("Authentication", "nil", "set"), Fn("SecureServing", "nil", "set"),
                 Fn("Features", "off", "copy"), Fn("Features", "on", "nil")}
MCConfigFns  == {Fn("Timeout", "1", "copy"), Fn("Timeout", "2", "set")}
MCServerFns  == {Fn("Hook", "h", "copy"), Fn("Hook", "h", "nil")}

(* A flag of its own, defined by a function that returns nil, and a flag that*)
(* the command has.                                                          *)
Flag(flag, does) == [flag |-> flag, does |-> does]
MCCommandFlags == {"feature-gates"}
MCFlagFns == {Flag("f", "nil"), Flag("feature-gates", "set")}

Type(t, github, registered) ==
  [type |-> t, github |-> github, registered |-> registered, form |-> "path"]
ConfigName == Type(ConfigT, TRUE, FALSE)
StatusName == Type(T("ConfigStatus", "v1"), TRUE, FALSE)
LogName    == Type(LogT, TRUE, FALSE)
MetaName   == Type(T("ObjectMeta", "meta"), FALSE, TRUE)
CRDName    == Type(T("CustomResourceDefinition", "apiextensions"), FALSE, FALSE)

Def(of, refs) == [of |-> of, refs |-> refs]

MCBuiltIn == CRDName :> Def("apiextensions", {MetaName}) @@ MetaName :> Def("apiextensions", {})
UserDefs  == ConfigName :> Def("user", {StatusName, MetaName}) @@
             StatusName :> Def("user", {})
MCOpenAPI == {UserDefs @@ MetaName :> Def("user", {}), ConfigName :> Def("other", {StatusName})}

(* For the startup: all but one, which that of the log refers to.            *)
MCLogDefs == {UserDefs @@ MetaName :> Def("user", {}) @@ LogName :> Def("user", {CRDName})}
MCNone == EmptyMap
=============================================================================
