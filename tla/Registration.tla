---------------------------- MODULE Registration ----------------------------
(***************************************************************************)
(* Registering resources on a builder Server (pkg/builder/builder.go,      *)
(* pkg/builder/builder_resource.go).                                       *)
(*                                                                         *)
(* A program holds one or more *Server values: the package variable        *)
(* APIServer and whatever NewAPIServer returns.  Each keeps its own group  *)
(* versions, scheme builder and singleton providers, but all of them write *)
(* the one package map apiserver.APIs.  Registration happens on one        *)
(* goroutine (none of these maps is guarded by a lock).                    *)
(***************************************************************************)
EXTENDS Naturals, Sequences, Resources

CONSTANTS
  Servers,    \* the *Server values of the program
  Providers,  \* the *rest.StorageProvider values handed to the builder
  MaxCalls    \* bound: registrations in one behaviour

ASSUME MaxCallsAssumption == MaxCalls \in Nat

VARIABLES
  APIs,                  \* apiserver.APIs: GVR -> StorageProvider, program wide
  StorageProvider,       \* per server: GR -> the Provider of its SingletonProvider
  groupVersions,         \* per server: the group versions seen
  orderedGroupVersions,  \* per server: the external ones, in registration order
  schemeBuilder,         \* per server: the functions AddToScheme will run
  calls                  \* history: every WithResourceAndHandler call, in order

regVars == <<APIs, StorageProvider, groupVersions, orderedGroupVersions,
             schemeBuilder, calls>>

(* The entry that WithResourceAndHandler registers with the scheme builder. *)
AddToSchemeFn(o) == [fn |-> "AddToScheme", obj |-> o]

(* The entry that Build registers. *)
SetVersionPriorityFn == [fn |-> "SetVersionPriority"]

SchemeFns == {AddToSchemeFn(o) : o \in Objects} \cup {SetVersionPriorityFn}

(***************************************************************************)
(* APIServer and NewAPIServer: every registry is empty.                    *)
(***************************************************************************)
RegInit ==
  /\ APIs = EmptyMap
  /\ StorageProvider = [s \in Servers |-> EmptyMap]
  /\ groupVersions = [s \in Servers |-> {}]
  /\ orderedGroupVersions = [s \in Servers |-> << >>]
  /\ schemeBuilder = [s \in Servers |-> << >>]
  /\ calls = << >>

(* Mutant of withGroupVersions: the "found" early continue is dropped. *)
withGroupVersions_NoFound(s, gv) ==
  /\ groupVersions' = [groupVersions EXCEPT ![s] = @ \cup {gv}]
  /\ orderedGroupVersions' =
       IF gv.version = APIVersionInternal
       THEN orderedGroupVersions
       ELSE [orderedGroupVersions EXCEPT ![s] = Append(@, gv)]

(* withGroupVersions for the one group version it is called with. *)
withGroupVersions(s, gv) ==
  /\ groupVersions' = [groupVersions EXCEPT ![s] = @ \cup {gv}]
  /\ orderedGroupVersions' =
       IF gv \in groupVersions[s] \/ gv.version = APIVersionInternal
       THEN orderedGroupVersions
       ELSE [orderedGroupVersions EXCEPT ![s] = Append(@, gv)]

(* Mutant of registerSingleton: the instance is replaced when it exists. *)
registerSingleton_Replace(s, gr, sp) ==
  StorageProvider' = [StorageProvider EXCEPT ![s] = Put(@, gr, sp)]

(* Mutant of registerSingleton: the singletons are keyed by resource only in *)
(* the sense that the first group to use the name claims it.                 *)
registerSingleton_ByResource(s, gr, sp) ==
  StorageProvider' =
    IF \E k \in DOMAIN StorageProvider[s] : k.resource = gr.resource
    THEN StorageProvider
    ELSE [StorageProvider EXCEPT ![s] = Put(@, gr, sp)]

(* The singleton of a group resource is created once per server. *)
registerSingleton(s, gr, sp) ==
  StorageProvider' =
    IF gr \in DOMAIN StorageProvider[s]
    THEN StorageProvider
    ELSE [StorageProvider EXCEPT ![s] = Put(@, gr, sp)]

(* Mutant of forGroupVersionResource: one singleton per version, not per     *)
(* group resource.                                                           *)
forGroupVersionResource_PerVersion(s, gvr, sp) ==
  /\ withGroupVersions(s, GV(gvr))
  /\ registerSingleton(s, gvr, sp)
  /\ APIs' = Put(APIs, gvr, sp)

(* Mutant of forGroupVersionResource: a provider already stored for another  *)
(* version is put in APIs under that version's key as well.                  *)
forGroupVersionResource_TwoKeys(s, gvr, sp) ==
  /\ withGroupVersions(s, GV(gvr))
  /\ registerSingleton(s, GR(gvr), sp)
  /\ APIs' = [r \in DOMAIN APIs \cup {gvr} |->
                IF r = gvr \/ r.resource = gvr.resource THEN sp ELSE APIs[r]]

forGroupVersionResource(s, gvr, sp) ==
  /\ withGroupVersions(s, GV(gvr))
  /\ registerSingleton(s, GR(gvr), sp)
  /\ APIs' = Put(APIs, gvr, sp)

WithResourceAndHandler(s, o, sp) ==
  /\ Len(calls) < MaxCalls
  /\ calls' = Append(calls, [server |-> s, object |-> o, provider |-> sp])
  /\ schemeBuilder' = [schemeBuilder EXCEPT ![s] = Append(@, AddToSchemeFn(o))]
  /\ forGroupVersionResource(s, GVR(o), sp)

RegNext ==
  \E s \in Servers, o \in Objects, sp \in Providers : WithResourceAndHandler(s, o, sp)

RegSpec == RegInit /\ [][RegNext]_regVars

-----------------------------------------------------------------------------
(* Type invariant of the registries. *)
RegTypeOK ==
  /\ APIs \in Maps(GVRs, Providers)
  /\ StorageProvider \in [Servers -> Maps(GRs, Providers)]
  /\ groupVersions \in [Servers -> SUBSET GVs]
  /\ orderedGroupVersions \in [Servers -> Seq(GVs)]
  /\ schemeBuilder \in [Servers -> Seq(SchemeFns)]
  /\ calls \in Seq([server : Servers, object : Objects, provider : Providers])

(* The codec's version list (orderedGroupVersions feeds LegacyCodec and      *)
(* EncodeVersioner) holds every external group version registered on the     *)
(* server exactly once and never the internal version, however often and in  *)
(* whatever order resources of the same group version are registered.        *)
OrderedIsExternal ==
  \A s \in Servers :
    LET ogv == orderedGroupVersions[s]
    IN  /\ {ogv[i] : i \in 1..Len(ogv)} =
              {gv \in groupVersions[s] : gv.version # APIVersionInternal}
        /\ \A i, j \in 1..Len(ogv) : ogv[i] = ogv[j] => i = j

(* Every entry of the program wide APIs map is backed by one server that     *)
(* knows its group version, has a singleton for its group resource and will  *)
(* add an object of that very GVR to the scheme: the four registries one     *)
(* call writes never drift apart.                                            *)
APIsBacked ==
  \A gvr \in DOMAIN APIs :
    \E s \in Servers :
      /\ GV(gvr) \in groupVersions[s]
      /\ GR(gvr) \in DOMAIN StorageProvider[s]
      /\ \E i \in 1..Len(schemeBuilder[s]) :
           \E o \in Objects : schemeBuilder[s][i] = AddToSchemeFn(o) /\ GVR(o) = gvr

(* The caller's obligation of the TODO in forGroupVersionResource: never two *)
(* storage providers for one group resource.                                 *)
OneProviderPerGroupResource ==
  \A i, j \in 1..Len(calls) :
    GR(GVR(calls[i].object)) = GR(GVR(calls[j].object))
      => calls[i].provider = calls[j].provider

(* If the callers keep that obligation, the map that the apiserver reads     *)
(* (APIs, last registration wins) and the singleton map (first registration  *)
(* wins) name the same provider for every version of every group resource.   *)
RegistriesAgree ==
  OneProviderPerGroupResource =>
    \A gvr \in DOMAIN APIs, s \in Servers :
      GR(gvr) \in DOMAIN StorageProvider[s]
        => APIs[gvr] = StorageProvider[s][GR(gvr)]

(* "don't replace the existing instance" (builder_resource.go): once a       *)
(* server has a singleton for a group resource, no later registration of     *)
(* another version or another provider replaces or removes it.               *)
SingletonKept ==
  [][\A s \in Servers : \A gr \in DOMAIN StorageProvider[s] :
       /\ gr \in DOMAIN StorageProvider'[s]
       /\ StorageProvider'[s][gr] = StorageProvider[s][gr]]_regVars

=============================================================================
