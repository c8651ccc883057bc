# Specifications of apiserver-builder

TLA+ specifications of `github.com/henderiw/apiserver-builder`: a Go library with which a
program registers resources on a builder `Server`, builds a cobra command from it and runs
a Kubernetes API server. The modules are checked with TLC; the theorems are proved with TLAPS.

    tlc -workers 2 -config MCBuilder.cfg MCBuilder
    tlapm APIServerProofs.tla

## 1. The system

| part | code | state | operations |
|---|---|---|---|
| registration | `pkg/builder/builder_resource.go` | per server: singletons, group versions, scheme builder; **global** `apiserver.APIs` | `WithResourceAndHandler` |
| scheme registration | `pkg/builder/resource/register.go` | **global** `apiserver.Scheme`, `ParameterScheme` | `AddToScheme` |
| build | `pkg/builder/builder.go` | per server: `Schemes`; **global** `options.EtcdPath`, `FlagsFns` | `Build`, `Execute` |
| option functions | `builder_generic.go`, `builder_auth.go`, `builder_misc.go`, `options/ext.go` | **global** lists of functions, the debug flag | `With...Fns`, `WithoutEtcd`, `WithLocalDebugExtension` |
| OpenAPI | `builder_misc.go` | a config function | `WithOpenAPIDefinitions` |
| command | `pkg/cmd/apiserverbuilder` | the options of one command | `Complete`, `Validate`, `Config`, `RunServer` |
| API groups | `pkg/apiserver/apiserver.go` | local maps of one startup, the generic server | `BuildAPIGroupInfos`, `New` |
| singleton | `pkg/builder/storage_provider.go` | a `sync.Once`, `Storage`, `err` | `Get`, by any goroutine |
| field selector | `pkg/builder/utils/utils.go` | none | `ParseFieldSelector`, `Filter` |
| object updates | `pkg/builder/utils/utils.go`, `resource/util/deepcopy.go` | metadata of an object | `UpdateResourceVersion`, `UpdateResourceVersionAndGeneration`, `DeepCopy` |
| loopback | `pkg/util/loopback` | three **globals**, each with a `sync.Once` | `Set...`, `Get...`, by any goroutine |
| context | `pkg/util/context` | none | `WithParentStorage` |

**Interaction.** The parts do not call each other through objects but meet in package
variables. `WithResourceAndHandler` writes four registries at once: the global `APIs` and
three of the server's own. `Build` registers one more scheme function, whose closure reads
`APIs` *when it runs*, and runs all functions on the global scheme. The command, when it is run,
applies the functions that all servers were given, and reads `APIs` and the scheme again.
Every server of a program shares them.

**What makes it correct.**
- Registration: the four registries never drift apart; the version list for the codec has each
  external group version once; the first singleton of a group resource is kept.
- Build: the scheme holds what the objects document, and no more, after any interleaving of
  registrations and Builds; one server's Build undoes nothing of another's; a Build panics only on a
  misuse of the objects or of the flag functions.
- Option functions: every function given to any server, before or after its Build, is in effect on what
  a command starts with; debug mode is on only if the flag says so; the
  OpenAPI definitions are those given last and every reference in them resolves.
- Startup: whatever order Go gives to the maps, no API, storage or group is lost, every built
  version is served; a group is rejected only for a resource that is not built, of a type its object does not bring or
  without OpenAPI definitions; a panic has one of a few known causes.
- Singleton: one call of the provider and one answer for all goroutines, nobody blocked, also
  when the provider fails or panics.
- Filter: no object that satisfies a selector is dropped, no object of another namespace is
  kept in a namespaced request.
- Object updates: the versions the helpers make let a store tell an outdated writer from one that is not, so
  that no update is lost; an update that fails leaves the object as it was, wherever in the helper it fails.
- Loopback: the variable holds the first setter's argument, every setter then reads it whole, nobody blocks.

**What is hard.** The order of calls on several servers that share globals (configure, register, Build,
Build again, run), map iteration order, partial failures inside a startup, and the three really
concurrent parts: `Get`, the loopback variables and writers of one object. There are no messages, no timeouts
and nothing is persisted. `PROJECT.json` lists every hazard at its line with the properties that cover it.

## 2. The modules

- **Resources**: the descriptors of `resource.Object`s and their keys. A descriptor is what the
  methods and optional interfaces of the Go object answer. Groups are numbers, so that the
  sorted list of groups in `BuildAPIGroupInfos` has an order.
- **Registration**: `APIs`, `StorageProvider`, `groupVersions`, `orderedGroupVersions` and
  `schemeBuilder`; one action, `WithResourceAndHandler`, with the operators
  `forGroupVersionResource` and `withGroupVersions` it calls. `calls` is a history variable.
- **SchemeOps**: a scheme as a value, and `AddToScheme` as the sequence of calls it makes on
  it: the calls up to the first that fails take effect. The meta and unversioned types of the group "", with which `init()` fills
  the schemes, are left out, and so is the `Recognizes` test before the `Scale` type is added: the assumption is that no object is of
  the group "" or of autoscaling/v1. What `runtime.Scheme` does is
  outside the repository and modelled by what the code relies on (a panic when two Go types are
  given for one group, version and kind; `SetVersionPriority` of nothing is an error).
- **Builder** extends Registration: `Build` is one action up to the loop over `r.Schemes`, one
  for each scheme function run, and `FinishBuild` for the rest. The iteration order of the Go set of
  versions is the choice of any permutation. `FinishBuild` applies the chain of flag functions: a function defines one flag on the
  set it is given and returns that set, a new one or nil; the command already has the flags of the options and the feature gates
  (`CommandFlags`), and gets those that were defined on its own set, since Build discards what the last function returned. `phase`, `active` and `cursor` are the control state.
- **OpenAPIDefs**: what `WithOpenAPIDefinitions` computes, as operators on maps from names to definitions. A definition has its
  references and the types it depends on; `HasDefinition` is what the OpenAPI builder asks of a storage's type. A name is
  a Go type with the way it is written (Go path, `~1`, reverse DNS): the properties only tell these apart. The
  v2 and v3 configurations differ in a constant prefix of the references; there is one map for both.
- **ServerOptions** extends Builder: the lists of functions, the builder methods that append to them (`Customize`), the
  debug flag, and `StartCommand`: `RunE` up to the generic server. A function is a record of the field it
  sets, its value and what it does: set it in place, return a changed copy, only read, or return nil. The lists are
  applied by a fold with the Go semantics: each function gets what the one before returned, and the
  original object changes only while it is the one handed on. A server function that returns nil last leaves the generic
  server nil (`nilServer`); a config function that does makes the startup panic.
- **APIServer** extends ServerOptions: `Run`, then the nested loops of `BuildAPIGroupInfos` (`StartGroup`,
  `AddResource`, `AddResourceFails`, `AddResourcePanics`, `FinishGroup`), `InstallAPIGroup`, `Serve` and `ServerPanics`, the
  dereference of a nil generic server. `AddResource` takes any API left in the group: Go's map order. A storage is identified by
  the server, API and function that made it, so that a lost or shared one shows, and has the type that its own `New()` returns: that
  of a status or arbitrary subresource may differ from the parent's. `InstallAPIGroup` is outside the repository. `Installable` is what
  it asks for: a version of the group, OpenAPI definitions in the configuration, and for each storage it routes to a Go type that the
  scheme knows in the group, whose kind it knows in the resource's version, with the definitions of that type and of all it depends on.
  Storages that choose their kind themselves (`GroupVersionKindProvider`) are left out.
- **SharedInit**: the abstract promise of a `SingletonProvider`. **SingletonProvider** is `Get` down to
  the slow path of `sync.Once` and to the separate writes and reads of `Storage` and `err`; `Shared` is the
  refinement mapping.
- **FieldSelector**: `ParseFieldSelector`, one action for each pass of its loop, and `Filter`.
- **ObjectUpdates**: writers that read one stored object, may copy it over their own (`DeepCopy`), stamp theirs (`Stamp`, both
  update functions, as the steps `Access`, `SetVersion` and `SetGeneration`) and write it. `before` is a history variable, the object
  when it was read or a helper was called. The store is not in the repository. The model gives it the usual optimistic rule, to
  refuse a write whose *old version* is not the stored one; that this is enough is a property of the versions the
  helpers make. A refused writer may read again and stamp the object it has stamped before.
- **Loopback**: one variable of the package, with the setter under its `sync.Once` and the getter without one, word by word
  (an interface has two). The three variables are independent and alike, which is why one model maps to three
  files. A read that no `Set` of the same goroutine orders after the write may return the old word: the data race
  is a choice over what the Go memory model allows. `first` is a history variable: what the first `Set` to run was given.

Definitions whose name ends in an underscore and a word (`Get_LazyInit`) are plausible mistakes in
the operator they stand before. No action uses them; they show that a property can fail.

**Concurrency.** Registration, Build and startup happen on one goroutine: none of their maps
has a lock, and a program that wrote them from two would have a data race. The command of a server that serves does
not return: a program that goes on with another server has started it on a goroutine of its own. The model takes
the startups themselves one after the other; two Builds or startups at one time are not modelled.

## 3. What TLC checks

| run | module, cfg | bounds | shows |
|---|---|---|---|
| `build` | MCBuilder | 2 servers, 8 objects, half of them not acceptable together or at all, 2 calls, 2 Builds each, 2 flag functions that return their set or a new one | `SchemeIsDocumented`, `CommandVersionsPrioritised`, `OthersKept`, `PanicExplained` |
| `startup` | MCAPIServer | 2 servers, 4 objects, 2 providers with status and arbitrary subresources, 2 calls, 1 Build each, OpenAPI definitions that are given or not, for one of the types incomplete | the registries (`OrderedIsExternal`, `APIsBacked`, `RegistriesAgree`, `SingletonKept`) and `GroupInfosComplete`, `ServesBuiltVersions`, `RejectionExplained` |
| `options` | MCAPIServer, MCServerOptions | 2 servers, 1 call, nil providers, up to 2 builder methods that add functions (up to 4 functions), out of 4 option, 2 config and 2 server functions, `WithoutEtcd`, the debug extension and two sets of OpenAPI definitions; 1 of 2 flag functions beside the debug extension's | `FnsInEffect`, `OpenAPIResolves`, `StartPanicExplained` |
| `singleton_get` | MCSingletonProvider | 3 goroutines that call again and again, 2 storages, an error, a panic | `AtMostOneCall`, `AnswersAreTheOutcome`, `FieldsFrozen`, `GetReturns`, `ImplementsSharedInit` |
| `field_selector` | MCFieldSelector | 2 requirements, 3 fields, 2 operators, 3 strings | `NoMatchDropped`, `NamespaceConfined`, `RejectedExactly`, `NilFilterExactly` |
| `object_updates` | MCObjectUpdates | 2 writers, 5 Go types, versions of two bits, 3 accepted writes | `VersionsIdentify`, `WritesAreSerial`, `RejectedUntouched`, `CopyPanicExplained` |
| `loopback` | MCLoopback | 3 goroutines that set and get again and again, 2 words, 2 values and nil | `SetOnce`, `SettersGetIt`, `NeverMixed`, `SetReturns` |

The bounds are named constants (`MaxCalls`, `MaxBuilds`, `MaxFlagFns`, `MaxFns`, `MaxRequirements`, `MaxWrites`).
*Why they are enough.* The registries react only to whether a key is there already; two calls give a first and then a
repeated, a related or a foreign key, on one server or two (the proofs of section 4 lift the bound). Two Builds are
the least that run a scheme function twice and leave two copies of the scheme in `r.Schemes`. `MaxFns` bounds the
calls that add to the three lists (the debug extension is one call that adds two functions); two calls give both orders of a
function that breaks something and one that needs it, and of two sets of definitions, on lists that both servers share. A flag
function that returns nil needs one after it, and one that collides needs another or the command's flags: `options` has the first and
the last, `build` the second. Two
goroutines race in `Get` or in a setter, a third arrives after the outcome. Two requirements are the least that
overwrite each other, and the same for a name and a namespace. Two writers conflict, three writes pass the
largest int and stop just before the versions would come round: with as many writes as there are ints, 2^64 in
the program, a version would identify two objects, and the assumption on `MaxWrites` says so.

`CHECK_DEADLOCK FALSE` is in every configuration because a program stops: it panics, has used up
its calls or its writes, or every selector is parsed. (In `loopback` no state lacks a step; setters and getters go on.)

**Symmetry.** Servers are interchangeable in `build`, `startup` and `options` and writers in `object_updates`: those runs have no
liveness property.

**Fairness.** Only the two modules with goroutines that wait for each other state any. `WF(Continue(p))` in SingletonProvider:
a goroutine inside `Get` is scheduled, and the provider returns or panics in the end. It is weak because a
goroutine waiting for the mutex is only overtaken as long as `done` is unset, and the mutex is taken finitely often.
`WF(SetStep(g))` in Loopback: a goroutine inside a setter is scheduled; the function of the Once is one assignment and
cannot block. The others state safety only: the loops of `Build` and of a startup range over finite lists and maps on one goroutine,
so that their end is no question a run could answer, and nothing in the code makes a writer come back.

### Where code and documentation differ

These runs check what a comment says and find it violated.

- `versions_share_storage`: `storage_provider.go:15` says that versions of a resource share storage.
  `BuildAPIGroupInfos` calls the function in `APIs` once for each version; nothing calls the singleton. Two
  versions share a storage only if the program's own function caches it.
- `option_fns`: `builder_generic.go:10` says that the functions customize the `ServerOptions`. `Complete` (`options.go:43`)
  discards what they return: only changes made in place count. `FnsInEffect` states what does hold: with functions
  that all work in place every one is in effect, and for the config and server functions without that condition.
- `name_filters`: a filter with a name and a namespace keeps objects of any name in the namespace
  (`utils.go:115`).
- `requirements_kept`: with two requirements only the last is in the filter (`utils.go:62`).
- `namespace_if_specified`: a request for all namespaces (an empty namespace in the context) erases the namespace
  that the selector names (`utils.go:84`).

Other observations, each visible in the models:

- `builder_resource.go:35` says that the status subresource is not registered. `AddResource` registers it when the
  provider has a status function (`apiserver.go:166`).
- `builder.go:28` calls a `Server` one "for a single API group", but a server serves every group in `APIs`, those
  registered on other servers included; `ServesBuiltVersions` states what it does.
- The help text of `--standalone-debug-mode` (`builder_auth.go:31`) says that the server crashes when it is bound to another
  address; the code logs an error and goes on.
- The variable of that flag is one for all commands: `OptionsNext` resets it when another command is built, `Parsed` leaves it
  as the last command left it when the flag is not defined.
- `UpdateResourceVersion` increments the generation as well; it does the same as `UpdateResourceVersionAndGeneration`.
- `WithOpenAPIDefinitions` makes its namer when it is called, before `Build` fills the scheme. Names of registered types
  then depend on what was built before; references and keys still agree, since both go through the same namer.

## 4. What is proved

The `...Proofs` modules hold the proofs. They assume only the named `ASSUME`s of the
modules (bounds are natural numbers; `NoProc` is no goroutine, `NilStorage` no storage; `NoServer` no server;
groups compare as numbers; a subresource has a name; an object and its subresources have a type; what the functions given to the
`With...Fns` can return (the object they were given, a copy, a new flag set, nil), that none of them but the debug extension's sets the
authorization or defines the debug flag and none but `WithOpenAPIDefinitions`' sets the OpenAPI configuration; no object is of
autoscaling/v1; OpenAPI names are Go paths, one for each type; what a
field selector's operators can be; the width of the int): the sets of servers,
objects, providers, goroutines, storages, words, writers and Go types are arbitrary, infinite ones included.

**Registration.** `RegInv` is `RegTypeOK`, `OrderedIsExternal`, `APIsBacked` and `FromCalls`, which ties each registry
to the history: an entry of `APIs` is that of some call for the GVR, a singleton that of some
call on that server for the group resource. `RegistriesAgree` is not inductive without it: it speaks of two maps with opposite
overwrite rules, and only the common origin of their entries in `calls` relates them. `Inductive` proves
`RegSpec => []RegInv`; `RegTypeCorrect`, `OrderedCorrect`, `BackedCorrect`, `AgreementCorrect` follow, and
`SingletonsKept` proves the action property.

**Builder.** `CommandVersionsPrioritised` speaks of commands already made, and of a scheme that any server's Build may change since.
`BInv` adds: a version in a priority list is an external one of `APIs`, a server's version list is of `APIs`
too, and the last scheme function of the Build in progress is the one that sets the priorities, so that once the cursor is
past the first copy of the scheme all of `APIs` has one. `OrdersLemma` is why: a permutation of a finite set
has all of it. `CommandVersionsCorrect` and `OthersKeptAlways` follow, for any servers, objects and Builds.

`SchemeIsDocumented` and `PanicExplained` speak of the scheme, and the first only of the states between Builds. `SInv` is `RegInv`, `BInv` and
`KInv`, which says what is known *during* a Build: the types in the scheme are those of the objects that a
Build has passed (`InScheme`: all objects before a priority function, except those that the Build in progress has
not reached on its first pass over the scheme functions); every scheme function comes from a registration or a Build;
each known type and parameter is documented for a registered object, so that two types for one kind are
two registered objects' (or one's) doing, which is what `Misused` says; and the observed versions are those of known types, so that
the priority function finds them. `AddToSchemeLemma` shows what `AddToScheme` leaves of a scheme for any list of
subresources: what it registers, and that it fails only for a listed cause. `BuildStrengthened` proves `SInv`;
`SchemeDocumentedAlways`, `PanicExplainedAlways` and `BuildTypeCorrect` follow. In `PanicStep` a flag function that panics has a cause in
`Misused`: the flag is the command's, another function's on the same set, or the set is the nil that the function before returned.

**ServerOptions.** Lists of functions are applied with `FoldLeft`. `ServerOptionsProofs` unfolds it once into the sequence of the
results of the calls and proves by induction over the sequence what the last one holds: a function that is applied stays in effect, an
object that is changed in place only is the one that is handed on, a fold that panicked met one of the causes. It also follows
a reference through `WithOpenAPIDefinitions`: its encoded name is a key, merged or aliased, with the definition of its type.

**APIServer.** `AInv` is the invariant of the two loops of `BuildAPIGroupInfos`: the infos made are below the visited group and
this one below those left; every group of `APIs` is left, visited or has its info; the storages
made for the visited group are those of its APIs that are done; and the map holds each of them, at its key, that a subresource named
"status" did not replace. The keys of two APIs never meet (`StoragesLemma`, `PlaceLemma`): this needs that they are of one group. From
it follow `RunTypeCorrect` and `GroupInfosCompleteAlways`, for any APIs, providers and orders of the map.

`ProgramInv` is `AInv`, `SInv` and `OptInv`: each list holds functions of its own kind, and (`ConfigOK`) from the moment a server starts its
configuration has every config function in effect, since nothing is appended to the lists meanwhile, and its generic server is nil
only if a server function returned nil. A customization and a startup come between the steps of the builder and keep its
strengthening. `ProgramRegistries` and `ProgramKeeps` restate the properties of Registration and Builder for the
whole program; `FnsInEffectAlways`, `OpenAPIResolvesAlways` and `StartPanicExplainedAlways` are about what a command starts with
and which programs panic.

`ServesBuiltVersions` relates a scheme that was filled by Builds to what a server serves several loops later. `LInv` follows an API
on this way. `GInv` (of Builder): once a Build has made one pass, the group of every built object has versions with a priority.
`InfosOK`: the versions of an info are those that the scheme has for its group, and each storage is in `APIs` with
the type of its provider. `UnderwayOK`: each built external API is in a group left or visited, is a route of an info not
yet installed, or a route of the server. `ServedOK`: no route is of an internal version. `InstallInvariant` proves `LInv`;
`ServesBuiltVersionsAlways` follows. `RejectionExplainedAlways` also needs `InstallableLemma`: if all is built and defined, a type of each
storage, the parent's or its own, is one that the object of its API brings (`MadeBy`, `SchemeIsDocumented`), and `ConfigOK` gives the
definitions that were last asked for.

**SingletonProvider.** `AtMostOneCall` says nothing of who is inside the critical section, so the invariant `IInv` adds: the
mutex is held exactly by the goroutine between `check` and `unlock`; `done` means that the call has
ended; while one goroutine is past `call` and `done` is unset, nobody else has called; the fields hold the outcome
from the write on; a goroutine that reads has seen `done`. From it follow `TypeCorrect`, `CalledOnce`,
`Agreement` and `Frozen`, and `Refinement`: every step of `Get` is a step of SharedInit or
leaves its variables unchanged (`SetDone` decides, `ReadErr` answers, `Unlock` of a panicking goroutine raises).

**FieldSelector.** The strengthening `LoopInv` is the loop invariant that the code does not have in words: after `n` passes
every requirement so far is supported and the filter is that of requirement `n` *alone*. Once accepted, the filter is that of
the last requirement with the request's namespace put in. `RejectedExactlyAlways`, `NilFilterExactlyAlways`,
`NamespaceConfinedAlways` and `NoMatchDroppedAlways` follow for selectors of any length.

**ObjectUpdates.** `VersionsIdentify` compares versions and is not inductive. `VersionsOK` numbers the accepted writes: the stored object
after `n` of them has version and generation `VersionOf(n)`, the int `n` steps past the first; a writer has the object of
write `readAt[w]`; and `VersionLemma` shows that these ints differ as long as they have not come round. From it
`VersionsIdentifyAlways` and `WritesAreSerialAlways`, for every width of the int. `RejectedUntouchedAlways` strengthens the property to all the
steps before the version is set (`UntouchedOK`): the last step that can fail comes before the first one that writes. `CopyPanicExplainedAlways` is inductive with `TypeOK`.

**Loopback.** `CellOK` says what the variable holds in each state of the Once (nothing, a part of the runner's argument, all of one
value), that this value is the first setter's argument, and that a setter has returned only when the Once is done; `GotOK`, that every word a getter has is the variable's or
zero. `SettersGetItAlways`, `NeverMixedAlways` and `SetOnceAlways` follow for any number of words and goroutines.

**Induction over data.** The library's induction theorems take an operator as a parameter, which the provers cannot instantiate.
The proofs use a form of induction for *sets* instead: a set of naturals that holds 0 and is closed under successor
is all of them (`SetInduction`), since a least number outside, which `WFMin` provides, would contradict that. With it the folds of
the library (`FlattenSeq` in `AddToScheme`, `FoldLeft` in ServerOptions) are unfolded for lists of any length.

**Only model-checked**: the liveness properties (`GetReturns`, `SetReturns` and the fairness part of
`ImplementsSharedInit`), which are out of the proof system's reach. Every other property of the passing runs is a theorem.

## 5. What is not modelled

- etcd, the generic API server and `runtime.Scheme` beyond what this code relies on; logging and debug output.
- Type declarations without behaviour (`alias.go`, `resourcerest/interface.go`, `resourcestrategy/interface.go`, most of
  `resource/types.go` and `subresource_types.go`): what an object implements is a field of its descriptor.
- Code that is commented out: `pkg/openapi`, and `storage_provider.go` from line 30 on.
- `pkg/util/context` (one value in a context), `Match`, `GetAttrs`, `SelectableFields`, `GetListPrt` and `AppendItem` of
  `utils.go`: calls into the libraries with no state of their own.
- `apiserver.Codecs`, which each `NewServerOptions` replaces by a factory on the same scheme, and the names of servers.
- Two Builds or startups on two goroutines at one time: a data race on every map involved.
