----------------------------- MODULE SchemeOps -----------------------------
(***************************************************************************)
(* What registering an object does to a runtime.Scheme                     *)
(* (pkg/builder/resource/register.go), as operators on a scheme value:     *)
(*   known            {[gv, type]}: the types of every group version       *)
(*   observed         the external group versions that were added          *)
(*   versionPriority  group -> its versions, preferred one first           *)
(*   defaulters       the Go types with a defaulting function              *)
(*   params           {[gv, type]}: the option types that AddToScheme adds *)
(*                    to the package variable apiserver.ParameterScheme    *)
(* runtime.Scheme itself is k8s.io/apimachinery, outside this repository:  *)
(* the operators under "external" model what this code relies on.  List    *)
(* kinds and the meta kinds of AddToGroupVersion follow their group        *)
(* version everywhere and are not represented.                             *)
(***************************************************************************)
EXTENDS Naturals, Sequences, SequencesExt, Resources

CONSTANT NoType     \* no such Go type: a nil status object or options object

(* NewScheme().  The meta and unversioned types of the group "", which init() *)
(* adds to both schemes before anything runs, are left out: no object is of  *)
(* that group.                                                               *)
EmptyScheme == [known |-> {}, observed |-> {}, versionPriority |-> EmptyMap,
                defaulters |-> {}, params |-> {}]

AutoscalingV1 == [group |-> 0, version |-> "v1"]
ScaleType == [kind |-> "Scale", pkg |-> "autoscaling"]

(* New() of an object and of a subresource returns an instance.  No object    *)
(* is of autoscaling/v1, so that Recognizes only saves registering the same  *)
(* Scale again.                                                              *)
ASSUME SchemeAssumption ==
  \A o \in Objects :
    /\ o.type # NoType
    /\ GV(GVR(o)) # AutoscalingV1
    /\ o.subs \in Seq(ToSet(o.subs))
    /\ \A i \in DOMAIN o.subs : o.subs[i].type # NoType

-----------------------------------------------------------------------------
(* The calls one object makes on the scheme, in program order.              *)
Call(do, gv, t) == [do |-> do, gv |-> gv, type |-> t]
Known(gv, t)    == Call("AddKnownTypes", gv, t)
Param(gv, t)    == Call("AddParameterTypes", gv, t)
Default(gv, t)  == Call("AddTypeDefaultingFunc", gv, t)
Fail(gv)        == Call("return err", gv, NoType)

When(cond, steps) == IF cond THEN steps ELSE << >>

Internal(g) == [group |-> g, version |-> APIVersionInternal]

(* Mutant of StorageSteps: every version is registered as the internal one.  *)
StorageSteps_AllInternal(o) ==
  <<Known(Internal(o.group), o.type)>> \o
  When(~o.isStorageVersion /\ o.conversions # "ok", <<Fail(GV(GVR(o)))>>)

(* The storage version is registered a second time as the internal version;  *)
(* every other version must bring its conversions.                           *)
StorageSteps(o) ==
  IF o.isStorageVersion
  THEN <<Known(Internal(o.group), o.type)>>
  ELSE When(o.conversions # "ok", <<Fail(GV(GVR(o)))>>)

(* Mutant of SubResourceSteps: nil options are registered as well.           *)
SubResourceSteps_NilOptions(o, sub) ==
  LET gv == GV(GVR(o))
  IN  When(sub.type # o.type, <<Known(gv, sub.type)>>) \o <<Known(gv, sub.options)>>

(* The new type of an arbitrary subresource, and its options with their      *)
(* conversion functions.                                                     *)
SubResourceSteps(o, sub) ==
  LET gv == GV(GVR(o))
  IN  When(sub.type # o.type, <<Known(gv, sub.type)>>) \o
      When(sub.options # NoType,
           <<Known(gv, sub.options), Param(gv, sub.options)>> \o
           When(sub.conversions = "error", <<Fail(gv)>>))

(* Mutant of AddToSchemeSteps: the internal version only is registered.      *)
AddToSchemeSteps_InternalOnly(o) == StorageSteps(o)

AddToSchemeSteps(o) ==
  LET gv == GV(GVR(o))
  IN  <<Known(gv, o.type)>> \o StorageSteps(o) \o
      When(o.defaulter, <<Default(gv, o.type)>>) \o
      When(o.status # NoType, <<Known(gv, o.status)>>) \o
      When(o.scale, <<Known(AutoscalingV1, ScaleType)>>) \o
      FlattenSeq([i \in DOMAIN o.subs |-> SubResourceSteps(o, o.subs[i])])

SchemeSteps == [o \in Objects |-> AddToSchemeSteps(o)]

-----------------------------------------------------------------------------
(* External: AddKnownTypes panics when the scheme has another Go type for    *)
(* the same group, version and kind; adding the same type again is fine.     *)
Conflict(types, gv, t) ==
  \E k \in types : k.gv = gv /\ k.type.kind = t.kind /\ k.type # t

Added(steps, do, is) ==
  {[gv |-> steps[i].gv, type |-> steps[i].type] : i \in {j \in is : steps[j].do = do}}

(* The result of step i of steps, after all the steps before it. *)
Outcome(scheme, steps, i) ==
  LET s == steps[i]
      types == IF s.do = "AddParameterTypes" THEN scheme.params ELSE scheme.known
  IN  CASE s.do = "return err" -> "error"
        [] s.do = "AddTypeDefaultingFunc" -> "ok"
        [] OTHER -> IF Conflict(types \cup Added(steps, s.do, 1..(i-1)), s.gv, s.type)
                    THEN "panic" ELSE "ok"

(* AddToScheme(o)(scheme): the calls up to the first that fails take effect. *)
AddToScheme(scheme, o) ==
  LET steps == SchemeSteps[o]
      bad == {i \in DOMAIN steps : Outcome(scheme, steps, i) # "ok"}
      ran == {i \in DOMAIN steps : \A j \in bad : i < j}
      new == Added(steps, "AddKnownTypes", ran)
  IN  [ok |-> bad = {},
       scheme |->
         [scheme EXCEPT
            !.known = @ \cup new,
            !.observed = @ \cup {k.gv : k \in {n \in new : n.gv.version # APIVersionInternal}},
            !.defaulters = @ \cup {k.type : k \in Added(steps, "AddTypeDefaultingFunc", ran)},
            !.params = @ \cup Added(steps, "AddParameterTypes", ran)]]

-----------------------------------------------------------------------------
(* Version priorities. *)
Groups(gvrs) == {r.group : r \in gvrs}

ExternalVersions(gvrs, g) ==
  {r.version : r \in {q \in gvrs : q.group = g}} \ {APIVersionInternal}

(* SetVersionPriority() of no version at all is an error. *)
CanPrioritize(gvrs) == \A g \in Groups(gvrs) : ExternalVersions(gvrs, g) # {}

(* The versions of a group reach SetVersionPriority in the iteration order   *)
(* of a Go set: any permutation.                                             *)
Priorities(gvrs) ==
  LET orders == [g \in Groups(gvrs) |-> SetToSeqs(ExternalVersions(gvrs, g))]
  IN  {f \in [Groups(gvrs) -> UNION {orders[g] : g \in Groups(gvrs)}] :
         \A g \in Groups(gvrs) : f[g] \in orders[g]}

(* External: SetVersionPriority, which replaces the order of its group. *)
Prioritize(scheme, priorities) ==
  [scheme EXCEPT !.versionPriority =
     [g \in DOMAIN @ \cup DOMAIN priorities |->
        IF g \in DOMAIN priorities THEN priorities[g] ELSE @[g]]]

(* External: PrioritizedVersionsForGroup, the versions with a priority and   *)
(* those only observed (their order, which nothing here depends on, is left  *)
(* out).                                                                     *)
PrioritizedVersionsForGroup(scheme, g) ==
  (IF g \in DOMAIN scheme.versionPriority THEN ToSet(scheme.versionPriority[g]) ELSE {})
    \cup {gv.version : gv \in {x \in scheme.observed : x.group = g}}
=============================================================================
