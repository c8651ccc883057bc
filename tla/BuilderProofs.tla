--------------------------- MODULE BuilderProofs ---------------------------
(***************************************************************************)
(* Proofs about Builder, for any number of servers, objects, providers,    *)
(* calls and Builds.                                                       *)
(*                                                                         *)
(* SInv has three parts.  RegInv is about the registries.  BInv ties       *)
(* three things together: the versions of a priority list are those of     *)
(* APIs, the version list of a server is of APIs too, and once a Build     *)
(* has been through the scheme functions, whose last one sets the          *)
(* priorities, all of APIs has them.  KInv says which types are in the     *)
(* scheme at each point of a Build, and that what can conflict there       *)
(* comes from registered objects.                                          *)
(*                                                                         *)
(* GInv, at the end, relates the groups of the objects that were built to  *)
(* the versions that the scheme has for them.                              *)
(***************************************************************************)
EXTENDS Builder, RegistrationProofs, FiniteSetTheorems, SequenceTheorems,
        WellFoundedInduction, TLAPS

(* The variables of a program that registers and builds.                     *)
bvars == <<regVars, buildVars>>

(* The fields of a scheme value.                                             *)
IsScheme(x) == DOMAIN x = {"known", "observed", "versionPriority", "defaulters", "params"}

(* The external versions that APIs has for a group.                          *)
External(g) == ExternalVersions(DOMAIN APIs, g)

(* The priority lists of the scheme.                                         *)
vp == Scheme.versionPriority

(* The version is in the priority list of its group.                         *)
HasPriority(gv) == gv.group \in DOMAIN vp /\ gv.version \in ToSet(vp[gv.group])

(* What the steps of the proofs need of the types.                           *)
Shapes ==
  /\ IsScheme(Scheme)
  /\ IsFiniteSet(DOMAIN APIs)
  /\ schemeBuilder \in [Servers -> Seq(SchemeFns)]
  /\ DOMAIN groupVersions = Servers
  /\ orderedGroupVersions \in [Servers -> Seq(GVs)]
  /\ Schemes \in [Servers -> Nat]
  /\ cursor \in [scheme : Nat, fn : Nat]
  /\ DOMAIN phase = Servers
  /\ DOMAIN cmd = Servers
  /\ DOMAIN serverEtcdPath = Servers
  /\ active \in Servers \cup {NoServer}
  /\ \E S : FlagsFns \in Seq(S)

(* The versions in the lists are external ones of APIs. *)
PriorityOK ==
  /\ \A g \in DOMAIN vp :
       g \in Groups(DOMAIN APIs) /\ vp[g] \in Seq(External(g)) /\ IsInjective(vp[g])
  /\ \A s \in Servers : \A i \in 1..Len(orderedGroupVersions[s]) :
       \E r \in DOMAIN APIs : GV(r) = orderedGroupVersions[s][i] /\ r.version # APIVersionInternal

(* A Build of s is in progress.                                              *)
Building(s) == active = s /\ phase[s] = "building"

(* The Build in progress. *)
BuildOK ==
  \A s \in Servers : Building(s) =>
    /\ EtcdPath = serverEtcdPath[s]
    /\ Schemes[s] >= 1 /\ cursor.scheme >= 1
    /\ cursor.fn \in 1..Len(schemeBuilder[s])
    /\ schemeBuilder[s][Len(schemeBuilder[s])] = SetVersionPriorityFn
    /\ cursor.scheme > 1 /\ ~panicked =>
         \A r \in DOMAIN APIs : r.version # APIVersionInternal => HasPriority(GV(r))

(* The versions of a command have priorities.                                *)
CmdOK ==
  \A s \in Servers :
    /\ cmd[s].versions \in Seq(GVs)
    /\ \A i \in 1..Len(cmd[s].versions) : HasPriority(cmd[s].versions[i])

(* The part of the strengthening that is about priorities.                   *)
BInv == Shapes /\ PriorityOK /\ BuildOK /\ CmdOK

(* The scheme functions come from the registrations or from a Build.         *)
FnsOK ==
  \A s \in Servers : \A i \in 1..Len(schemeBuilder[s]) :
    \/ schemeBuilder[s][i] = SetVersionPriorityFn
    \/ \E o \in Registered : schemeBuilder[s][i] = AddToSchemeFn(o)

(* The objects of a server that are in the scheme: those registered before a *)
(* Build, of which the one in progress has not yet run all for the first     *)
(* time.                                                                     *)
InScheme(s) ==
  {o \in Objects : \E i, j \in 1..Len(schemeBuilder[s]) :
     /\ i < j
     /\ schemeBuilder[s][i] = AddToSchemeFn(o)
     /\ schemeBuilder[s][j] = SetVersionPriorityFn
     /\ Building(s) => \/ j < Len(schemeBuilder[s])
                       \/ cursor.scheme > 1
                       \/ i < cursor.fn}

(* The types in the scheme are those that such objects document.             *)
KnownOK ==
  ~panicked =>
    Scheme.known = UNION {Documented(o) : o \in UNION {InScheme(s) : s \in Servers}}

(* Whatever is in the scheme is documented for a registered object.          *)
FromObjects ==
  /\ \A k \in Scheme.known \cup Scheme.params : \E o \in Registered : k \in Documented(o)
  /\ Scheme.params \subseteq [gv : GVs, type : Types]

(* The observed versions are the external ones of the known types and more.  *)
ObservedOK ==
  /\ Scheme.observed \subseteq {gv \in SchemeGVs : gv.version # APIVersionInternal}
  /\ \A k \in Scheme.known : k.gv \in Scheme.observed \/ k.gv.version = APIVersionInternal

(* The part that is about the types in the scheme.                           *)
KInv == FnsOK /\ KnownOK /\ FromObjects /\ ObservedOK

(* The strengthening.                                                        *)
SInv == RegInv /\ BInv /\ KInv

(* The flags of the command that a Build would make now.                     *)
OwnFlags == {FlagsFns[i].flag : i \in {j \in DOMAIN FlagsFns : SameFlagSet(1, j)}}

(* What a step leaves of the priorities. *)
Kept ==
  \A g \in DOMAIN vp : g \in DOMAIN vp' /\ ToSet(vp[g]) \subseteq ToSet(vp'[g])

-----------------------------------------------------------------------------
(* A sequence of some is a sequence of more.                                 *)
LEMMA SeqSubset ==
  ASSUME NEW S, NEW T, S \subseteq T
  PROVE  Seq(S) \subseteq Seq(T)
<1> SUFFICES ASSUME NEW q \in Seq(S) PROVE q \in Seq(T)
  OBVIOUS
<1>1. q \in [1..Len(q) -> S] /\ Len(q) \in Nat
  BY LenProperties
<1>2. q \in [1..Len(q) -> T]
  BY <1>1
<1> QED BY <1>1, <1>2, SeqDef

(* The elements of a sequence, as ToSet and as Contains see them.            *)
LEMMA SeqElements ==
  ASSUME NEW S, NEW q \in Seq(S)
  PROVE  /\ ToSet(q) = {q[i] : i \in 1..Len(q)}
         /\ ToSet(q) \subseteq S
         /\ \A e : Contains(q, e) <=> e \in ToSet(q)
<1>1. DOMAIN q = 1..Len(q) /\ q \in [1..Len(q) -> S]
  BY LenProperties
<1> QED BY <1>1 DEF ToSet, Contains

(* The external versions of a group are finitely many.                       *)
LEMMA ExternalFinite ==
  ASSUME NEW gvrs, IsFiniteSet(gvrs), NEW g
  PROVE  IsFiniteSet(ExternalVersions(gvrs, g))
<1> DEFINE D == {r \in gvrs : r.group = g /\ r.version # APIVersionInternal}
           T == ExternalVersions(gvrs, g)
           f == [r \in D |-> r.version]
<1>1. IsFiniteSet(D)
  BY FS_Subset
<1>2. T = {r.version : r \in D}
  BY DEF ExternalVersions
<1>3. f \in Surjection(D, T)
  BY <1>2 DEF Surjection
<1> QED BY <1>1, <1>3, FS_Surjection

(* A priority list has every external version of its group, once.            *)
LEMMA OrdersLemma ==
  ASSUME NEW gvrs, IsFiniteSet(gvrs), NEW p \in Priorities(gvrs)
  PROVE  /\ DOMAIN p = Groups(gvrs)
         /\ \A g \in Groups(gvrs) :
              /\ p[g] \in Seq(ExternalVersions(gvrs, g))
              /\ IsInjective(p[g])
              /\ ToSet(p[g]) = ExternalVersions(gvrs, g)
<1>1. DOMAIN p = Groups(gvrs)
  BY DEF Priorities
<1>2. ASSUME NEW g \in Groups(gvrs)
      PROVE  /\ p[g] \in Seq(ExternalVersions(gvrs, g))
             /\ IsInjective(p[g])
             /\ ToSet(p[g]) = ExternalVersions(gvrs, g)
  <2> DEFINE T == ExternalVersions(gvrs, g)
             D == 1..Cardinality(T)
  <2>1. IsFiniteSet(T) /\ Cardinality(T) \in Nat
    BY ExternalFinite, FS_CardinalityType
  <2>2. p[g] \in SetToSeqs(T)
    BY <1>2 DEF Priorities
  <2>3. p[g] \in [D -> T] /\ \A i, j \in D : i # j => p[g][i] # p[g][j]
    BY <2>2 DEF SetToSeqs
  <2>4. p[g] \in Injection(D, T) /\ IsInjective(p[g])
    BY <2>3 DEF Injection, IsInjective
  <2>5. Cardinality(D) = Cardinality(T)
    BY <2>1, FS_Interval
  <2>6. p[g] \in Surjection(D, T)
    BY <2>1, <2>4, <2>5, FS_Injection
  <2>7. ToSet(p[g]) = T
    <3>1. DOMAIN p[g] = D
      BY <2>3
    <3>2. \A x \in T : \E i \in D : p[g][i] = x
      BY <2>6 DEF Surjection
    <3>3. \A i \in D : p[g][i] \in T
      BY <2>3
    <3> QED BY <3>1, <3>2, <3>3 DEF ToSet
  <2>8. p[g] \in Seq(T)
    BY <2>1, <2>3, SeqDef
  <2> QED BY <2>4, <2>7, <2>8
<1> QED BY <1>1, <1>2

-----------------------------------------------------------------------------
(* Induction on the naturals for a set: the least number left out of it,     *)
(* which there is since < is well-founded, cannot be.                        *)
LEMMA SetInduction ==
  ASSUME NEW T, 0 \in T, \A n \in Nat : n \in T => n + 1 \in T
  PROVE  Nat \subseteq T
<1> DEFINE U == Nat \ T
<1> SUFFICES ASSUME U # {} PROVE FALSE
  OBVIOUS
<1>1. IsWellFoundedOn(OpToRel(<, Nat), Nat)
  BY NatLessThanWellFounded
<1>2. PICK n \in U : \A m \in U : ~(<<m, n>> \in OpToRel(<, Nat))
  BY <1>1, WFMin
<1>3. \A m \in U : ~(m < n)
  <2> SUFFICES ASSUME NEW m \in U, m < n PROVE FALSE
    OBVIOUS
  <2>1. <<m, n>> \in Nat \X Nat /\ <<m, n>>[1] < <<m, n>>[2]
    OBVIOUS
  <2>2. <<m, n>> \in OpToRel(<, Nat)
    BY <2>1 DEF OpToRel
  <2> QED BY <1>2, <2>2
<1>4. n # 0 /\ n - 1 \in Nat /\ n - 1 \notin U
  BY <1>3
<1> QED BY <1>4

(* A concatenation has the elements of both.                                 *)
LEMMA ConcatElements ==
  ASSUME NEW S, NEW a \in Seq(S), NEW b \in Seq(S)
  PROVE  a \o b \in Seq(S) /\ ToSet(a \o b) = ToSet(a) \cup ToSet(b)
<1> DEFINE c == a \o b
<1>1. /\ c \in Seq(S) /\ Len(c) = Len(a) + Len(b)
      /\ \A i \in 1..(Len(a) + Len(b)) : c[i] = IF i <= Len(a) THEN a[i] ELSE b[i - Len(a)]
      /\ Len(a) \in Nat /\ Len(b) \in Nat
  BY ConcatProperties
<1>2. DOMAIN c = 1..Len(c) /\ DOMAIN a = 1..Len(a) /\ DOMAIN b = 1..Len(b)
  BY <1>1, LenProperties
<1> HIDE DEF c
<1>3. ASSUME NEW e \in ToSet(c) PROVE e \in ToSet(a) \cup ToSet(b)
  <2>1. PICK i \in 1..(Len(a) + Len(b)) : e = c[i]
    BY <1>1, <1>2, <1>3 DEF ToSet
  <2>2. CASE i <= Len(a)
    <3>1. i \in DOMAIN a /\ e = a[i]
      BY <1>1, <1>2, <2>1, <2>2
    <3> QED BY <3>1 DEF ToSet
  <2>3. CASE ~(i <= Len(a))
    <3>1. i - Len(a) \in DOMAIN b /\ e = b[i - Len(a)]
      BY <1>1, <1>2, <2>1, <2>3
    <3> QED BY <3>1 DEF ToSet
  <2> QED BY <2>2, <2>3
<1>4. ASSUME NEW e \in ToSet(a) PROVE e \in ToSet(c)
  <2>1. PICK i \in 1..Len(a) : e = a[i]
    BY <1>2, <1>4 DEF ToSet
  <2>2. i \in DOMAIN c /\ e = c[i]
    BY <1>1, <1>2, <2>1
  <2> QED BY <2>2 DEF ToSet
<1>5. ASSUME NEW e \in ToSet(b) PROVE e \in ToSet(c)
  <2>1. PICK i \in 1..Len(b) : e = b[i]
    BY <1>2, <1>5 DEF ToSet
  <2> DEFINE k == Len(a) + i
  <2>2. k \in 1..(Len(a) + Len(b)) /\ ~(k <= Len(a)) /\ k - Len(a) = i
    BY <1>1
  <2>3. k \in DOMAIN c /\ e = c[k]
    <3> HIDE DEF k
    <3> QED BY <1>1, <1>2, <2>1, <2>2
  <2> QED BY <2>3 DEF ToSet
<1> QED BY <1>1, <1>3, <1>4, <1>5 DEF c

(* FlattenSeq has the elements of every sequence in the list, by induction   *)
(* over the list.                                                            *)
LEMMA FlattenElements ==
  ASSUME NEW S, NEW q \in Seq(Seq(S))
  PROVE  /\ FlattenSeq(q) \in Seq(S)
         /\ \A e : e \in ToSet(FlattenSeq(q)) <=> \E i \in 1..Len(q) : e \in ToSet(q[i])
<1> DEFINE n == Len(q)
<1>1. n \in Nat /\ \A i \in 1..n : q[i] \in Seq(S)
  BY LenProperties
<1>2. CASE n = 0
  <2>1. FlattenSeq(q) = q /\ q = << >>
    BY <1>2 DEF FlattenSeq
  <2>2. q \in Seq(S) /\ ToSet(q) = {}
    BY <2>1 DEF ToSet
  <2> QED BY <1>2, <2>1, <2>2
<1>3. CASE n # 0
  <2> DEFINE Step(f, i) == IF i = 1 THEN q[i] ELSE f[i-1] \o q[i]
             Fun(f, k) == f = [i \in 1..k |-> Step(f, i)]
             F == CHOOSE f : Fun(f, n)
             T == {k \in Nat : \E f : Fun(f, k)}
  <2>1. 0 \in T
    <3> DEFINE f == [i \in 1..0 |-> i]
    <3>1. f = [i \in 1..0 |-> Step(f, i)]
      OBVIOUS
    <3> HIDE DEF f, Step
    <3> QED BY <3>1
  <2>2. ASSUME NEW k \in Nat, k \in T PROVE k + 1 \in T
    <3>1. PICK f : f = [i \in 1..k |-> Step(f, i)]
      BY <2>2
    <3> DEFINE h == [i \in 1..(k+1) |-> Step(f, i)]
    <3>2. \A i \in 1..k : h[i] = f[i]
      <4> HIDE DEF Step
      <4>1. \A i \in 1..k : f[i] = Step(f, i)
        BY <3>1, Zenon
      <4>2. \A i \in 1..k : h[i] = Step(f, i)
        OBVIOUS
      <4> QED BY <4>1, <4>2
    <3>3. \A i \in 1..(k+1) : Step(f, i) = Step(h, i)
      <4> SUFFICES ASSUME NEW i \in 1..(k+1), i # 1 PROVE f[i-1] = h[i-1]
        OBVIOUS
      <4>1. i - 1 \in 1..k
        OBVIOUS
      <4> HIDE DEF h
      <4> QED BY <3>2, <4>1
    <3>4. h = [i \in 1..(k+1) |-> Step(h, i)]
      <4>1. h = [i \in 1..(k+1) |-> Step(f, i)]
        OBVIOUS
      <4> HIDE DEF h, Step
      <4> QED BY <3>3, <4>1
    <3>5. Fun(h, k+1)
      BY <3>4
    <3> HIDE DEF h, Fun
    <3> QED BY <3>5
  <2>3. n \in T
    <3> HIDE DEF T
    <3>1. Nat \subseteq T
      BY <2>1, <2>2, SetInduction
    <3> QED BY <1>1, <3>1
  <2>4. F = [i \in 1..n |-> Step(F, i)]
    <3>1. \E f : Fun(f, n)
      BY <2>3
    <3> HIDE DEF Fun
    <3>2. Fun(F, n)
      BY <3>1
    <3> QED BY <3>2 DEF Fun
  <2>5. FlattenSeq(q) = F[n]
    BY <1>1, <1>3, Zenon DEF FlattenSeq
  <2> HIDE DEF F
  <2>6. F[1] = q[1] /\ \A k \in 1..(n-1) : F[k+1] = F[k] \o q[k+1]
    <3>1. \A i \in 1..n : F[i] = Step(F, i)
      <4> HIDE DEF Step
      <4> QED BY <2>4, Zenon
    <3>2. 1 \in 1..n /\ \A k \in 1..(n-1) : k + 1 \in 1..n /\ k + 1 # 1 /\ (k + 1) - 1 = k
      BY <1>1, <1>3
    <3> QED BY <3>1, <3>2
  <2> DEFINE P(k) == /\ F[k] \in Seq(S)
                     /\ \A e : e \in ToSet(F[k]) <=> \E i \in 1..k : e \in ToSet(q[i])
             Q == {k \in Nat : k \in 1..n => P(k)}
  <2>7. 0 \in Q
    OBVIOUS
  <2>8. ASSUME NEW k \in Nat, k \in Q PROVE k + 1 \in Q
    <3> SUFFICES ASSUME k + 1 \in 1..n PROVE P(k+1)
      OBVIOUS
    <3>1. CASE k = 0
      <4>1. F[k+1] = q[1] /\ q[1] \in Seq(S)
        BY <1>1, <1>3, <2>6, <3>1
      <4>2. \A i : i \in 1..(k+1) <=> i = 1
        BY <3>1
      <4> QED BY <4>1, <4>2
    <3>2. CASE k # 0
      <4>1. k \in 1..(n-1) /\ k \in 1..n /\ k + 1 \in 1..n
        BY <1>1, <3>2
      <4>2. /\ F[k] \in Seq(S)
            /\ \A e : e \in ToSet(F[k]) <=> \E i \in 1..k : e \in ToSet(q[i])
        BY <2>8, <4>1
      <4>3. F[k+1] = F[k] \o q[k+1] /\ q[k+1] \in Seq(S)
        BY <1>1, <2>6, <4>1
      <4>4. F[k+1] \in Seq(S) /\ ToSet(F[k+1]) = ToSet(F[k]) \cup ToSet(q[k+1])
        BY <4>2, <4>3, ConcatElements
      <4>5. \A i : i \in 1..(k+1) <=> i \in 1..k \/ i = k+1
        OBVIOUS
      <4> QED BY <4>2, <4>4, <4>5
    <3> QED BY <3>1, <3>2
  <2>9. n \in Q
    <3> HIDE DEF Q
    <3>1. Nat \subseteq Q
      BY <2>7, <2>8, SetInduction
    <3> QED BY <1>1, <3>1
  <2>10. n \in 1..n
    BY <1>1, <1>3
  <2> QED BY <2>5, <2>9, <2>10
<1> QED BY <1>2, <1>3


(* The calls that register.go makes on a scheme.                             *)
Dos == {"AddKnownTypes", "AddParameterTypes", "AddTypeDefaultingFunc", "return err"}

(* The sequences of calls that one object may make.                          *)
Steps(o) ==
  [do : Dos, gv : {GV(GVR(o)), Internal(o.group), AutoscalingV1},
   type : OwnTypes(o) \cup {NoType, ScaleType}]

(* What a call registers.                                                    *)
Pair(c) == [gv |-> c.gv, type |-> c.type]

(* An object without conversions that needs them, or a failing subresource.  *)
CannotConvert(o) ==
  \/ ~o.isStorageVersion /\ o.conversions # "ok"
  \/ \E i \in DOMAIN o.subs : o.subs[i].conversions = "error"

(* A call made for o registers what o documents.                             *)
StepOK(o, c) ==
  /\ c.do \in {"AddKnownTypes", "AddParameterTypes"} => Pair(c) \in Documented(o)
  /\ c.do = "AddParameterTypes" => c.gv = GV(GVR(o)) /\ c.type \in OwnTypes(o)
  /\ c.do = "AddTypeDefaultingFunc" => c.type = o.type
  /\ c.do = "return err" => CannotConvert(o)

(* The elements of a conditional list.                                       *)
LEMMA WhenElements ==
  ASSUME NEW S, NEW q \in Seq(S), NEW cond
  PROVE  When(cond, q) \in Seq(S) /\ ToSet(When(cond, q)) = {e \in ToSet(q) : cond}
<1>1. ToSet(<< >>) = {} /\ << >> \in Seq(S)
  BY DEF ToSet
<1> QED BY <1>1 DEF When

(* The element of a list of one.                                             *)
LEMMA SingleElement ==
  ASSUME NEW S, NEW e \in S
  PROVE  <<e>> \in Seq(S) /\ ToSet(<<e>>) = {e}
BY DEF ToSet

(* The types an object has are among those of the program.                   *)
LEMMA OwnTypesLemma ==
  ASSUME NEW o \in Objects
  PROVE  /\ o.type \in OwnTypes(o)
         /\ o.status # NoType => o.status \in OwnTypes(o)
         /\ \A i \in DOMAIN o.subs :
              /\ o.subs[i].type \in OwnTypes(o)
              /\ o.subs[i].options # NoType => o.subs[i].options \in OwnTypes(o)
         /\ \A t \in OwnTypes(o) :
              \/ t = o.type
              \/ t = o.status /\ t # NoType
              \/ \E i \in DOMAIN o.subs : t = o.subs[i].type \/ (t = o.subs[i].options /\ t # NoType)
BY SchemeAssumption DEF OwnTypes

(* The calls for one subresource. *)
LEMMA SubSteps ==
  ASSUME NEW o \in Objects, NEW i \in DOMAIN o.subs
  PROVE  LET sub == o.subs[i]
             q == SubResourceSteps(o, sub)
             gv == GV(GVR(o))
         IN  /\ q \in Seq(Steps(o))
             /\ \A c \in ToSet(q) : StepOK(o, c)
             /\ sub.type # o.type => Known(gv, sub.type) \in ToSet(q)
             /\ sub.options # NoType => Known(gv, sub.options) \in ToSet(q)
<1> DEFINE sub == o.subs[i]
           gv == GV(GVR(o))
           a == <<Known(gv, sub.type)>>
           b == <<Known(gv, sub.options), Param(gv, sub.options)>>
           f == <<Fail(gv)>>
           wa == When(sub.type # o.type, a)
           wf == When(sub.conversions = "error", f)
           wb == When(sub.options # NoType, b \o wf)
<1>1. /\ sub.type \in OwnTypes(o) /\ sub.type # NoType
      /\ sub.options # NoType => sub.options \in OwnTypes(o)
  BY OwnTypesLemma, SchemeAssumption
<1> HIDE DEF sub
<1>2. Known(gv, sub.type) \in Steps(o) /\ StepOK(o, Known(gv, sub.type))
  BY <1>1 DEF Known, Call, Steps, Dos, StepOK, Pair, Documented
<1>3. sub.options # NoType =>
        /\ Known(gv, sub.options) \in Steps(o) /\ Param(gv, sub.options) \in Steps(o)
        /\ StepOK(o, Known(gv, sub.options)) /\ StepOK(o, Param(gv, sub.options))
  BY <1>1 DEF Known, Param, Call, Steps, Dos, StepOK, Pair, Documented
<1>4. Fail(gv) \in Steps(o) /\ (sub.conversions = "error" => StepOK(o, Fail(gv)))
  BY DEF Fail, Call, Steps, Dos, StepOK, CannotConvert, sub
<1> HIDE DEF gv
<1>5. wa \in Seq(Steps(o)) /\ ToSet(wa) = {c \in {Known(gv, sub.type)} : sub.type # o.type}
  <2>1. a \in Seq(Steps(o)) /\ ToSet(a) = {Known(gv, sub.type)}
    BY <1>2, SingleElement
  <2> HIDE DEF a
  <2>2. wa \in Seq(Steps(o)) /\ ToSet(wa) = {e \in ToSet(a) : sub.type # o.type}
    BY <2>1, WhenElements
  <2> QED BY <2>1, <2>2
<1>6. wf \in Seq(Steps(o)) /\ ToSet(wf) = {c \in {Fail(gv)} : sub.conversions = "error"}
  <2>1. f \in Seq(Steps(o)) /\ ToSet(f) = {Fail(gv)}
    BY <1>4, SingleElement
  <2> HIDE DEF f
  <2>2. wf \in Seq(Steps(o)) /\ ToSet(wf) = {e \in ToSet(f) : sub.conversions = "error"}
    BY <2>1, WhenElements
  <2> QED BY <2>1, <2>2
<1>7. /\ wb \in Seq(Steps(o))
      /\ ToSet(wb) = {c \in {Known(gv, sub.options), Param(gv, sub.options)} \cup ToSet(wf) :
                        sub.options # NoType}
  <2>1. CASE sub.options # NoType
    <3>1. b \in Seq(Steps(o))
      BY <1>3, <2>1
    <3>2. ToSet(b) = {Known(gv, sub.options), Param(gv, sub.options)}
      BY DEF ToSet
    <3> HIDE DEF b, wf
    <3>3. b \o wf \in Seq(Steps(o)) /\ ToSet(b \o wf) = ToSet(b) \cup ToSet(wf)
      BY <1>6, <3>1, ConcatElements
    <3> QED BY <2>1, <3>2, <3>3 DEF When
  <2>2. CASE sub.options = NoType
    <3>1. wb = << >> /\ ToSet(<< >>) = {} /\ << >> \in Seq(Steps(o))
      BY <2>2 DEF When, ToSet
    <3> QED BY <2>2, <3>1
  <2> QED BY <2>1, <2>2
<1>8. SubResourceSteps(o, sub) = wa \o wb
  BY DEF SubResourceSteps, gv
<1> HIDE DEF wa, wb, wf
<1>9. wa \o wb \in Seq(Steps(o)) /\ ToSet(wa \o wb) = ToSet(wa) \cup ToSet(wb)
  BY <1>5, <1>7, ConcatElements
<1>10. \A c \in ToSet(wa \o wb) : StepOK(o, c)
  BY <1>2, <1>3, <1>4, <1>5, <1>6, <1>7, <1>9
<1>11. /\ sub.type # o.type => Known(gv, sub.type) \in ToSet(wa \o wb)
       /\ sub.options # NoType => Known(gv, sub.options) \in ToSet(wa \o wb)
  BY <1>5, <1>7, <1>9
<1> QED BY <1>8, <1>9, <1>10, <1>11 DEF sub, gv


(* All the calls of an object: what each may be, and that each documented    *)
(* pair is among them.                                                       *)
LEMMA AllSteps ==
  ASSUME NEW o \in Objects
  PROVE  LET q == AddToSchemeSteps(o)
         IN  /\ q \in Seq(Steps(o))
             /\ \A c \in ToSet(q) : StepOK(o, c)
             /\ \A k \in Documented(o) : \E c \in ToSet(q) : c.do = "AddKnownTypes" /\ Pair(c) = k
<1> DEFINE gv == GV(GVR(o))
           S == Steps(o)
           own == <<Known(gv, o.type)>>
           storage == StorageSteps(o)
           default == When(o.defaulter, <<Default(gv, o.type)>>)
           status == When(o.status # NoType, <<Known(gv, o.status)>>)
           scale == When(o.scale, <<Known(AutoscalingV1, ScaleType)>>)
           each == [i \in DOMAIN o.subs |-> SubResourceSteps(o, o.subs[i])]
           subs == FlattenSeq(each)
           Good(q) == q \in Seq(S) /\ \A c \in ToSet(q) : StepOK(o, c)
<1>0. o.type # NoType /\ o.subs \in Seq(ToSet(o.subs))
  BY SchemeAssumption
<1>1. Good(own) /\ Known(gv, o.type) \in ToSet(own)
  <2>1. Known(gv, o.type) \in S /\ StepOK(o, Known(gv, o.type))
    BY OwnTypesLemma DEF Known, Call, Steps, Dos, StepOK, Pair, Documented
  <2>2. own \in Seq(S) /\ ToSet(own) = {Known(gv, o.type)}
    BY <2>1, SingleElement
  <2> QED BY <2>1, <2>2
<1>2. Good(storage) /\ (o.isStorageVersion => Known(Internal(o.group), o.type) \in ToSet(storage))
  <2>1. CASE o.isStorageVersion
    <3>1. Known(Internal(o.group), o.type) \in S /\ StepOK(o, Known(Internal(o.group), o.type))
      BY <2>1, OwnTypesLemma DEF Known, Call, Steps, Dos, StepOK, Pair, Documented
    <3>2. storage = <<Known(Internal(o.group), o.type)>>
      BY <2>1 DEF StorageSteps
    <3>3. storage \in Seq(S) /\ ToSet(storage) = {Known(Internal(o.group), o.type)}
      BY <3>1, <3>2, SingleElement
    <3> QED BY <3>1, <3>3
  <2>2. CASE ~o.isStorageVersion
    <3>1. storage = When(o.conversions # "ok", <<Fail(gv)>>)
      BY <2>2 DEF StorageSteps
    <3>2. Fail(gv) \in S /\ (o.conversions # "ok" => StepOK(o, Fail(gv)))
      BY <2>2 DEF Fail, Call, Steps, Dos, StepOK, CannotConvert
    <3>3. <<Fail(gv)>> \in Seq(S) /\ ToSet(<<Fail(gv)>>) = {Fail(gv)}
      BY <3>2, SingleElement
    <3> DEFINE f == <<Fail(gv)>>
    <3>4. storage = When(o.conversions # "ok", f) /\ f \in Seq(S) /\ ToSet(f) = {Fail(gv)}
      BY <3>1, <3>3
    <3> HIDE DEF f, storage, S, gv
    <3>5. storage \in Seq(S) /\ ToSet(storage) = {c \in ToSet(f) : o.conversions # "ok"}
      BY <3>4, WhenElements
    <3> QED BY <2>2, <3>2, <3>4, <3>5
  <2> QED BY <2>1, <2>2
<1>3. Good(default)
  <2>1. Default(gv, o.type) \in S /\ StepOK(o, Default(gv, o.type))
    BY OwnTypesLemma DEF Default, Call, Steps, Dos, StepOK
  <2>2. <<Default(gv, o.type)>> \in Seq(S) /\ ToSet(<<Default(gv, o.type)>>) = {Default(gv, o.type)}
    BY <2>1, SingleElement
  <2>3. default \in Seq(S) /\ ToSet(default) = {e \in ToSet(<<Default(gv, o.type)>>) : o.defaulter}
    BY <2>2, WhenElements
  <2> QED BY <2>1, <2>2, <2>3
<1>4. Good(status) /\ (o.status # NoType => Known(gv, o.status) \in ToSet(status))
  <2>1. CASE o.status # NoType
    <3>1. Known(gv, o.status) \in S /\ StepOK(o, Known(gv, o.status))
      BY <2>1, OwnTypesLemma DEF Known, Call, Steps, Dos, StepOK, Pair, Documented
    <3>2. status = <<Known(gv, o.status)>>
      BY <2>1 DEF When
    <3>3. status \in Seq(S) /\ ToSet(status) = {Known(gv, o.status)}
      BY <3>1, <3>2, SingleElement
    <3> QED BY <3>1, <3>3
  <2>2. CASE o.status = NoType
    <3>1. status = << >> /\ ToSet(<< >>) = {} /\ << >> \in Seq(S)
      BY <2>2 DEF When, ToSet
    <3> QED BY <2>2, <3>1
  <2> QED BY <2>1, <2>2
<1>5. Good(scale) /\ (o.scale => Known(AutoscalingV1, ScaleType) \in ToSet(scale))
  <2>1. CASE o.scale
    <3>1. Known(AutoscalingV1, ScaleType) \in S /\ StepOK(o, Known(AutoscalingV1, ScaleType))
      BY <2>1 DEF Known, Call, Steps, Dos, StepOK, Pair, Documented
    <3>2. scale = <<Known(AutoscalingV1, ScaleType)>>
      BY <2>1 DEF When
    <3>3. scale \in Seq(S) /\ ToSet(scale) = {Known(AutoscalingV1, ScaleType)}
      BY <3>1, <3>2, SingleElement
    <3> QED BY <3>1, <3>3
  <2>2. CASE ~o.scale
    <3>1. scale = << >> /\ ToSet(<< >>) = {} /\ << >> \in Seq(S)
      BY <2>2 DEF When, ToSet
    <3> QED BY <2>2, <3>1
  <2> QED BY <2>1, <2>2
<1>6. /\ Good(subs)
      /\ \A i \in DOMAIN o.subs :
           /\ o.subs[i].type # o.type => Known(gv, o.subs[i].type) \in ToSet(subs)
           /\ o.subs[i].options # NoType => Known(gv, o.subs[i].options) \in ToSet(subs)
  <2>1. \A i \in DOMAIN o.subs :
          /\ each[i] \in Seq(S)
          /\ \A c \in ToSet(each[i]) : StepOK(o, c)
          /\ o.subs[i].type # o.type => Known(gv, o.subs[i].type) \in ToSet(each[i])
          /\ o.subs[i].options # NoType => Known(gv, o.subs[i].options) \in ToSet(each[i])
    BY SubSteps
  <2>2. DOMAIN o.subs = 1..Len(o.subs) /\ Len(o.subs) \in Nat
    BY <1>0, LenProperties
  <2>3. each \in Seq(Seq(S)) /\ Len(each) = Len(o.subs)
    <3>1. DOMAIN each = 1..Len(o.subs)
      BY <2>2
    <3> HIDE DEF each
    <3>2. each \in [1..Len(o.subs) -> Seq(S)]
      <4>1. each = [i \in DOMAIN o.subs |-> each[i]]
        BY DEF each
      <4> QED BY <2>1, <2>2, <4>1
    <3> QED BY <2>2, <3>2, SeqDef, LenProperties
  <2> HIDE DEF each
  <2>4. /\ subs \in Seq(S)
        /\ \A e : e \in ToSet(subs) <=> \E i \in 1..Len(each) : e \in ToSet(each[i])
    BY <2>3, FlattenElements
  <2> HIDE DEF subs
  <2> QED BY <2>1, <2>2, <2>3, <2>4
<1> DEFINE a == own \o storage
           b == a \o default
           c == b \o status
           d == c \o scale
           e == d \o subs
<1>7. AddToSchemeSteps(o) = e
  BY DEF AddToSchemeSteps
<1> HIDE DEF own, storage, default, status, scale, subs
<1>8. Good(a) /\ ToSet(a) = ToSet(own) \cup ToSet(storage)
  <2>1. a \in Seq(S) /\ ToSet(a) = ToSet(own) \cup ToSet(storage)
    BY <1>1, <1>2, ConcatElements
  <2> QED BY <1>1, <1>2, <2>1
<1> HIDE DEF a
<1>9. Good(b) /\ ToSet(b) = ToSet(a) \cup ToSet(default)
  <2>1. b \in Seq(S) /\ ToSet(b) = ToSet(a) \cup ToSet(default)
    BY <1>3, <1>8, ConcatElements
  <2> QED BY <1>3, <1>8, <2>1
<1> HIDE DEF b
<1>10. Good(c) /\ ToSet(c) = ToSet(b) \cup ToSet(status)
  <2>1. c \in Seq(S) /\ ToSet(c) = ToSet(b) \cup ToSet(status)
    BY <1>4, <1>9, ConcatElements
  <2> QED BY <1>4, <1>9, <2>1
<1> HIDE DEF c
<1>11. Good(d) /\ ToSet(d) = ToSet(c) \cup ToSet(scale)
  <2>1. d \in Seq(S) /\ ToSet(d) = ToSet(c) \cup ToSet(scale)
    BY <1>5, <1>10, ConcatElements
  <2> QED BY <1>5, <1>10, <2>1
<1> HIDE DEF d
<1>12. Good(e) /\ ToSet(e) = ToSet(d) \cup ToSet(subs)
  <2>1. e \in Seq(S) /\ ToSet(e) = ToSet(d) \cup ToSet(subs)
    BY <1>6, <1>11, ConcatElements
  <2> QED BY <1>6, <1>11, <2>1
<1> HIDE DEF e
<1>13. ASSUME NEW k \in Documented(o)
       PROVE  \E x \in ToSet(e) : x.do = "AddKnownTypes" /\ Pair(x) = k
  <2>0. \A g, t : /\ Known(g, t).do = "AddKnownTypes"
                  /\ Pair(Known(g, t)) = [gv |-> g, type |-> t]
    BY DEF Known, Call, Pair
  <2>1. \/ \E t \in OwnTypes(o) : k = [gv |-> gv, type |-> t]
        \/ o.isStorageVersion /\ k = [gv |-> Internal(o.group), type |-> o.type]
        \/ o.scale /\ k = [gv |-> AutoscalingV1, type |-> ScaleType]
    BY DEF Documented
  <2>2. ASSUME NEW t \in OwnTypes(o), k = [gv |-> gv, type |-> t]
        PROVE  \E x \in ToSet(e) : x.do = "AddKnownTypes" /\ Pair(x) = k
    <3>1. Known(gv, t) \in ToSet(e)
      <4> HIDE DEF gv
      <4>1. \/ t = o.type
            \/ t = o.status /\ t # NoType
            \/ \E i \in DOMAIN o.subs : t = o.subs[i].type \/ (t = o.subs[i].options /\ t # NoType)
        BY <2>2, OwnTypesLemma
      <4>2. CASE t = o.type
        BY <1>1, <1>8, <1>9, <1>10, <1>11, <1>12, <4>2
      <4>3. CASE t = o.status /\ t # NoType
        BY <1>4, <1>10, <1>11, <1>12, <4>3
      <4>4. CASE t # o.type /\ \E i \in DOMAIN o.subs : t = o.subs[i].type
        BY <1>6, <1>12, <4>4
      <4>5. CASE \E i \in DOMAIN o.subs : t = o.subs[i].options /\ t # NoType
        BY <1>6, <1>12, <4>5
      <4> QED BY <4>1, <4>2, <4>3, <4>4, <4>5
    <3> QED BY <2>0, <2>2, <3>1
  <2>3. CASE o.isStorageVersion /\ k = [gv |-> Internal(o.group), type |-> o.type]
    <3>1. Known(Internal(o.group), o.type) \in ToSet(e)
      BY <1>2, <1>8, <1>9, <1>10, <1>11, <1>12, <2>3
    <3> QED BY <2>0, <2>3, <3>1
  <2>4. CASE o.scale /\ k = [gv |-> AutoscalingV1, type |-> ScaleType]
    <3>1. Known(AutoscalingV1, ScaleType) \in ToSet(e)
      BY <1>5, <1>11, <1>12, <2>4
    <3> QED BY <2>0, <2>4, <3>1
  <2> QED BY <2>1, <2>2, <2>3, <2>4
<1> QED BY <1>7, <1>12, <1>13

(* What is added to a scheme by the calls of is.                             *)
LEMMA AddedElements ==
  ASSUME NEW o \in Objects, NEW do, NEW is, is \subseteq DOMAIN AddToSchemeSteps(o), NEW k
  PROVE  /\ k \in Added(AddToSchemeSteps(o), do, is) =>
              \E c \in ToSet(AddToSchemeSteps(o)) : c.do = do /\ Pair(c) = k
         /\ (\E c \in ToSet(AddToSchemeSteps(o)) : c.do = do /\ Pair(c) = k)
              /\ is = DOMAIN AddToSchemeSteps(o) => k \in Added(AddToSchemeSteps(o), do, is)
<1> DEFINE q == AddToSchemeSteps(o)
<1>1. ASSUME k \in Added(q, do, is)
      PROVE  \E c \in ToSet(q) : c.do = do /\ Pair(c) = k
  <2>1. PICK i \in is : q[i].do = do /\ k = [gv |-> q[i].gv, type |-> q[i].type]
    BY <1>1 DEF Added
  <2>2. q[i] \in ToSet(q)
    BY DEF ToSet
  <2> QED BY <2>1, <2>2 DEF Pair
<1>2. ASSUME NEW c \in ToSet(q), c.do = do, Pair(c) = k, is = DOMAIN q
      PROVE  k \in Added(q, do, is)
  <2>1. PICK i \in DOMAIN q : c = q[i]
    BY DEF ToSet
  <2> QED BY <1>2, <2>1 DEF Added, Pair
<1> QED BY <1>1, <1>2

(* AddToScheme adds what the object documents, all of it unless it fails; and*)
(* if it does, for a conversion or a conflict with a type that is there or   *)
(* that the object adds itself.                                              *)
LEMMA AddToSchemeLemma ==
  ASSUME NEW x, IsScheme(x), NEW o \in Objects
  PROVE  LET r == AddToScheme(x, o)
         IN  /\ IsScheme(r.scheme)
             /\ r.scheme.versionPriority = x.versionPriority
             /\ x.known \subseteq r.scheme.known
             /\ r.scheme.known \subseteq x.known \cup Documented(o)
             /\ r.ok => r.scheme.known = x.known \cup Documented(o)
             /\ \A k \in r.scheme.params : k \in x.params \/
                  (k \in Documented(o) /\ k.gv = GV(GVR(o)) /\ k.type \in OwnTypes(o))
             /\ \A gv \in r.scheme.observed : gv \in x.observed \/
                  \E k \in r.scheme.known : gv = k.gv /\ gv.version # APIVersionInternal
             /\ x.observed \subseteq r.scheme.observed
             /\ \A k \in r.scheme.known : k \in x.known \/ k.gv \in r.scheme.observed
                                            \/ k.gv.version = APIVersionInternal
             /\ r.scheme.defaulters \subseteq x.defaulters \cup {o.type}
             /\ ~r.ok => \/ CannotConvert(o)
                         \/ \E k \in Documented(o) :
                              Conflict(x.known \cup x.params \cup Documented(o), k.gv, k.type)
<1> DEFINE q == AddToSchemeSteps(o)
           bad == {i \in DOMAIN q : Outcome(x, q, i) # "ok"}
           ran == {i \in DOMAIN q : \A j \in bad : i < j}
           new == Added(q, "AddKnownTypes", ran)
           params == Added(q, "AddParameterTypes", ran)
           defs == Added(q, "AddTypeDefaultingFunc", ran)
           r == AddToScheme(x, o)
<1>1. /\ q \in Seq(Steps(o)) /\ \A c \in ToSet(q) : StepOK(o, c)
      /\ \A k \in Documented(o) : \E c \in ToSet(q) : c.do = "AddKnownTypes" /\ Pair(c) = k
  BY AllSteps
<1>2. SchemeSteps[o] = q
  BY DEF SchemeSteps
<1>3. /\ r.ok <=> bad = {}
      /\ IsScheme(r.scheme)
      /\ r.scheme.versionPriority = x.versionPriority
      /\ r.scheme.known = x.known \cup new
      /\ r.scheme.observed = x.observed \cup {k.gv : k \in {n \in new : n.gv.version # APIVersionInternal}}
      /\ r.scheme.defaulters = x.defaulters \cup {k.type : k \in defs}
      /\ r.scheme.params = x.params \cup params
  <2> HIDE DEF q
  <2> QED BY <1>2 DEF AddToScheme, IsScheme
<1> HIDE DEF r
<1>4. ran \subseteq DOMAIN q
  OBVIOUS
<1> HIDE DEF ran
<1>5. ASSUME NEW k \in new PROVE k \in Documented(o)
  <2>1. PICK c \in ToSet(q) : c.do = "AddKnownTypes" /\ Pair(c) = k
    BY <1>4, AddedElements
  <2>2. StepOK(o, c)
    BY <1>1
  <2> QED BY <2>1, <2>2 DEF StepOK
<1>6. ASSUME NEW k \in params
      PROVE  k \in Documented(o) /\ k.gv = GV(GVR(o)) /\ k.type \in OwnTypes(o)
  <2>1. PICK c \in ToSet(q) : c.do = "AddParameterTypes" /\ Pair(c) = k
    BY <1>4, AddedElements
  <2>2. StepOK(o, c)
    BY <1>1
  <2>3. k.gv = c.gv /\ k.type = c.type
    BY <2>1 DEF Pair
  <2> QED BY <2>1, <2>2, <2>3 DEF StepOK
<1>7. ASSUME NEW k \in defs PROVE k.type = o.type
  <2>1. PICK c \in ToSet(q) : c.do = "AddTypeDefaultingFunc" /\ Pair(c) = k
    BY <1>4, AddedElements
  <2>2. StepOK(o, c)
    BY <1>1
  <2>3. k.type = c.type
    BY <2>1 DEF Pair
  <2> QED BY <2>1, <2>2, <2>3 DEF StepOK
<1>8. r.ok => Documented(o) \subseteq new
  <2>1. r.ok => ran = DOMAIN q
    BY <1>3 DEF ran
  <2> QED BY <1>1, <1>4, <2>1, AddedElements
<1>9. ASSUME ~r.ok
      PROVE  \/ CannotConvert(o)
             \/ \E k \in Documented(o) :
                  Conflict(x.known \cup x.params \cup Documented(o), k.gv, k.type)
  <2>1. PICK i \in DOMAIN q : Outcome(x, q, i) # "ok"
    BY <1>3, <1>9
  <2> DEFINE c == q[i]
             types == IF c.do = "AddParameterTypes" THEN x.params ELSE x.known
             before == Added(q, c.do, 1..(i-1))
  <2>2. c \in ToSet(q) /\ StepOK(o, c) /\ c.do \in Dos
    <3> HIDE DEF q
    <3>1. c \in ToSet(q) /\ c \in Steps(o)
      BY <1>1, SeqElements DEF ToSet
    <3>2. \A e \in Steps(o) : e.do \in Dos
      BY DEF Steps
    <3> QED BY <1>1, <3>1, <3>2
  <2>3. \/ c.do = "return err"
        \/ /\ c.do \in {"AddKnownTypes", "AddParameterTypes"}
           /\ Conflict(types \cup before, c.gv, c.type)
    <3> HIDE DEF q
    <3> QED BY <2>1, <2>2 DEF Outcome, Dos
  <2>4. CASE c.do = "return err"
    BY <2>2, <2>4 DEF StepOK
  <2>5. CASE /\ c.do \in {"AddKnownTypes", "AddParameterTypes"}
             /\ Conflict(types \cup before, c.gv, c.type)
    <3>1. 1..(i-1) \subseteq DOMAIN q
      BY <1>1, LenProperties
    <3>2. ASSUME NEW k \in before PROVE k \in Documented(o)
      <4> DEFINE do == c.do
                 is == 1..(i-1)
      <4>0. k \in Added(q, do, is) /\ is \subseteq DOMAIN q
        BY <3>1, <3>2
      <4>1. PICK e \in ToSet(q) : e.do = do /\ Pair(e) = k
        <5> HIDE DEF do, is
        <5> QED BY <4>0, AddedElements
      <4>2. StepOK(o, e)
        BY <1>1
      <4> QED BY <2>5, <4>1, <4>2 DEF StepOK
    <3>3. types \cup before \subseteq x.known \cup x.params \cup Documented(o)
      <4> HIDE DEF before
      <4> QED BY <3>2
    <3> HIDE DEF before, types
    <3>4. Conflict(x.known \cup x.params \cup Documented(o), c.gv, c.type)
      BY <2>5, <3>3 DEF Conflict
    <3>5. Pair(c) \in Documented(o) /\ Pair(c).gv = c.gv /\ Pair(c).type = c.type
      BY <2>2, <2>5 DEF StepOK, Pair
    <3> QED BY <3>4, <3>5
  <2> QED BY <2>3, <2>4, <2>5
<1> HIDE DEF new, params, defs, bad
<1>10. \A gv \in r.scheme.observed : gv \in x.observed \/
         \E k \in r.scheme.known : gv = k.gv /\ gv.version # APIVersionInternal
  BY <1>3
<1>11. \A k \in r.scheme.known : k \in x.known \/ k.gv \in r.scheme.observed
                                   \/ k.gv.version = APIVersionInternal
  BY <1>3
<1> QED BY <1>3, <1>5, <1>6, <1>7, <1>8, <1>9, <1>10, <1>11 DEF r

-----------------------------------------------------------------------------
(* The priorities at first: there are none.                                  *)
LEMMA BuildInitInv == BuildInit => BInv
<1> SUFFICES ASSUME BuildInit PROVE BInv
  OBVIOUS
<1>1. vp = EmptyMap /\ DOMAIN vp = {} /\ IsScheme(Scheme)
  BY DEF BuildInit, EmptyScheme, EmptyMap, IsScheme, vp
<1>2. APIs = EmptyMap /\ IsFiniteSet(DOMAIN APIs)
  BY FS_EmptySet DEF BuildInit, RegInit, EmptyMap
<1>3. Shapes
  <2>1. \A S : << >> \in Seq(S)
    OBVIOUS
  <2>2. active = NoServer /\ FlagsFns = << >>
    BY DEF BuildInit
  <2>3. \E S : FlagsFns \in Seq(S)
    BY <2>1, <2>2
  <2> QED BY <1>1, <1>2, <2>1, <2>2, <2>3 DEF BuildInit, RegInit, Shapes
<1>4. PriorityOK
  <2>1. \A s \in Servers : orderedGroupVersions[s] = << >>
    BY DEF BuildInit, RegInit
  <2>2. Len(<< >>) = 0 /\ 1..0 = {}
    OBVIOUS
  <2> QED BY <1>1, <2>1, <2>2 DEF PriorityOK
<1>5. BuildOK
  BY BuilderAssumption DEF BuildInit, BuildOK, Building
<1>6. CmdOK
  <2>1. \A s \in Servers : cmd[s].versions = << >>
    BY DEF BuildInit, NoCmd
  <2>2. Len(<< >>) = 0 /\ 1..0 = {} /\ << >> \in Seq(GVs)
    OBVIOUS
  <2> QED BY <2>1, <2>2 DEF CmdOK
<1> QED BY <1>3, <1>4, <1>5, <1>6 DEF BInv

(* A registration adds a key to APIs, and to a version list at most that one.*)
LEMMA RegisterStep ==
  ASSUME BInv, NEW s \in Servers, NEW o \in Objects, NEW sp \in Providers, Register(s, o, sp)
  PROVE  BInv' /\ Kept
<1>1. /\ active = NoServer /\ DOMAIN APIs' = DOMAIN APIs \cup {GVR(o)}
      /\ UNCHANGED buildVars
  BY DEF Register, Idle, WithResourceAndHandler, forGroupVersionResource, Put
<1>2. GV(GVR(o)) \in GVs /\ AddToSchemeFn(o) \in SchemeFns
  BY DEF GVs, GVRs, SchemeFns
<1>3. /\ groupVersions' = [groupVersions EXCEPT ![s] = @ \cup {GV(GVR(o))}]
      /\ \/ orderedGroupVersions' = orderedGroupVersions
         \/ /\ GVR(o).version # APIVersionInternal
            /\ orderedGroupVersions' = [orderedGroupVersions EXCEPT ![s] = Append(@, GV(GVR(o)))]
      /\ schemeBuilder' = [schemeBuilder EXCEPT ![s] = Append(@, AddToSchemeFn(o))]
  BY DEF Register, WithResourceAndHandler, forGroupVersionResource, withGroupVersions, GV
<1>4. Shapes'
  <2>1. IsFiniteSet(DOMAIN APIs')
    <3>1. IsFiniteSet(DOMAIN APIs)
      BY DEF BInv, Shapes
    <3>2. IsFiniteSet(DOMAIN APIs \cup {GVR(o)})
      BY <3>1, FS_AddElement
    <3> QED BY <1>1, <3>2
  <2>2. schemeBuilder' \in [Servers -> Seq(SchemeFns)]
    BY <1>2, <1>3 DEF BInv, Shapes
  <2>3. orderedGroupVersions' \in [Servers -> Seq(GVs)]
    <3>1. orderedGroupVersions \in [Servers -> Seq(GVs)]
      BY DEF BInv, Shapes
    <3>2. Append(orderedGroupVersions[s], GV(GVR(o))) \in Seq(GVs)
      BY <1>2, <3>1, AppendProperties
    <3> QED BY <1>3, <3>1, <3>2
  <2> QED BY <1>1, <1>3, <2>1, <2>2, <2>3 DEF BInv, Shapes, buildVars
<1>5. PriorityOK'
  <2>1. /\ \A g : External(g) \subseteq External(g)'
        /\ Groups(DOMAIN APIs) \subseteq Groups(DOMAIN APIs')
    BY <1>1 DEF External, ExternalVersions, Groups
  <2>2. \A g \in DOMAIN vp' :
          g \in Groups(DOMAIN APIs') /\ vp'[g] \in Seq(External(g)') /\ IsInjective(vp'[g])
    BY <1>1, <2>1, SeqSubset DEF BInv, PriorityOK, vp, buildVars
  <2>3. ASSUME NEW t \in Servers, NEW i \in 1..Len(orderedGroupVersions'[t])
        PROVE  \E r \in DOMAIN APIs' :
                 GV(r) = orderedGroupVersions'[t][i] /\ r.version # APIVersionInternal
    <3> DEFINE q == orderedGroupVersions[t]
    <3>4. q \in Seq(GVs)
      BY DEF BInv, Shapes
    <3>5. orderedGroupVersions'[t] \in {q, Append(q, GV(GVR(o)))}
      BY <1>3 DEF BInv, Shapes
    <3>6. orderedGroupVersions'[t] # q => GVR(o).version # APIVersionInternal
      BY <1>3
    <3>7. \/ i \in 1..Len(q) /\ orderedGroupVersions'[t][i] = q[i]
          \/ /\ orderedGroupVersions'[t][i] = GV(GVR(o))
             /\ GVR(o).version # APIVersionInternal
      <4>1. CASE orderedGroupVersions'[t] = q
        BY <2>3, <4>1
      <4>2. CASE orderedGroupVersions'[t] # q
        <5>1. i \in 1..(Len(q) + 1) /\ Len(q) \in Nat
          BY <1>2, <2>3, <3>4, <3>5, <4>2, AppendProperties
        <5> QED BY <1>2, <3>4, <3>5, <3>6, <4>2, <5>1, AppendProperties
      <4> QED BY <4>1, <4>2
    <3>1. CASE i \in 1..Len(orderedGroupVersions[t]) /\ orderedGroupVersions'[t][i] = orderedGroupVersions[t][i]
      BY <1>1, <3>1 DEF BInv, PriorityOK
    <3>2. CASE /\ orderedGroupVersions'[t][i] = GV(GVR(o))
               /\ GVR(o).version # APIVersionInternal
      BY <1>1, <3>2
    <3> QED BY <3>1, <3>2, <3>7
  <2> QED BY <2>2, <2>3 DEF PriorityOK
<1>6. BuildOK'
  BY <1>1, BuilderAssumption DEF BuildOK, Building, buildVars
<1>7. CmdOK' /\ Kept
  BY <1>1 DEF BInv, CmdOK, HasPriority, vp, buildVars, Kept
<1> QED BY <1>4, <1>5, <1>6, <1>7 DEF BInv

(* The steps that change neither APIs nor the scheme nor a command.          *)
LEMMA ConfigureStep ==
  ASSUME BInv,
         \/ \E s \in Servers, path \in EtcdPaths : WithEtcdPath(s, path)
         \/ \E f \in FlagFns : WithFlagFns(f)
         \/ UNCHANGED bvars
  PROVE  BInv' /\ Kept
<1>1. /\ UNCHANGED <<regVars, Scheme, Schemes, EtcdPath, phase, active, cursor, cmd, panicked>>
      /\ DOMAIN serverEtcdPath' = DOMAIN serverEtcdPath
      /\ active = NoServer \/ UNCHANGED serverEtcdPath
  BY DEF WithEtcdPath, WithFlagFns, bvars, buildVars, Idle
<1>2. (\E S : FlagsFns \in Seq(S))'
  <2>1. PICK S : FlagsFns \in Seq(S)
    BY DEF BInv, Shapes
  <2>2. CASE UNCHANGED FlagsFns
    BY <2>1, <2>2
  <2>3. CASE \E f \in FlagFns : WithFlagFns(f)
    <3>1. PICK f \in FlagFns : FlagsFns' = Append(FlagsFns, f)
      BY <2>3 DEF WithFlagFns
    <3>2. FlagsFns \in Seq(S \cup {f})
      BY <2>1, SeqSubset
    <3>3. FlagsFns' \in Seq(S \cup {f})
      BY <3>1, <3>2
    <3> QED BY <3>3
  <2> QED BY <2>2, <2>3 DEF WithEtcdPath, bvars, buildVars
<1>3. Shapes' /\ PriorityOK' /\ CmdOK' /\ Kept
  BY <1>1, <1>2 DEF BInv, Shapes, PriorityOK, CmdOK, HasPriority, External, vp, regVars, Kept
<1>4. BuildOK'
  BY <1>1, BuilderAssumption DEF BInv, BuildOK, Building, HasPriority, vp, regVars
<1> QED BY <1>3, <1>4 DEF BInv

(* A Build that begins.                                                      *)
LEMMA BuildStepInv ==
  ASSUME BInv, NEW s \in Servers, Build(s)
  PROVE  BInv' /\ Kept
<1>1. /\ UNCHANGED <<APIs, groupVersions, orderedGroupVersions, Scheme, serverEtcdPath, FlagsFns, cmd>>
      /\ EtcdPath' = serverEtcdPath[s] /\ active' = s
      /\ Schemes' = [Schemes EXCEPT ![s] = @ + 1]
      /\ schemeBuilder' = [schemeBuilder EXCEPT ![s] = Append(@, SetVersionPriorityFn)]
      /\ DOMAIN phase' = DOMAIN phase /\ cursor' = [scheme |-> 1, fn |-> 1]
  BY DEF Build, BuildEtcdPath
<1>2. Shapes'
  <2>1. SetVersionPriorityFn \in SchemeFns
    BY DEF SchemeFns
  <2>2. schemeBuilder' \in [Servers -> Seq(SchemeFns)] /\ Schemes' \in [Servers -> Nat]
    BY <1>1, <2>1 DEF BInv, Shapes
  <2> QED BY <1>1, <2>2 DEF BInv, Shapes
<1>3. PriorityOK' /\ CmdOK' /\ Kept
  <2>1. PriorityOK'
    BY <1>1 DEF BInv, PriorityOK, External, vp
  <2>2. CmdOK'
    BY <1>1 DEF BInv, CmdOK, HasPriority, vp
  <2>3. Kept
    BY <1>1 DEF Kept, vp
  <2> QED BY <2>1, <2>2, <2>3
<1>4. BuildOK'
  <2>1. /\ schemeBuilder[s] \in Seq(SchemeFns)
        /\ schemeBuilder'[s] = Append(schemeBuilder[s], SetVersionPriorityFn)
    BY <1>1 DEF BInv, Shapes
  <2>2. /\ Len(schemeBuilder'[s]) >= 1
        /\ schemeBuilder'[s][Len(schemeBuilder'[s])] = SetVersionPriorityFn
    BY <2>1
  <2>3. Schemes'[s] >= 1 /\ Len(schemeBuilder'[s]) \in Nat
    BY <1>1, <2>1 DEF BInv, Shapes
  <2>4. 1 \in 1..Len(schemeBuilder'[s])
    BY <2>2, <2>3
  <2> QED BY <1>1, <2>2, <2>3, <2>4 DEF BuildOK, Building
<1> QED BY <1>2, <1>3, <1>4 DEF BInv

(* The next scheme function, if this one has not panicked.  The last one of  *)
(* the list is the only one after which the next copy of the scheme is begun.*)
LEMMA CursorLemma ==
  ASSUME BInv, NEW s \in Servers, AddingToScheme(s), AdvanceCursor(s)
  PROVE  /\ cursor' \in [scheme : Nat, fn : Nat]
         /\ cursor'.scheme >= 1 /\ cursor'.fn \in 1..Len(schemeBuilder[s])
         /\ cursor'.scheme > 1 => cursor.scheme > 1 \/ CurrentFn(s) = SetVersionPriorityFn
<1>1. /\ cursor \in [scheme : Nat, fn : Nat] /\ cursor.scheme >= 1
      /\ cursor.fn \in 1..Len(schemeBuilder[s])
      /\ Len(schemeBuilder[s]) \in Nat
      /\ schemeBuilder[s][Len(schemeBuilder[s])] = SetVersionPriorityFn
  BY DEF BInv, Shapes, BuildOK, Building, AddingToScheme
<1>2. CASE cursor.fn < Len(schemeBuilder[s])
  BY <1>1, <1>2 DEF AdvanceCursor
<1>3. CASE ~(cursor.fn < Len(schemeBuilder[s]))
  <2>1. cursor.fn = Len(schemeBuilder[s])
    BY <1>1, <1>3
  <2> QED BY <1>1, <1>3, <2>1 DEF AdvanceCursor, CurrentFn
<1> QED BY <1>2, <1>3

(* The object of the current scheme function. *)
LEMMA CurrentObject ==
  ASSUME BInv, NEW s \in Servers, AddingToScheme(s), CurrentFn(s).fn = "AddToScheme"
  PROVE  CurrentFn(s).obj \in Objects /\ CurrentFn(s) = AddToSchemeFn(CurrentFn(s).obj)
<1>1. schemeBuilder[s] \in Seq(SchemeFns) /\ cursor.fn \in 1..Len(schemeBuilder[s])
  BY DEF BInv, Shapes, BuildOK, Building, AddingToScheme
<1>2. CurrentFn(s) \in SchemeFns
  BY <1>1 DEF CurrentFn
<1> QED BY <1>2 DEF SchemeFns, AddToSchemeFn, SetVersionPriorityFn

(* The scheme function of an object touches no priority.                     *)
LEMMA AddStep ==
  ASSUME BInv, NEW s \in Servers, RunAddToScheme(s)
  PROVE  BInv' /\ Kept /\ Scheme.known \subseteq Scheme'.known
<1>1. /\ AddingToScheme(s) /\ AdvanceCursor(s) /\ CurrentFn(s).fn = "AddToScheme"
      /\ UNCHANGED <<Schemes, EtcdPath, serverEtcdPath, FlagsFns, phase, active, cmd, regVars>>
      /\ active = s /\ ~panicked /\ phase[s] = "building"
      /\ Scheme' = AddToScheme(Scheme, CurrentFn(s).obj).scheme
  BY DEF RunAddToScheme, AddingToScheme
<1>2. IsScheme(Scheme') /\ Scheme.known \subseteq Scheme'.known /\ vp' = vp
  <2>1. IsScheme(Scheme) /\ CurrentFn(s).obj \in Objects
    BY <1>1, CurrentObject DEF BInv, Shapes
  <2> QED BY <1>1, <2>1, AddToSchemeLemma DEF vp
<1>3. /\ cursor' \in [scheme : Nat, fn : Nat]
      /\ cursor'.scheme >= 1 /\ cursor'.fn \in 1..Len(schemeBuilder[s])
      /\ cursor'.scheme > 1 => cursor.scheme > 1
  BY <1>1, CursorLemma DEF SetVersionPriorityFn
<1>4. Shapes' /\ CmdOK' /\ Kept
  BY <1>1, <1>2, <1>3 DEF BInv, Shapes, CmdOK, HasPriority, regVars, Kept
<1>6. PriorityOK'
  BY <1>1, <1>2 DEF BInv, PriorityOK, External, regVars
<1>5. BuildOK'
  BY <1>1, <1>2, <1>3 DEF BInv, BuildOK, Building, HasPriority, regVars
<1> QED BY <1>2, <1>4, <1>5, <1>6 DEF BInv

(* The priority function gives every group of APIs its versions.             *)
LEMMA PriorityStep ==
  ASSUME BInv, NEW s \in Servers, RunSetVersionPriority(s)
  PROVE  BInv' /\ Kept /\ Scheme.known \subseteq Scheme'.known
<1>1. /\ AddingToScheme(s) /\ AdvanceCursor(s)
      /\ UNCHANGED <<Schemes, EtcdPath, serverEtcdPath, FlagsFns, phase, active, cmd, regVars>>
      /\ active = s /\ ~panicked /\ phase[s] = "building"
  BY DEF RunSetVersionPriority, AddingToScheme
<1>2. /\ cursor' \in [scheme : Nat, fn : Nat]
      /\ cursor'.scheme >= 1 /\ cursor'.fn \in 1..Len(schemeBuilder[s])
  BY <1>1, CursorLemma
<1>3. CASE panicked'
  <2>1. \/ UNCHANGED Scheme
        \/ panicked' = panicked
    BY DEF RunSetVersionPriority
  <2>2. UNCHANGED Scheme
    BY <1>1, <1>3, <2>1
  <2>3. Shapes' /\ PriorityOK' /\ CmdOK' /\ Kept
    BY <1>1, <1>2, <2>2 DEF BInv, Shapes, PriorityOK, CmdOK, HasPriority, External, vp, regVars, Kept
  <2>4. BuildOK'
    BY <1>1, <1>2, <1>3 DEF BInv, BuildOK, Building, regVars
  <2> QED BY <2>2, <2>3, <2>4 DEF BInv
<1>4. CASE ~panicked'
  <2>1. PICK p \in Priorities(DOMAIN APIs) :
          Scheme' = [Prioritize(Scheme, p) EXCEPT !.observed = @ \cup ToSet(orderedGroupVersions[s])]
    BY <1>4 DEF RunSetVersionPriority, BuildPriorities
  <2>2. /\ IsScheme(Scheme') /\ Scheme'.known = Scheme.known
        /\ vp' = [g \in DOMAIN vp \cup DOMAIN p |-> IF g \in DOMAIN p THEN p[g] ELSE vp[g]]
    <3>1. IsScheme(Scheme)
      BY DEF BInv, Shapes
    <3> DEFINE new == ToSet(orderedGroupVersions[s])
               r == [Prioritize(Scheme, p) EXCEPT !.observed = @ \cup new]
    <3>2. /\ IsScheme(r) /\ r.known = Scheme.known
          /\ r.versionPriority = [g \in DOMAIN vp \cup DOMAIN p |-> IF g \in DOMAIN p THEN p[g] ELSE vp[g]]
      BY <3>1 DEF Prioritize, IsScheme, vp
    <3>3. Scheme' = r
      BY <2>1
    <3> QED BY <3>2, <3>3, Zenon DEF vp
  <2>3. /\ DOMAIN p = Groups(DOMAIN APIs)
        /\ \A g \in Groups(DOMAIN APIs) :
             /\ p[g] \in Seq(External(g)) /\ IsInjective(p[g]) /\ ToSet(p[g]) = External(g)
    BY OrdersLemma DEF BInv, Shapes, External
  <2>4. Kept
    <3> SUFFICES ASSUME NEW g \in DOMAIN vp
                 PROVE  g \in DOMAIN vp' /\ ToSet(vp[g]) \subseteq ToSet(vp'[g])
      BY DEF Kept
    <3>1. ToSet(vp[g]) \subseteq External(g)
      BY SeqElements DEF BInv, PriorityOK
    <3> QED BY <2>2, <2>3, <3>1
  <2>5. Shapes'
    BY <1>1, <1>2, <2>2 DEF BInv, Shapes, regVars
  <2>6. PriorityOK'
    BY <1>1, <2>2, <2>3 DEF BInv, PriorityOK, External, regVars
  <2>7. CmdOK'
    <3>1. \A gv : HasPriority(gv) => HasPriority(gv)'
      BY <2>4 DEF HasPriority, Kept
    <3> QED BY <1>1, <3>1 DEF BInv, CmdOK
  <2>8. BuildOK'
    <3>1. ASSUME NEW r \in DOMAIN APIs, r.version # APIVersionInternal
          PROVE  HasPriority(GV(r))'
      <4>1. r.group \in Groups(DOMAIN APIs)
        BY DEF Groups
      <4>2. r.version \in External(r.group)
        BY <3>1 DEF External, ExternalVersions
      <4> QED BY <2>2, <2>3, <4>1, <4>2 DEF HasPriority, GV
    <3> QED BY <1>1, <1>2, <3>1 DEF BInv, BuildOK, Building, regVars
  <2> QED BY <2>2, <2>4, <2>5, <2>6, <2>7, <2>8 DEF BInv
<1> QED BY <1>3, <1>4

(* A command is made of versions that have priorities by then.               *)
LEMMA FinishStep ==
  ASSUME BInv, NEW s \in Servers, FinishBuild(s)
  PROVE  BInv' /\ Kept
<1>1. /\ UNCHANGED <<Scheme, Schemes, EtcdPath, serverEtcdPath, FlagsFns, cursor, regVars>>
      /\ active = s /\ ~panicked /\ cursor.scheme > Schemes[s] /\ phase[s] = "building"
      /\ active' = NoServer /\ DOMAIN phase' = DOMAIN phase
      /\ cmd' = [cmd EXCEPT ![s] = [etcdPath |-> EtcdPath, versions |-> orderedGroupVersions[s],
                                    flags |-> OwnFlags]]
  BY DEF FinishBuild, OwnFlags
<1>2. Shapes' /\ PriorityOK' /\ Kept
  BY <1>1 DEF BInv, Shapes, PriorityOK, External, vp, regVars, Kept
<1>3. BuildOK'
  BY <1>1, BuilderAssumption DEF BuildOK, Building
<1>4. CmdOK'
  <2>1. cursor.scheme > 1
    BY <1>1 DEF BInv, Shapes, BuildOK, Building
  <2>2. \A r \in DOMAIN APIs : r.version # APIVersionInternal => HasPriority(GV(r))
    BY <1>1, <2>1 DEF BInv, BuildOK, Building
  <2>3. \A i \in 1..Len(orderedGroupVersions[s]) : HasPriority(orderedGroupVersions[s][i])
    BY <2>2 DEF BInv, PriorityOK
  <2>4. orderedGroupVersions[s] \in Seq(GVs)
    BY DEF BInv, Shapes
  <2>5. \A gv : HasPriority(gv)' <=> HasPriority(gv)
    BY <1>1 DEF HasPriority, vp
  <2>6. cmd'[s].versions = orderedGroupVersions[s]
    BY <1>1 DEF BInv, Shapes
  <2>7. \A t \in Servers : t # s => cmd'[t] = cmd[t]
    BY <1>1 DEF BInv, Shapes
  <2> QED BY <2>3, <2>4, <2>5, <2>6, <2>7 DEF BInv, CmdOK
<1> QED BY <1>2, <1>3, <1>4 DEF BInv

(* Every step of the builder keeps BInv, and takes no priority and no type   *)
(* away.                                                                     *)
LEMMA BuildStepKeeps ==
  BInv /\ [BuildNext]_bvars => BInv' /\ Kept /\ Scheme.known \subseteq Scheme'.known
<1> SUFFICES ASSUME BInv, [BuildNext]_bvars
             PROVE  BInv' /\ Kept /\ Scheme.known \subseteq Scheme'.known
  OBVIOUS
<1>1. ASSUME NEW s \in Servers, NEW o \in Objects, NEW sp \in Providers, Register(s, o, sp)
      PROVE  BInv' /\ Kept /\ UNCHANGED Scheme
  BY <1>1, RegisterStep DEF Register, buildVars
<1>2. ASSUME \/ \E s \in Servers, path \in EtcdPaths : WithEtcdPath(s, path)
             \/ \E f \in FlagFns : WithFlagFns(f)
             \/ UNCHANGED bvars
      PROVE  BInv' /\ Kept /\ UNCHANGED Scheme
  BY <1>2, ConfigureStep DEF WithEtcdPath, WithFlagFns, bvars, buildVars
<1>3. ASSUME NEW s \in Servers, Build(s) PROVE BInv' /\ Kept /\ UNCHANGED Scheme
  BY <1>3, BuildStepInv DEF Build
<1>4. ASSUME NEW s \in Servers, FinishBuild(s) PROVE BInv' /\ Kept /\ UNCHANGED Scheme
  BY <1>4, FinishStep DEF FinishBuild
<1> QED BY <1>1, <1>2, <1>3, <1>4, AddStep, PriorityStep
        DEF BuildNext, Configure, BuildStep

-----------------------------------------------------------------------------
(* The union of KnownOK, element by element. *)
LEMMA KnownPoint ==
  ASSUME NEW K
  PROVE  K = UNION {Documented(o) : o \in UNION {InScheme(s) : s \in Servers}}
           <=> \A k : k \in K <=> \E s \in Servers : \E o \in InScheme(s) : k \in Documented(o)
<1> DEFINE U == UNION {Documented(o) : o \in UNION {InScheme(s) : s \in Servers}}
<1>1. \A k : k \in U <=> \E s \in Servers : \E o \in InScheme(s) : k \in Documented(o)
  OBVIOUS
<1> HIDE DEF U
<1>2. K = U <=> \A k : k \in K <=> k \in U
  OBVIOUS
<1> QED BY <1>1, <1>2 DEF U

(* The same after a step.                                                    *)
LEMMA KnownPointPrime ==
  (Scheme.known = UNION {Documented(o) : o \in UNION {InScheme(s) : s \in Servers}})'
    <=> \A k : k \in Scheme'.known <=>
          \E s \in Servers : \E o \in InScheme(s)' : k \in Documented(o)
<1> DEFINE U == UNION {Documented(o) : o \in UNION {InScheme(s)' : s \in Servers}}
<1>1. \A k : k \in U <=> \E s \in Servers : \E o \in InScheme(s)' : k \in Documented(o)
  OBVIOUS
<1>2. U = (UNION {Documented(o) : o \in UNION {InScheme(s) : s \in Servers}})'
  OBVIOUS
<1> HIDE DEF U
<1>3. Scheme'.known = U <=> \A k : k \in Scheme'.known <=> k \in U
  OBVIOUS
<1> QED BY <1>1, <1>2, <1>3

(* A documented pair is of a version and a type of the program.              *)
LEMMA DocumentedTyped ==
  ASSUME NEW o \in Objects, NEW k \in Documented(o)
  PROVE  k \in [gv : SchemeGVs, type : Types]
<1>1. GV(GVR(o)) \in GVs /\ GV(GVR(o)).group = o.group
  BY DEF GVs, GVRs, GV, GVR
<1>2. GV(GVR(o)) \in SchemeGVs /\ AutoscalingV1 \in SchemeGVs /\ Internal(o.group) \in SchemeGVs
  BY <1>1 DEF SchemeGVs
<1>3. OwnTypes(o) \subseteq Types /\ ScaleType \in Types /\ o.type \in Types
  BY OwnTypesLemma DEF Types
<1> QED BY <1>2, <1>3 DEF Documented

(* Only objects of the program are registered.                               *)
LEMMA RegisteredObjects ==
  ASSUME RegTypeOK
  PROVE  Registered \subseteq Objects
<1>1. \A i \in 1..Len(calls) : calls[i] \in [server : Servers, object : Objects, provider : Providers]
  <2> DEFINE S == [server : Servers, object : Objects, provider : Providers]
  <2>1. calls \in Seq(S)
    BY DEF RegTypeOK
  <2> HIDE DEF S
  <2>2. calls \in [1..Len(calls) -> S]
    BY <2>1, LenProperties
  <2> QED BY <2>2 DEF S
<1> QED BY <1>1 DEF Registered

(* Registrations accumulate. *)
LEMMA RegisteredGrows ==
  ASSUME RegTypeOK, NEW s \in Servers, NEW o \in Objects, NEW sp \in Providers,
         WithResourceAndHandler(s, o, sp)
  PROVE  Registered' = Registered \cup {o}
<1> DEFINE call == [server |-> s, object |-> o, provider |-> sp]
           n == Len(calls) + 1
<1>1. /\ Len(calls) \in Nat /\ Len(calls') = n
      /\ calls'[n] = call
      /\ \A i \in 1..Len(calls) : calls'[i] = calls[i]
  BY AppendElements DEF WithResourceAndHandler, RegTypeOK
<1>2. 1..Len(calls') = (1..Len(calls)) \cup {n}
  BY <1>1
<1> QED BY <1>1, <1>2 DEF Registered

-----------------------------------------------------------------------------
(* The strengthening holds at first.                                         *)
LEMMA SInitInv == BuildInit => SInv
<1> SUFFICES ASSUME BuildInit PROVE SInv
  OBVIOUS
<1>1. RegInv /\ BInv
  BY RegInitInv, BuildInitInv DEF BuildInit
<1>2. /\ \A s \in Servers : schemeBuilder[s] = << >>
      /\ Scheme.known = {} /\ Scheme.params = {} /\ Scheme.observed = {}
  BY DEF BuildInit, RegInit, EmptyScheme
<1>3. Len(<< >>) = 0 /\ 1..0 = {}
  OBVIOUS
<1>4. \A s \in Servers : InScheme(s) = {}
  BY <1>2, <1>3 DEF InScheme
<1>5. KnownOK
  <2>1. UNION {Documented(o) : o \in UNION {InScheme(s) : s \in Servers}} = {}
    BY <1>4
  <2> QED BY <1>2, <2>1 DEF KnownOK
<1>6. FnsOK /\ FromObjects /\ ObservedOK
  BY <1>2, <1>3 DEF FnsOK, FromObjects, ObservedOK
<1> QED BY <1>1, <1>5, <1>6 DEF SInv, KInv

(* A step of the registries keeps RegInv.                                    *)
LEMMA RegisterRegInv ==
  ASSUME RegInv, NEW s \in Servers, NEW o \in Objects, NEW sp \in Providers,
         WithResourceAndHandler(s, o, sp)
  PROVE  RegInv'
<1>1. OrderedIsExternal'
  BY Keys, OrderedStep DEF RegInv, WithResourceAndHandler, forGroupVersionResource
<1> QED BY <1>1, RegTypeStep, BackedStep, FromCallsStep DEF RegInv

(* A step that leaves the registries.                                        *)
LEMMA SameRegInv ==
  ASSUME RegInv, UNCHANGED regVars
  PROVE  RegInv'
<1> USE DEF RegInv, regVars
<1>1. RegTypeOK'
  BY DEF RegTypeOK
<1>2. OrderedIsExternal'
  BY DEF OrderedIsExternal
<1>3. APIsBacked'
  BY DEF APIsBacked
<1>4. FromCalls'
  BY DEF FromCalls
<1> QED BY <1>1, <1>2, <1>3, <1>4

(* A registration puts nothing in the scheme: the function it appends comes  *)
(* after every priority function.                                            *)
LEMMA RegisterKInv ==
  ASSUME SInv, NEW s \in Servers, NEW o \in Objects, NEW sp \in Providers, Register(s, o, sp)
  PROVE  RegInv' /\ KInv'
<1> DEFINE fns == schemeBuilder[s]
<1>1. WithResourceAndHandler(s, o, sp) /\ UNCHANGED buildVars /\ active = NoServer
  BY DEF Register, Idle
<1>2. RegInv'
  BY <1>1, RegisterRegInv DEF SInv
<1>3. /\ fns \in Seq(SchemeFns) /\ AddToSchemeFn(o) \in SchemeFns
      /\ schemeBuilder' = [schemeBuilder EXCEPT ![s] = Append(@, AddToSchemeFn(o))]
      /\ DOMAIN schemeBuilder = Servers
  BY <1>1 DEF SInv, BInv, Shapes, SchemeFns, WithResourceAndHandler
<1>4. /\ schemeBuilder'[s] = Append(fns, AddToSchemeFn(o))
      /\ \A t \in Servers : t # s => schemeBuilder'[t] = schemeBuilder[t]
  BY <1>3
<1>5. /\ Len(fns) \in Nat /\ Len(schemeBuilder'[s]) = Len(fns) + 1
      /\ schemeBuilder'[s][Len(fns) + 1] = AddToSchemeFn(o)
      /\ \A i \in 1..Len(fns) : schemeBuilder'[s][i] = fns[i]
  BY <1>3, <1>4, AppendElements
<1>6. Registered' = Registered \cup {o}
  BY <1>1, RegisteredGrows DEF SInv, RegInv
<1>7. FnsOK'
  <2> SUFFICES ASSUME NEW t \in Servers, NEW i \in 1..Len(schemeBuilder'[t])
               PROVE  \/ schemeBuilder'[t][i] = SetVersionPriorityFn
                      \/ \E x \in Registered' : schemeBuilder'[t][i] = AddToSchemeFn(x)
    BY DEF FnsOK
  <2>1. CASE t = s /\ i = Len(fns) + 1
    BY <1>5, <1>6, <2>1
  <2>2. CASE ~(t = s /\ i = Len(fns) + 1)
    <3>1. i \in 1..Len(schemeBuilder[t]) /\ schemeBuilder'[t][i] = schemeBuilder[t][i]
      <4>1. CASE t = s
        BY <1>5, <2>2, <4>1
      <4>2. CASE t # s
        BY <1>4, <4>2
      <4> QED BY <4>1, <4>2
    <3> QED BY <1>6, <3>1 DEF SInv, KInv, FnsOK
  <2> QED BY <2>1, <2>2
<1>8. \A t \in Servers : ~Building(t) /\ ~Building(t)'
  BY <1>1, BuilderAssumption DEF Building, buildVars
<1>9. \A t \in Servers : InScheme(t)' = InScheme(t)
  <2> SUFFICES ASSUME NEW t \in Servers, NEW x \in Objects
               PROVE  x \in InScheme(t)' <=> x \in InScheme(t)
    BY DEF InScheme
  <2>1. CASE t # s
    BY <1>4, <1>8, <2>1 DEF InScheme
  <2>2. CASE t = s
    <3>1. AddToSchemeFn(o) # SetVersionPriorityFn
      BY DEF AddToSchemeFn, SetVersionPriorityFn
    <3>2. ASSUME x \in InScheme(s) PROVE x \in InScheme(s)'
      <4>1. PICK i, j \in 1..Len(fns) :
              i < j /\ fns[i] = AddToSchemeFn(x) /\ fns[j] = SetVersionPriorityFn
        BY <3>2 DEF InScheme
      <4>2. /\ i \in 1..Len(schemeBuilder'[s]) /\ j \in 1..Len(schemeBuilder'[s])
            /\ schemeBuilder'[s][i] = fns[i] /\ schemeBuilder'[s][j] = fns[j]
        BY <1>5
      <4> QED BY <1>8, <4>1, <4>2 DEF InScheme
    <3>3. ASSUME x \in InScheme(s)' PROVE x \in InScheme(s)
      <4>1. PICK i, j \in 1..Len(schemeBuilder'[s]) :
              i < j /\ schemeBuilder'[s][i] = AddToSchemeFn(x) /\ schemeBuilder'[s][j] = SetVersionPriorityFn
        BY <3>3 DEF InScheme
      <4>2. j # Len(fns) + 1
        BY <1>5, <3>1, <4>1
      <4>3. /\ i \in 1..Len(fns) /\ j \in 1..Len(fns)
            /\ schemeBuilder'[s][i] = fns[i] /\ schemeBuilder'[s][j] = fns[j]
        BY <1>5, <4>1, <4>2
      <4> QED BY <1>8, <4>1, <4>3 DEF InScheme
    <3> QED BY <2>2, <3>2, <3>3
  <2> QED BY <2>1, <2>2
<1>10. KnownOK'
  <2>1. UNCHANGED <<panicked, Scheme>>
    BY <1>1 DEF buildVars
  <2>2. (\A k : k \in Scheme.known <=> \E t \in Servers : \E x \in InScheme(t) : k \in Documented(x))
        => \A k : k \in Scheme'.known <=> \E t \in Servers : \E x \in InScheme(t)' : k \in Documented(x)
    BY <1>9, <2>1
  <2> QED BY <2>1, <2>2, KnownPoint, KnownPointPrime DEF SInv, KInv, KnownOK
<1>11. FromObjects' /\ ObservedOK'
  BY <1>1, <1>6 DEF SInv, KInv, FromObjects, ObservedOK, buildVars
<1> QED BY <1>2, <1>7, <1>10, <1>11 DEF KInv

(* Build appends its priority function and begins with the first function:   *)
(* nothing more is in the scheme.                                            *)
LEMMA BuildKInv ==
  ASSUME SInv, NEW s \in Servers, Build(s)
  PROVE  RegInv' /\ KInv'
<1> DEFINE fns == schemeBuilder[s]
<1>1. /\ UNCHANGED <<APIs, StorageProvider, groupVersions, orderedGroupVersions, calls, Scheme, panicked>>
      /\ active = NoServer /\ active' = s
      /\ cursor' = [scheme |-> 1, fn |-> 1]
      /\ schemeBuilder' = [schemeBuilder EXCEPT ![s] = Append(@, SetVersionPriorityFn)]
  BY DEF Build, Idle
<1>2. /\ fns \in Seq(SchemeFns) /\ SetVersionPriorityFn \in SchemeFns
      /\ DOMAIN schemeBuilder = Servers
      /\ schemeBuilder \in [Servers -> Seq(SchemeFns)]
  BY DEF SInv, BInv, Shapes, SchemeFns
<1>3. /\ schemeBuilder'[s] = Append(fns, SetVersionPriorityFn)
      /\ \A t \in Servers : t # s => schemeBuilder'[t] = schemeBuilder[t]
      /\ schemeBuilder' \in [Servers -> Seq(SchemeFns)]
  BY <1>1, <1>2
<1>4. /\ Len(fns) \in Nat /\ Len(schemeBuilder'[s]) = Len(fns) + 1
      /\ schemeBuilder'[s][Len(fns) + 1] = SetVersionPriorityFn
      /\ \A i \in 1..Len(fns) : schemeBuilder'[s][i] = fns[i]
  BY <1>2, <1>3, AppendElements
<1>5. \A t \in Servers : \A i \in 1..Len(schemeBuilder[t]) :
        i \in 1..Len(schemeBuilder'[t]) /\ schemeBuilder'[t][i] = schemeBuilder[t][i]
  BY <1>3, <1>4
<1>6. RegInv'
  <2>1. RegTypeOK' /\ OrderedIsExternal' /\ FromCalls'
    BY <1>1, <1>3 DEF SInv, RegInv, RegTypeOK, OrderedIsExternal, FromCalls
  <2>2. APIsBacked'
    <3> SUFFICES ASSUME NEW gvr \in DOMAIN APIs
                 PROVE  \E t \in Servers :
                          /\ GV(gvr) \in groupVersions[t]
                          /\ GR(gvr) \in DOMAIN StorageProvider[t]
                          /\ \E i \in 1..Len(schemeBuilder'[t]) :
                               \E o \in Objects : schemeBuilder'[t][i] = AddToSchemeFn(o) /\ GVR(o) = gvr
      BY <1>1 DEF APIsBacked
    <3>1. PICK t \in Servers :
            /\ GV(gvr) \in groupVersions[t]
            /\ GR(gvr) \in DOMAIN StorageProvider[t]
            /\ \E i \in 1..Len(schemeBuilder[t]) :
                 \E o \in Objects : schemeBuilder[t][i] = AddToSchemeFn(o) /\ GVR(o) = gvr
      BY DEF SInv, RegInv, APIsBacked
    <3>2. PICK i \in 1..Len(schemeBuilder[t]) :
            \E o \in Objects : schemeBuilder[t][i] = AddToSchemeFn(o) /\ GVR(o) = gvr
      BY <3>1
    <3>3. i \in 1..Len(schemeBuilder'[t]) /\ schemeBuilder'[t][i] = schemeBuilder[t][i]
      BY <1>5
    <3> QED BY <3>1, <3>2, <3>3
  <2> QED BY <2>1, <2>2 DEF RegInv
<1>7. FnsOK'
  <2>1. Registered' = Registered
    BY <1>1 DEF Registered
  <2> SUFFICES ASSUME NEW t \in Servers, NEW i \in 1..Len(schemeBuilder'[t])
               PROVE  \/ schemeBuilder'[t][i] = SetVersionPriorityFn
                      \/ \E x \in Registered : schemeBuilder'[t][i] = AddToSchemeFn(x)
    BY <2>1 DEF FnsOK
  <2>2. CASE t = s /\ i = Len(fns) + 1
    BY <1>4, <2>2
  <2>3. CASE ~(t = s /\ i = Len(fns) + 1)
    <3>1. i \in 1..Len(schemeBuilder[t]) /\ schemeBuilder'[t][i] = schemeBuilder[t][i]
      BY <1>3, <1>4, <2>3
    <3> QED BY <3>1 DEF SInv, KInv, FnsOK
  <2> QED BY <2>2, <2>3
<1>8. /\ \A t \in Servers : ~Building(t)
      /\ \A t \in Servers : t # s => ~Building(t)'
      /\ Building(s)'
  BY <1>1, BuilderAssumption DEF Building, Build, SInv, BInv, Shapes
<1>9. \A t \in Servers : InScheme(t)' = InScheme(t)
  <2> SUFFICES ASSUME NEW t \in Servers, NEW x \in Objects
               PROVE  x \in InScheme(t)' <=> x \in InScheme(t)
    BY DEF InScheme
  <2>1. CASE t # s
    BY <1>3, <1>8, <2>1 DEF InScheme
  <2>2. CASE t = s
    <3>1. AddToSchemeFn(x) # SetVersionPriorityFn
      BY DEF AddToSchemeFn, SetVersionPriorityFn
    <3>2. ASSUME x \in InScheme(s) PROVE x \in InScheme(s)'
      <4>1. PICK i, j \in 1..Len(fns) :
              i < j /\ fns[i] = AddToSchemeFn(x) /\ fns[j] = SetVersionPriorityFn
        BY <3>2 DEF InScheme
      <4>2. /\ i \in 1..Len(schemeBuilder'[s]) /\ j \in 1..Len(schemeBuilder'[s])
            /\ schemeBuilder'[s][i] = fns[i] /\ schemeBuilder'[s][j] = fns[j]
            /\ j < Len(schemeBuilder'[s])
        BY <1>4
      <4> QED BY <4>1, <4>2 DEF InScheme
    <3>3. ASSUME x \in InScheme(s)' PROVE x \in InScheme(s)
      <4>1. PICK i, j \in 1..Len(schemeBuilder'[s]) :
              /\ i < j /\ schemeBuilder'[s][i] = AddToSchemeFn(x) /\ schemeBuilder'[s][j] = SetVersionPriorityFn
              /\ j < Len(schemeBuilder'[s]) \/ cursor'.scheme > 1 \/ i < cursor'.fn
        BY <1>8, <3>3 DEF InScheme
      <4>2. j < Len(schemeBuilder'[s])
        BY <1>1, <4>1
      <4>3. /\ i \in 1..Len(fns) /\ j \in 1..Len(fns)
            /\ schemeBuilder'[s][i] = fns[i] /\ schemeBuilder'[s][j] = fns[j]
        BY <1>4, <4>1, <4>2
      <4> QED BY <1>8, <4>1, <4>3 DEF InScheme
    <3> QED BY <2>2, <3>2, <3>3
  <2> QED BY <2>1, <2>2
<1>10. KnownOK'
  <2>2. (\A k : k \in Scheme.known <=> \E t \in Servers : \E x \in InScheme(t) : k \in Documented(x))
        => \A k : k \in Scheme'.known <=> \E t \in Servers : \E x \in InScheme(t)' : k \in Documented(x)
    BY <1>1, <1>9
  <2> QED BY <1>1, <2>2, KnownPoint, KnownPointPrime DEF SInv, KInv, KnownOK
<1>11. FromObjects' /\ ObservedOK'
  BY <1>1 DEF SInv, KInv, FromObjects, ObservedOK, Registered
<1> QED BY <1>6, <1>7, <1>10, <1>11 DEF KInv

(* While a Build runs: the cursor and the list, whose last function is the   *)
(* priority function; and where the cursor goes.                             *)
LEMMA CursorStep ==
  ASSUME BInv, NEW s \in Servers, AddingToScheme(s), AdvanceCursor(s)
  PROVE  LET fns == schemeBuilder[s]
             n == Len(fns)
         IN  /\ n \in Nat /\ fns[n] = SetVersionPriorityFn
             /\ cursor.scheme \in Nat /\ cursor.scheme >= 1 /\ cursor.fn \in 1..n
             /\ \/ cursor.fn < n /\ cursor'.scheme = cursor.scheme /\ cursor'.fn = cursor.fn + 1
                \/ cursor.fn = n /\ cursor'.scheme = cursor.scheme + 1 /\ cursor'.fn = 1
<1>1. /\ cursor \in [scheme : Nat, fn : Nat] /\ cursor.scheme >= 1
      /\ cursor.fn \in 1..Len(schemeBuilder[s])
      /\ Len(schemeBuilder[s]) \in Nat
      /\ schemeBuilder[s][Len(schemeBuilder[s])] = SetVersionPriorityFn
  BY DEF BInv, Shapes, BuildOK, Building, AddingToScheme
<1>2. CASE cursor.fn < Len(schemeBuilder[s])
  <2>1. cursor' = [cursor EXCEPT !.fn = @ + 1]
    BY <1>2 DEF AdvanceCursor
  <2>2. cursor'.scheme = cursor.scheme /\ cursor'.fn = cursor.fn + 1
    BY <1>1, <2>1
  <2> QED BY <1>1, <1>2, <2>2
<1>3. CASE ~(cursor.fn < Len(schemeBuilder[s]))
  <2>1. cursor.fn = Len(schemeBuilder[s])
    BY <1>1, <1>3
  <2>2. cursor' = [scheme |-> cursor.scheme + 1, fn |-> 1]
    BY <1>3 DEF AdvanceCursor
  <2> QED BY <1>1, <2>1, <2>2
<1> QED BY <1>2, <1>3

(* The object whose function has run is in the scheme, no other came.        *)
LEMMA InSchemeStep ==
  ASSUME BInv, NEW s \in Servers, AddingToScheme(s), AdvanceCursor(s),
         UNCHANGED <<schemeBuilder, active, phase>>
  PROVE  /\ \A t \in Servers : t # s => InScheme(t)' = InScheme(t)
         /\ InScheme(s)' = InScheme(s) \cup {o \in Objects : CurrentFn(s) = AddToSchemeFn(o)}
<1> DEFINE fns == schemeBuilder[s]
           n == Len(fns)
<1>1. active = s /\ phase[s] = "building"
  BY DEF AddingToScheme
<1>2. \A t \in Servers : t # s => InScheme(t)' = InScheme(t)
  BY <1>1 DEF InScheme, Building
<1>3. /\ n \in Nat /\ fns[n] = SetVersionPriorityFn
      /\ cursor.scheme \in Nat /\ cursor.scheme >= 1 /\ cursor.fn \in 1..n
      /\ \/ cursor.fn < n /\ cursor'.scheme = cursor.scheme /\ cursor'.fn = cursor.fn + 1
         \/ cursor.fn = n /\ cursor'.scheme = cursor.scheme + 1 /\ cursor'.fn = 1
  BY CursorStep
<1>4. ASSUME NEW x \in Objects
      PROVE  x \in InScheme(s)' <=> x \in InScheme(s) \/ CurrentFn(s) = AddToSchemeFn(x)
  <2>0. AddToSchemeFn(x) # SetVersionPriorityFn
    BY DEF AddToSchemeFn, SetVersionPriorityFn
  <2>1. x \in InScheme(s) <=>
          \E i, j \in 1..n : /\ i < j /\ fns[i] = AddToSchemeFn(x) /\ fns[j] = SetVersionPriorityFn
                             /\ j < n \/ cursor.scheme > 1 \/ i < cursor.fn
    BY <1>1 DEF InScheme, Building
  <2>2. x \in InScheme(s)' <=>
          \E i, j \in 1..n : /\ i < j /\ fns[i] = AddToSchemeFn(x) /\ fns[j] = SetVersionPriorityFn
                             /\ j < n \/ cursor'.scheme > 1 \/ i < cursor'.fn
    BY <1>1 DEF InScheme, Building
  <2>3. ASSUME x \in InScheme(s) PROVE x \in InScheme(s)'
    <3>1. PICK i, j \in 1..n : /\ i < j /\ fns[i] = AddToSchemeFn(x) /\ fns[j] = SetVersionPriorityFn
                               /\ j < n \/ cursor.scheme > 1 \/ i < cursor.fn
      BY <2>1, <2>3
    <3>2. j < n \/ cursor'.scheme > 1 \/ i < cursor'.fn
      BY <1>3, <3>1
    <3> QED BY <2>2, <3>1, <3>2
  <2>4. ASSUME CurrentFn(s) = AddToSchemeFn(x) PROVE x \in InScheme(s)'
    <3>1. cursor.fn \in 1..n /\ n \in 1..n /\ fns[cursor.fn] = AddToSchemeFn(x)
      BY <1>3, <2>4 DEF CurrentFn
    <3>2. cursor.fn < n
      BY <1>3, <2>0, <3>1
    <3>3. cursor.fn < cursor'.fn
      BY <1>3, <3>2
    <3> QED BY <1>3, <2>2, <3>1, <3>2, <3>3
  <2>5. ASSUME x \in InScheme(s)', CurrentFn(s) # AddToSchemeFn(x) PROVE x \in InScheme(s)
    <3>1. PICK i, j \in 1..n : /\ i < j /\ fns[i] = AddToSchemeFn(x) /\ fns[j] = SetVersionPriorityFn
                               /\ j < n \/ cursor'.scheme > 1 \/ i < cursor'.fn
      BY <2>2, <2>5
    <3>2. i # cursor.fn
      BY <2>5, <3>1 DEF CurrentFn
    <3>3. j < n \/ cursor.scheme > 1 \/ i < cursor.fn
      BY <1>3, <3>1, <3>2
    <3> QED BY <2>1, <3>1, <3>3
  <2> QED BY <2>3, <2>4, <2>5
<1>5. InScheme(s) \subseteq Objects /\ InScheme(s)' \subseteq Objects
  BY DEF InScheme
<1> QED BY <1>2, <1>4, <1>5

(* The scheme function of an object brings in what that object documents.    *)
LEMMA AddKInv ==
  ASSUME SInv, NEW s \in Servers, RunAddToScheme(s)
  PROVE  RegInv' /\ KInv'
<1> DEFINE o == CurrentFn(s).obj
           r == AddToScheme(Scheme, o)
<1>1. /\ AddingToScheme(s) /\ AdvanceCursor(s) /\ CurrentFn(s).fn = "AddToScheme"
      /\ UNCHANGED <<phase, active, regVars>>
      /\ Scheme' = r.scheme /\ panicked' = ~r.ok /\ ~panicked
  BY DEF RunAddToScheme, AddingToScheme
<1>2. o \in Objects /\ CurrentFn(s) = AddToSchemeFn(o) /\ IsScheme(Scheme)
  BY <1>1, CurrentObject DEF SInv, BInv, Shapes
<1>3. o \in Registered
  <2>1. cursor.fn \in 1..Len(schemeBuilder[s])
    BY <1>1, CursorStep DEF SInv
  <2>2. \/ CurrentFn(s) = SetVersionPriorityFn
        \/ \E x \in Registered : CurrentFn(s) = AddToSchemeFn(x)
    BY <2>1 DEF SInv, KInv, FnsOK, CurrentFn
  <2> QED BY <1>1, <2>2 DEF AddToSchemeFn, SetVersionPriorityFn
<1>4. RegInv'
  BY <1>1, SameRegInv DEF SInv
<1>5. FnsOK' /\ Registered' = Registered
  BY <1>1 DEF SInv, KInv, FnsOK, Registered, regVars
<1> HIDE DEF o
<1>6. /\ Scheme.known \subseteq Scheme'.known
      /\ Scheme'.known \subseteq Scheme.known \cup Documented(o)
      /\ ~panicked' => Scheme'.known = Scheme.known \cup Documented(o)
      /\ \A k \in Scheme'.params : k \in Scheme.params \/
           (k \in Documented(o) /\ k.gv = GV(GVR(o)) /\ k.type \in OwnTypes(o))
      /\ \A gv \in Scheme'.observed : gv \in Scheme.observed \/
           \E k \in Scheme'.known : gv = k.gv /\ gv.version # APIVersionInternal
      /\ Scheme.observed \subseteq Scheme'.observed
      /\ \A k \in Scheme'.known : k \in Scheme.known \/ k.gv \in Scheme'.observed
                                    \/ k.gv.version = APIVersionInternal
  <2> DEFINE y == r.scheme
  <2>1. /\ Scheme.known \subseteq y.known
        /\ y.known \subseteq Scheme.known \cup Documented(o)
        /\ r.ok => y.known = Scheme.known \cup Documented(o)
        /\ \A k \in y.params : k \in Scheme.params \/
             (k \in Documented(o) /\ k.gv = GV(GVR(o)) /\ k.type \in OwnTypes(o))
        /\ \A gv \in y.observed : gv \in Scheme.observed \/
             \E k \in y.known : gv = k.gv /\ gv.version # APIVersionInternal
        /\ Scheme.observed \subseteq y.observed
        /\ \A k \in y.known : k \in Scheme.known \/ k.gv \in y.observed
                                  \/ k.gv.version = APIVersionInternal
    BY <1>2, AddToSchemeLemma
  <2>2. Scheme' = y /\ panicked' = ~r.ok
    BY <1>1
  <2> HIDE DEF y, r
  <2>3. ~panicked' => r.ok
    BY <2>2
  <2> QED BY <2>1, <2>2, <2>3
<1>7. KnownOK'
  <2> SUFFICES ASSUME ~panicked'
               PROVE  \A k : k \in Scheme'.known <=>
                        \E t \in Servers : \E x \in InScheme(t)' : k \in Documented(x)
    BY KnownPointPrime DEF KnownOK
  <2>1. /\ \A t \in Servers : t # s => InScheme(t)' = InScheme(t)
        /\ InScheme(s)' = InScheme(s) \cup {x \in Objects : CurrentFn(s) = AddToSchemeFn(x)}
    BY <1>1, InSchemeStep DEF SInv, regVars
  <2>2. \A x : CurrentFn(s) = AddToSchemeFn(x) <=> x = o
    BY <1>2 DEF AddToSchemeFn
  <2>3. InScheme(s)' = InScheme(s) \cup {o}
    BY <1>2, <2>1, <2>2
  <2>4. \A k : k \in Scheme.known <=> \E t \in Servers : \E x \in InScheme(t) : k \in Documented(x)
    BY <1>1, KnownPoint DEF SInv, KInv, KnownOK
  <2>5. \A k : k \in Scheme'.known <=> k \in Scheme.known \/ k \in Documented(o)
    BY <1>6
  <2> QED BY <2>1, <2>3, <2>4, <2>5
<1>8. FromObjects'
  <2>1. \A k \in Scheme'.known \cup Scheme'.params :
          k \in Scheme.known \cup Scheme.params \/ k \in Documented(o)
    BY <1>6
  <2>2. \A k \in Scheme'.known \cup Scheme'.params : \E x \in Registered : k \in Documented(x)
    BY <1>3, <2>1 DEF SInv, KInv, FromObjects
  <2>3. GV(GVR(o)) \in GVs /\ OwnTypes(o) \subseteq Types
    BY <1>2 DEF GVs, GVRs, Types
  <2>4. ASSUME NEW k \in Scheme'.params PROVE k \in [gv : GVs, type : Types]
    <3>1. CASE k \in Scheme.params
      BY <3>1 DEF SInv, KInv, FromObjects
    <3>2. CASE k \in Documented(o) /\ k.gv = GV(GVR(o)) /\ k.type \in OwnTypes(o)
      <4>1. k \in [gv : SchemeGVs, type : Types]
        BY <1>2, <3>2, DocumentedTyped
      <4> QED BY <2>3, <3>2, <4>1
    <3> QED BY <1>6, <3>1, <3>2
  <2> QED BY <1>5, <2>2, <2>4 DEF FromObjects
<1>9. ObservedOK'
  <2>1. ASSUME NEW gv \in Scheme'.observed PROVE gv \in SchemeGVs /\ gv.version # APIVersionInternal
    <3>1. CASE gv \in Scheme.observed
      BY <3>1 DEF SInv, KInv, ObservedOK
    <3>2. CASE \E k \in Scheme'.known : gv = k.gv /\ gv.version # APIVersionInternal
      <4>1. PICK k \in Scheme'.known : gv = k.gv /\ gv.version # APIVersionInternal
        BY <3>2
      <4>2. PICK x \in Registered : k \in Documented(x)
        BY <1>5, <1>8 DEF FromObjects
      <4>3. x \in Objects
        BY <4>2, RegisteredObjects DEF SInv, RegInv
      <4>4. k \in [gv : SchemeGVs, type : Types]
        BY <4>2, <4>3, DocumentedTyped
      <4> QED BY <4>1, <4>4
    <3> QED BY <1>6, <3>1, <3>2
  <2>2. \A k \in Scheme'.known : k.gv \in Scheme'.observed \/ k.gv.version = APIVersionInternal
    BY <1>6 DEF SInv, KInv, ObservedOK
  <2> QED BY <2>1, <2>2 DEF ObservedOK
<1> QED BY <1>4, <1>5, <1>7, <1>8, <1>9 DEF KInv

(* The priority function knows no type: it observes versions only.           *)
LEMMA PriorityKInv ==
  ASSUME SInv, NEW s \in Servers, RunSetVersionPriority(s)
  PROVE  RegInv' /\ KInv'
<1>1. /\ AddingToScheme(s) /\ AdvanceCursor(s) /\ CurrentFn(s).fn = "SetVersionPriority"
      /\ UNCHANGED <<phase, active, regVars>> /\ ~panicked
  BY DEF RunSetVersionPriority, AddingToScheme
<1>2. /\ Scheme'.known = Scheme.known /\ Scheme'.params = Scheme.params
      /\ Scheme'.observed \in {Scheme.observed, Scheme.observed \cup ToSet(orderedGroupVersions[s])}
  <2>1. CASE UNCHANGED Scheme
    BY <2>1
  <2>2. CASE \E p \in Priorities(DOMAIN APIs) :
               Scheme' = [Prioritize(Scheme, p) EXCEPT !.observed = @ \cup ToSet(orderedGroupVersions[s])]
    <3>1. PICK p : Scheme' = [Prioritize(Scheme, p) EXCEPT !.observed = @ \cup ToSet(orderedGroupVersions[s])]
      BY <2>2
    <3> DEFINE new == ToSet(orderedGroupVersions[s])
               q == [Prioritize(Scheme, p) EXCEPT !.observed = @ \cup new]
    <3>2. IsScheme(Scheme)
      BY DEF SInv, BInv, Shapes
    <3>3. /\ q.known = Scheme.known /\ q.params = Scheme.params
          /\ q.observed = Scheme.observed \cup new
      <4> HIDE DEF new
      <4> QED BY <3>2 DEF Prioritize, IsScheme
    <3>4. Scheme' = q
      BY <3>1
    <3> HIDE DEF q
    <3> QED BY <3>3, <3>4
  <2> QED BY <2>1, <2>2 DEF RunSetVersionPriority, BuildPriorities
<1>3. RegInv'
  BY <1>1, SameRegInv DEF SInv
<1>4. FnsOK' /\ Registered' = Registered
  BY <1>1 DEF SInv, KInv, FnsOK, Registered, regVars
<1>5. \A t \in Servers : InScheme(t)' = InScheme(t)
  <2>1. /\ \A t \in Servers : t # s => InScheme(t)' = InScheme(t)
        /\ InScheme(s)' = InScheme(s) \cup {x \in Objects : CurrentFn(s) = AddToSchemeFn(x)}
    BY <1>1, InSchemeStep DEF SInv, regVars
  <2>2. \A x : CurrentFn(s) # AddToSchemeFn(x)
    BY <1>1 DEF AddToSchemeFn
  <2> QED BY <2>1, <2>2
<1>6. KnownOK'
  <2>1. \A k : k \in Scheme.known <=> \E t \in Servers : \E x \in InScheme(t) : k \in Documented(x)
    BY <1>1, KnownPoint DEF SInv, KInv, KnownOK
  <2>2. \A k : k \in Scheme'.known <=> \E t \in Servers : \E x \in InScheme(t)' : k \in Documented(x)
    BY <1>2, <1>5, <2>1
  <2> QED BY <2>2, KnownPointPrime DEF KnownOK
<1>7. FromObjects'
  BY <1>2, <1>4 DEF SInv, KInv, FromObjects
<1>8. ObservedOK'
  <2>1. \A gv \in ToSet(orderedGroupVersions[s]) : gv \in SchemeGVs /\ gv.version # APIVersionInternal
    <3> SUFFICES ASSUME NEW gv \in ToSet(orderedGroupVersions[s])
                 PROVE  gv \in SchemeGVs /\ gv.version # APIVersionInternal
      OBVIOUS
    <3>1. orderedGroupVersions[s] \in Seq(GVs)
      BY DEF SInv, BInv, Shapes
    <3>2. /\ ToSet(orderedGroupVersions[s]) =
               {orderedGroupVersions[s][i] : i \in 1..Len(orderedGroupVersions[s])}
          /\ ToSet(orderedGroupVersions[s]) \subseteq GVs
      BY <3>1, SeqElements
    <3>3. {orderedGroupVersions[s][i] : i \in 1..Len(orderedGroupVersions[s])} =
            {x \in groupVersions[s] : x.version # APIVersionInternal}
      BY DEF SInv, RegInv, OrderedIsExternal
    <3> QED BY <3>2, <3>3 DEF SchemeGVs
  <2> QED BY <1>2, <2>1 DEF SInv, KInv, ObservedOK
<1> QED BY <1>3, <1>4, <1>6, <1>7, <1>8 DEF KInv

(* When Build has run every function, the objects registered before it are   *)
(* in the scheme, and those are all there are.                               *)
LEMMA FinishKInv ==
  ASSUME SInv, NEW s \in Servers, FinishBuild(s)
  PROVE  RegInv' /\ KInv'
<1>1. /\ UNCHANGED <<Scheme, cursor, regVars>>
      /\ active = s /\ ~panicked /\ cursor.scheme > Schemes[s] /\ phase[s] = "building"
      /\ active' = NoServer
  BY DEF FinishBuild
<1>2. RegInv'
  BY <1>1, SameRegInv DEF SInv
<1>3. cursor.scheme > 1
  BY <1>1 DEF SInv, BInv, Shapes, BuildOK, Building
<1>4. \A t \in Servers : InScheme(t)' = InScheme(t)
  <2>1. \A t \in Servers : ~Building(t)'
    BY <1>1, BuilderAssumption DEF Building
  <2>2. \A t \in Servers : Building(t) => t = s
    BY <1>1 DEF Building
  <2> QED BY <1>1, <1>3, <2>1, <2>2 DEF InScheme, regVars
<1>5. KnownOK'
  <2>1. \A k : k \in Scheme.known <=> \E t \in Servers : \E x \in InScheme(t) : k \in Documented(x)
    BY <1>1, KnownPoint DEF SInv, KInv, KnownOK
  <2>2. \A k : k \in Scheme'.known <=> \E t \in Servers : \E x \in InScheme(t)' : k \in Documented(x)
    BY <1>1, <1>4, <2>1
  <2> QED BY <2>2, KnownPointPrime DEF KnownOK
<1>6. FnsOK' /\ FromObjects' /\ ObservedOK'
  BY <1>1 DEF SInv, KInv, FnsOK, FromObjects, ObservedOK, Registered, regVars
<1> QED BY <1>2, <1>5, <1>6 DEF KInv

(* A step of another component: it neither builds nor registers, nor does it *)
(* touch the types, versions and parameters of the scheme.                   *)
LEMMA ElsewhereKInv ==
  ASSUME SInv, UNCHANGED <<regVars, cursor>>,
         Scheme'.known = Scheme.known, Scheme'.params = Scheme.params,
         Scheme'.observed = Scheme.observed,
         \A s \in Servers : Building(s)' <=> Building(s),
         panicked => panicked'
  PROVE  RegInv' /\ KInv'
<1>1. RegInv'
  BY SameRegInv DEF SInv
<1>2. \A t \in Servers : InScheme(t)' = InScheme(t)
  BY DEF InScheme, regVars
<1>3. KnownOK'
  <2> SUFFICES ASSUME ~panicked'
               PROVE  \A k : k \in Scheme'.known <=>
                        \E t \in Servers : \E x \in InScheme(t)' : k \in Documented(x)
    BY KnownPointPrime DEF KnownOK
  <2>1. \A k : k \in Scheme.known <=> \E t \in Servers : \E x \in InScheme(t) : k \in Documented(x)
    BY KnownPoint DEF SInv, KInv, KnownOK
  <2> QED BY <1>2, <2>1
<1>4. FnsOK' /\ FromObjects' /\ ObservedOK'
  BY DEF SInv, KInv, FnsOK, FromObjects, ObservedOK, Registered, regVars
<1> QED BY <1>1, <1>3, <1>4 DEF KInv

(* Every step of the builder keeps the strengthening.                        *)
LEMMA BuildStepSInv ==
  SInv /\ [BuildNext]_bvars => SInv'
<1> SUFFICES ASSUME SInv, [BuildNext]_bvars PROVE SInv'
  OBVIOUS
<1>1. BInv'
  BY BuildStepKeeps DEF SInv
<1>2. ASSUME \/ \E s \in Servers, path \in EtcdPaths : WithEtcdPath(s, path)
             \/ \E f \in FlagFns : WithFlagFns(f)
             \/ UNCHANGED bvars
      PROVE  RegInv' /\ KInv'
  <2>1. UNCHANGED <<regVars, Scheme, phase, active, cursor, panicked>>
    BY <1>2 DEF WithEtcdPath, WithFlagFns, bvars, buildVars
  <2>2. \A s \in Servers : Building(s)' <=> Building(s)
    BY <2>1 DEF Building
  <2> QED BY <2>1, <2>2, ElsewhereKInv
<1>3. RegInv' /\ KInv'
  BY <1>2, RegisterKInv, BuildKInv, AddKInv, PriorityKInv, FinishKInv
     DEF BuildNext, Configure, BuildStep
<1> QED BY <1>1, <1>3 DEF SInv

(* A builder step panics only in a program that Misused describes.           *)
LEMMA PanicStep ==
  ASSUME SInv, ~panicked, [BuildNext]_bvars, panicked'
  PROVE  Misused'
<1>1. ASSUME NEW s \in Servers, RunAddToScheme(s) PROVE Misused'
  <2> DEFINE o == CurrentFn(s).obj
             r == AddToScheme(Scheme, o)
  <2>1. /\ AddingToScheme(s) /\ AdvanceCursor(s) /\ CurrentFn(s).fn = "AddToScheme"
        /\ UNCHANGED <<FlagsFns, regVars>> /\ ~r.ok
    BY <1>1 DEF RunAddToScheme
  <2>2. o \in Objects /\ CurrentFn(s) = AddToSchemeFn(o) /\ IsScheme(Scheme)
    BY <2>1, CurrentObject DEF SInv, BInv, Shapes
  <2>3. o \in Registered
    <3>1. cursor.fn \in 1..Len(schemeBuilder[s])
      BY <2>1, CursorStep DEF SInv
    <3>2. \/ CurrentFn(s) = SetVersionPriorityFn
          \/ \E x \in Registered : CurrentFn(s) = AddToSchemeFn(x)
      BY <3>1 DEF SInv, KInv, FnsOK, CurrentFn
    <3> QED BY <2>1, <3>2 DEF AddToSchemeFn, SetVersionPriorityFn
  <2> HIDE DEF o
  <2>4. \/ CannotConvert(o)
        \/ \E k \in Documented(o) :
             Conflict(Scheme.known \cup Scheme.params \cup Documented(o), k.gv, k.type)
    BY <2>1, <2>2, AddToSchemeLemma
  <2>5. Registered' = Registered
    BY <2>1 DEF Registered, regVars
  <2>6. CASE CannotConvert(o)
    BY <2>3, <2>5, <2>6 DEF CannotConvert, Misused
  <2>7. CASE \E k \in Documented(o) :
               Conflict(Scheme.known \cup Scheme.params \cup Documented(o), k.gv, k.type)
    <3>1. PICK k \in Documented(o), x \in Scheme.known \cup Scheme.params \cup Documented(o) :
            x.gv = k.gv /\ x.type.kind = k.type.kind /\ x.type # k.type
      BY <2>7 DEF Conflict
    <3>2. PICK p \in Registered : x \in Documented(p)
      BY <2>3 DEF SInv, KInv, FromObjects
    <3>3. Conflict(Documented(p), k.gv, k.type)
      BY <3>1, <3>2 DEF Conflict
    <3> QED BY <2>3, <2>5, <3>2, <3>3 DEF Misused
  <2> QED BY <2>4, <2>6, <2>7
<1>2. ASSUME NEW s \in Servers, RunSetVersionPriority(s) PROVE Misused'
  <2>1. ~CanPrioritize(DOMAIN APIs) /\ UNCHANGED APIs
    BY <1>2 DEF RunSetVersionPriority, regVars
  <2> QED BY <2>1 DEF CanPrioritize, Misused
<1>3. ASSUME NEW s \in Servers, FinishBuild(s) PROVE Misused'
  <2>1. UNCHANGED FlagsFns
    BY <1>3 DEF FinishBuild
  <2>2. PICK i \in DOMAIN FlagsFns : FlagFnPanics(i)
    BY <1>3 DEF FinishBuild
  <2>3. PICK n \in Nat : DOMAIN FlagsFns = 1..n
    BY LenProperties DEF SInv, BInv, Shapes
  <2>4. CASE i > 1 /\ FlagsFns[i-1].does = "nil"
    <3>1. i - 1 \in DOMAIN FlagsFns /\ i - 1 < i
      BY <2>3, <2>4
    <3> QED BY <2>1, <2>4, <3>1 DEF Misused
  <2>5. CASE FlagsFns[i].flag \in CommandFlags
    BY <2>1, <2>5 DEF Misused
  <2>6. CASE \E j \in 1..(i-1) : FlagsFns[j].flag = FlagsFns[i].flag
    <3>1. PICK j \in 1..(i-1) : FlagsFns[j].flag = FlagsFns[i].flag
      BY <2>6
    <3>2. j \in DOMAIN FlagsFns /\ j < i
      BY <2>3
    <3> QED BY <2>1, <3>1, <3>2 DEF Misused
  <2> QED BY <2>2, <2>4, <2>5, <2>6 DEF FlagFnPanics
<1>4. \E s \in Servers : RunAddToScheme(s) \/ RunSetVersionPriority(s) \/ FinishBuild(s)
  BY DEF BuildNext, Configure, BuildStep, Register, WithEtcdPath, WithFlagFns, Build,
         bvars, buildVars
<1> QED BY <1>1, <1>2, <1>3, <1>4

(* Nothing runs after a panic. *)
LEMMA PanicEnds ==
  ASSUME panicked PROVE ~BuildNext
BY DEF BuildNext, Configure, BuildStep, Register, WithEtcdPath, WithFlagFns, Idle, Build,
       RunAddToScheme, RunSetVersionPriority, FinishBuild, AddingToScheme

-----------------------------------------------------------------------------
(* The strengthening holds of every program that registers and builds.       *)
THEOREM BuildStrengthened == BuildSpec => []SInv
BY SInitInv, BuildStepSInv, PTL DEF BuildSpec, bvars

(* The part of it that is about priorities. *)
LEMMA BuildInvariant == BuildSpec => []BInv
<1>1. SInv => BInv
  BY DEF SInv
<1> QED BY <1>1, BuildStrengthened, PTL

(* Between Builds no server has objects of which only some are in the scheme.*)
LEMMA Documentation == SInv => SchemeIsDocumented
<1> SUFFICES ASSUME SInv, Idle
             PROVE  Scheme.known =
                      UNION {Documented(o) : o \in UNION {BuiltObjects(s) : s \in Servers}}
  BY DEF SchemeIsDocumented
<1>1. \A s \in Servers : ~Building(s)
  BY BuilderAssumption DEF Idle, Building
<1>2. \A s \in Servers : InScheme(s) = BuiltObjects(s)
  BY <1>1 DEF InScheme, BuiltObjects
<1>3. {InScheme(s) : s \in Servers} = {BuiltObjects(s) : s \in Servers}
  BY <1>2
<1> QED BY <1>3 DEF SInv, KInv, KnownOK, Idle

(* Between Builds, whoever was built how often, the scheme has exactly the   *)
(* pairs that register.go documents for the objects of built servers.        *)
THEOREM SchemeDocumentedAlways == BuildSpec => []SchemeIsDocumented
BY BuildStrengthened, Documentation, PTL

(* Build panics only in a program that Misused describes.                    *)
THEOREM PanicExplainedAlways == BuildSpec => []PanicExplained
<1>1. BuildInit => PanicExplained
  BY DEF BuildInit, PanicExplained
<1>2. SInv /\ PanicExplained /\ [BuildNext]_bvars => PanicExplained'
  <2> SUFFICES ASSUME SInv, PanicExplained, [BuildNext]_bvars, panicked' PROVE Misused'
    BY DEF PanicExplained
  <2>1. CASE ~panicked
    BY <2>1, PanicStep
  <2>2. CASE panicked
    <3>1. UNCHANGED bvars
      BY <2>2, PanicEnds
    <3>2. UNCHANGED <<APIs, FlagsFns, Registered>> /\ Misused
      BY <2>2, <3>1 DEF bvars, buildVars, regVars, Registered, PanicExplained
    <3> QED BY <3>2 DEF Misused
  <2> QED BY <2>1, <2>2
<1> QED BY <1>1, <1>2, BuildStrengthened, PTL DEF BuildSpec, bvars

(* What BuildTypeOK says of the variables that no other property is about.   *)
PlainTypes ==
  /\ Scheme.defaulters \subseteq Types
  /\ Schemes \in [Servers -> 0..MaxBuilds]
  /\ EtcdPath \in EtcdPaths \cup {""}
  /\ serverEtcdPath \in [Servers -> EtcdPaths \cup {""}]
  /\ FlagsFns \in Seq(FlagFns)
  /\ DOMAIN phase = Servers
  /\ \A s \in Servers : phase[s] = "building" => active = s

(* Every step of the builder keeps these types.                              *)
LEMMA PlainTypesStep == SInv /\ PlainTypes /\ [BuildNext]_bvars => PlainTypes'
<1> SUFFICES ASSUME SInv, PlainTypes, [BuildNext]_bvars PROVE PlainTypes'
  OBVIOUS
<1> USE DEF PlainTypes
<1>1. CASE UNCHANGED bvars
  BY <1>1 DEF bvars, buildVars
<1>2. ASSUME NEW s \in Servers, NEW o \in Objects, NEW sp \in Providers, Register(s, o, sp)
      PROVE  PlainTypes'
  BY <1>2 DEF Register, buildVars
<1>3. ASSUME NEW s \in Servers, NEW path \in EtcdPaths, WithEtcdPath(s, path)
      PROVE  PlainTypes'
  BY <1>3 DEF WithEtcdPath
<1>4. ASSUME NEW f \in FlagFns, WithFlagFns(f)
      PROVE  PlainTypes'
  <2>1. /\ FlagsFns' = Append(FlagsFns, f)
        /\ UNCHANGED <<Scheme, Schemes, EtcdPath, serverEtcdPath, phase, active>>
    BY <1>4 DEF WithFlagFns
  <2>2. FlagsFns' \in Seq(FlagFns)
    BY <2>1, AppendElements
  <2> QED BY <2>1, <2>2
<1>5. ASSUME NEW s \in Servers, Build(s)
      PROVE  PlainTypes'
  <2>1. /\ EtcdPath' = serverEtcdPath[s] /\ Schemes[s] < MaxBuilds
        /\ Schemes' = [Schemes EXCEPT ![s] = @ + 1]
        /\ phase' = [phase EXCEPT ![s] = "building"]
        /\ active = NoServer /\ active' = s
        /\ UNCHANGED <<Scheme, serverEtcdPath, FlagsFns>>
    BY <1>5 DEF Build, BuildEtcdPath, Idle
  <2>2. Schemes' \in [Servers -> 0..MaxBuilds]
    <3>1. Schemes \in [Servers -> 0..MaxBuilds]
      BY DEF PlainTypes
    <3>2. Schemes[s] \in 0..MaxBuilds /\ Schemes[s] < MaxBuilds
      BY <2>1, <3>1
    <3>3. \A n \in 0..MaxBuilds : n < MaxBuilds => n + 1 \in 0..MaxBuilds
      BY ONLY BuilderAssumption
    <3> QED BY <2>1, <3>1, <3>2, <3>3
  <2>3. \A t \in Servers : phase'[t] = "building" => active' = t
    BY <2>1, BuilderAssumption
  <2> QED BY <2>1, <2>2, <2>3
<1>6. ASSUME NEW s \in Servers, RunAddToScheme(s)
      PROVE  PlainTypes'
  <2> DEFINE o == CurrentFn(s).obj
             r == AddToScheme(Scheme, o)
  <2>1. /\ AddingToScheme(s) /\ CurrentFn(s).fn = "AddToScheme" /\ Scheme' = r.scheme
        /\ UNCHANGED <<Schemes, EtcdPath, serverEtcdPath, FlagsFns, phase, active>>
    BY <1>6 DEF RunAddToScheme
  <2>2. o \in Objects /\ IsScheme(Scheme)
    BY <2>1, CurrentObject DEF SInv, BInv, Shapes
  <2> HIDE DEF o
  <2>3. r.scheme.defaulters \subseteq Scheme.defaulters \cup {o.type}
    BY <2>2, AddToSchemeLemma
  <2>4. o.type \in Types
    BY <2>2, OwnTypesLemma DEF Types
  <2> HIDE DEF r
  <2> QED BY <2>1, <2>3, <2>4
<1>7. ASSUME NEW s \in Servers, RunSetVersionPriority(s)
      PROVE  PlainTypes'
  <2>1. UNCHANGED <<Schemes, EtcdPath, serverEtcdPath, FlagsFns, phase, active>>
    BY <1>7 DEF RunSetVersionPriority
  <2>2. Scheme'.defaulters = Scheme.defaulters
    <3>1. CASE UNCHANGED Scheme
      BY <3>1
    <3>2. CASE \E p \in Priorities(DOMAIN APIs) :
                 Scheme' = [Prioritize(Scheme, p) EXCEPT !.observed = @ \cup ToSet(orderedGroupVersions[s])]
      <4>1. PICK p : Scheme' = [Prioritize(Scheme, p) EXCEPT !.observed = @ \cup ToSet(orderedGroupVersions[s])]
        BY <3>2
      <4> DEFINE new == ToSet(orderedGroupVersions[s])
                 q == [Prioritize(Scheme, p) EXCEPT !.observed = @ \cup new]
      <4>2. IsScheme(Scheme)
        BY DEF SInv, BInv, Shapes
      <4>3. q.defaulters = Scheme.defaulters
        <5> HIDE DEF new
        <5> QED BY <4>2 DEF Prioritize, IsScheme
      <4>4. Scheme' = q
        BY <4>1
      <4> HIDE DEF q
      <4> QED BY <4>3, <4>4
    <3> QED BY <1>7, <3>1, <3>2 DEF RunSetVersionPriority, BuildPriorities
  <2> QED BY <2>1, <2>2
<1>8. ASSUME NEW s \in Servers, FinishBuild(s)
      PROVE  PlainTypes'
  <2>1. /\ phase' = [phase EXCEPT ![s] = "built"] /\ active = s
        /\ UNCHANGED <<Scheme, Schemes, EtcdPath, serverEtcdPath, FlagsFns>>
    BY <1>8 DEF FinishBuild
  <2>2. \A t \in Servers : phase'[t] # "building"
    BY <2>1
  <2> QED BY <2>1, <2>2
<1> QED BY <1>1, <1>2, <1>3, <1>4, <1>5, <1>6, <1>7, <1>8 DEF BuildNext, Configure, BuildStep

(* Type correctness of the builder: what the scheme holds are versions and   *)
(* Go types of the program's objects.                                        *)
THEOREM BuildTypeCorrect == BuildSpec => []BuildTypeOK
<1>1. BuildInit => PlainTypes
  <2> SUFFICES ASSUME BuildInit PROVE PlainTypes
    OBVIOUS
  <2>1. Scheme.defaulters = {} /\ FlagsFns = << >> /\ active = NoServer
    BY DEF BuildInit, EmptyScheme
  <2>2. << >> \in Seq(FlagFns) /\ 0 \in 0..MaxBuilds
    BY BuilderAssumption
  <2>3. Schemes \in [Servers -> 0..MaxBuilds]
    BY <2>2 DEF BuildInit
  <2>4. \A s \in Servers : phase[s] # "building"
    BY DEF BuildInit
  <2> QED BY <2>1, <2>2, <2>3, <2>4 DEF BuildInit, PlainTypes
<1>2. SInv /\ PlainTypes => BuildTypeOK
  <2> SUFFICES ASSUME SInv, PlainTypes PROVE BuildTypeOK
    OBVIOUS
  <2>1. ASSUME NEW k \in Scheme.known PROVE k \in [gv : SchemeGVs, type : Types]
    <3>1. PICK o \in Registered : k \in Documented(o)
      BY DEF SInv, KInv, FromObjects
    <3> QED BY <3>1, DocumentedTyped, RegisteredObjects DEF SInv, RegInv
  <2>2. DOMAIN APIs \subseteq GVRs
    BY DEF SInv, RegInv, RegTypeOK, Maps
  <2>3. \A g \in DOMAIN vp : g \in Groups(GVRs) /\ vp[g] \in Seq({gv.version : gv \in GVs})
    <3> SUFFICES ASSUME NEW g \in DOMAIN vp
                 PROVE  g \in Groups(GVRs) /\ vp[g] \in Seq({gv.version : gv \in GVs})
      OBVIOUS
    <3>1. g \in Groups(DOMAIN APIs) /\ vp[g] \in Seq(External(g))
      BY DEF SInv, BInv, PriorityOK
    <3>2. External(g) \subseteq {gv.version : gv \in GVs}
      <4> SUFFICES ASSUME NEW r \in DOMAIN APIs PROVE r.version \in {gv.version : gv \in GVs}
        BY DEF External, ExternalVersions
      <4>1. GV(r) \in GVs /\ GV(r).version = r.version
        BY <2>2 DEF GVs, GV
      <4> QED BY <4>1
    <3> QED BY <2>2, <3>1, <3>2, SeqSubset DEF Groups
  <2>4. SchemeTypeOK
    BY <2>1, <2>3 DEF SchemeTypeOK, SInv, KInv, FromObjects, ObservedOK, PlainTypes, vp
  <2> QED BY <2>4 DEF BuildTypeOK, PlainTypes, SInv, BInv, Shapes
<1> QED BY <1>1, <1>2, PlainTypesStep, BuildStrengthened, PTL DEF BuildSpec, bvars

(* The versions of a command keep their priorities.                          *)
LEMMA Prioritised == BInv => CommandVersionsPrioritised
<1> SUFFICES ASSUME BInv PROVE CommandVersionsPrioritised
  OBVIOUS
<1>1. \A g \in DOMAIN vp : vp[g] \in Seq(External(g)) /\ IsInjective(vp[g])
  BY DEF BInv, PriorityOK
<1>2. \A g \in DOMAIN vp : \A e : Contains(vp[g], e) <=> e \in ToSet(vp[g])
  BY <1>1, SeqElements
<1>3. \A g \in DOMAIN vp : ToSet(vp[g]) \subseteq External(g)
  BY <1>1, SeqElements
<1>4. \A g \in DOMAIN vp : ~Contains(vp[g], APIVersionInternal)
  BY <1>2, <1>3 DEF External, ExternalVersions
<1>5. \A s \in Servers : \A i \in 1..Len(cmd[s].versions) :
        LET gv == cmd[s].versions[i]
        IN  gv.group \in DOMAIN vp /\ Contains(vp[gv.group], gv.version)
  BY <1>2 DEF BInv, CmdOK, HasPriority
<1> QED BY <1>1, <1>4, <1>5 DEF CommandVersionsPrioritised, vp

(* Every version in the list of a command has a priority, whatever servers   *)
(* were built since, and no list has a duplicate or an internal version.     *)
THEOREM CommandVersionsCorrect == BuildSpec => []CommandVersionsPrioritised
BY BuildInvariant, Prioritised, PTL

(* What OthersKept says of a step. *)
NothingLost ==
  /\ Scheme.known \subseteq Scheme'.known
  /\ \A g \in DOMAIN Scheme.versionPriority :
       /\ g \in DOMAIN Scheme'.versionPriority
       /\ ToSet(Scheme.versionPriority[g]) \subseteq ToSet(Scheme'.versionPriority[g])
  /\ \A s \in Servers : cmd'[s] # cmd[s] =>
       active = s /\ cmd'[s].etcdPath = serverEtcdPath[s]

(* Only FinishBuild makes a command, while its server is the active one.     *)
LEMMA BuildLosesNothing == BInv /\ [BuildNext]_bvars => NothingLost
<1>1. ASSUME BInv, [BuildNext]_bvars, NEW s \in Servers, cmd'[s] # cmd[s]
      PROVE  active = s /\ cmd'[s].etcdPath = serverEtcdPath[s]
  <2>1. PICK t \in Servers : FinishBuild(t)
    BY <1>1 DEF BuildNext, Configure, BuildStep, Register, WithEtcdPath, WithFlagFns, Build,
           RunAddToScheme, RunSetVersionPriority, bvars, buildVars
  <2>2. /\ active = t /\ phase[t] = "building"
        /\ cmd' = [cmd EXCEPT ![t] = [etcdPath |-> EtcdPath, versions |-> orderedGroupVersions[t],
                                      flags |-> OwnFlags]]
    BY <2>1 DEF FinishBuild, OwnFlags
  <2>3. s = t /\ cmd'[s].etcdPath = EtcdPath
    BY <1>1, <2>2 DEF BInv, Shapes
  <2> QED BY <1>1, <2>2, <2>3 DEF BInv, BuildOK, Building
<1> QED BY <1>1, BuildStepKeeps DEF Kept, vp, NothingLost

(* Building one server undoes nothing of another: no type and no priority is *)
(* lost, and a command is made by its own server's Build, with its own path. *)
THEOREM OthersKeptAlways == BuildSpec => OthersKept
BY BuildLosesNothing, BuildInvariant, PTL DEF BuildSpec, OthersKept, bvars, NothingLost

-----------------------------------------------------------------------------
(* What a startup needs of the builder, apart from SInv.                     *)

(* A group has a version with a priority.                                    *)
HasVersions(g) == g \in DOMAIN vp /\ ToSet(vp[g]) # {}

(* An API that was registered stays in the map.                              *)
CallsOK == \A i \in 1..Len(calls) : GVR(calls[i].object) \in DOMAIN APIs

(* Every group of a built object has a version with a priority, as soon as   *)
(* a Build has been through the scheme functions once.                       *)
VersionsOK ==
  ~panicked /\ (\A s \in Servers : Building(s) => cursor.scheme > 1) =>
    \A s \in Servers : \A o \in BuiltObjects(s) : HasVersions(o.group)

(* The two together.                                                         *)
GInv == CallsOK /\ VersionsOK

(* A group of APIs that was given its priorities has a version.              *)
LEMMA PriorityGiven ==
  ASSUME BInv, NEW s \in Servers, RunSetVersionPriority(s), ~panicked'
  PROVE  \A g \in Groups(DOMAIN APIs) : HasVersions(g)'
<1>1. PICK p \in Priorities(DOMAIN APIs) :
        Scheme' = [Prioritize(Scheme, p) EXCEPT !.observed = @ \cup ToSet(orderedGroupVersions[s])]
  BY DEF RunSetVersionPriority, BuildPriorities
<1>2. vp' = [g \in DOMAIN vp \cup DOMAIN p |-> IF g \in DOMAIN p THEN p[g] ELSE vp[g]]
  <2>1. IsScheme(Scheme)
    BY DEF BInv, Shapes
  <2> DEFINE new == ToSet(orderedGroupVersions[s])
             r == [Prioritize(Scheme, p) EXCEPT !.observed = @ \cup new]
  <2>2. r.versionPriority = [g \in DOMAIN vp \cup DOMAIN p |-> IF g \in DOMAIN p THEN p[g] ELSE vp[g]]
    BY <2>1 DEF Prioritize, IsScheme, vp
  <2>3. Scheme' = r
    BY <1>1
  <2> QED BY <2>2, <2>3, Zenon DEF vp
<1>3. /\ DOMAIN p = Groups(DOMAIN APIs)
      /\ \A g \in Groups(DOMAIN APIs) : ToSet(p[g]) = ExternalVersions(DOMAIN APIs, g)
  BY OrdersLemma DEF BInv, Shapes
<1>4. CanPrioritize(DOMAIN APIs)
  BY DEF RunSetVersionPriority
<1>5. ASSUME NEW g \in Groups(DOMAIN APIs) PROVE HasVersions(g)'
  <2>1. vp'[g] = p[g] /\ g \in DOMAIN vp'
    BY <1>2, <1>3
  <2>2. ToSet(vp'[g]) # {}
    BY <1>3, <1>4, <2>1 DEF CanPrioritize
  <2> QED BY <2>1, <2>2 DEF HasVersions
<1> QED BY <1>5

(* Only registered objects are built.                                        *)
LEMMA BuiltRegistered ==
  ASSUME FnsOK, NEW s \in Servers, NEW o \in BuiltObjects(s)
  PROVE  o \in Objects /\ o \in Registered
<1>1. PICK i \in 1..Len(schemeBuilder[s]) : schemeBuilder[s][i] = AddToSchemeFn(o)
  BY DEF BuiltObjects
<1>2. AddToSchemeFn(o) # SetVersionPriorityFn /\ \A x : AddToSchemeFn(o) = AddToSchemeFn(x) => x = o
  BY DEF AddToSchemeFn, SetVersionPriorityFn
<1> QED BY <1>1, <1>2 DEF FnsOK, BuiltObjects

(* The group of a registered object is one of APIs. *)
LEMMA RegisteredGroups ==
  ASSUME CallsOK, NEW o \in Registered
  PROVE  GVR(o) \in DOMAIN APIs /\ o.group \in Groups(DOMAIN APIs)
<1>1. GVR(o) \in DOMAIN APIs /\ GVR(o).group = o.group
  BY DEF CallsOK, Registered, GVR
<1> QED BY <1>1 DEF Groups

(* Nothing is registered at first.                                           *)
LEMMA GInitInv == BuildInit => GInv
<1> SUFFICES ASSUME BuildInit PROVE GInv
  OBVIOUS
<1>1. calls = << >> /\ \A s \in Servers : schemeBuilder[s] = << >>
  BY DEF BuildInit, RegInit
<1>2. Len(<< >>) = 0
  OBVIOUS
<1>3. CallsOK
  BY <1>1, <1>2 DEF CallsOK
<1>4. VersionsOK
  <2>1. \A s \in Servers : 1..Len(schemeBuilder[s]) = {}
    BY <1>1, <1>2
  <2>2. \A s \in Servers : BuiltObjects(s) = {}
    BY <2>1 DEF BuiltObjects
  <2> QED BY <2>2 DEF VersionsOK
<1> QED BY <1>3, <1>4 DEF GInv

(* A step that leaves the registries, and with them the built objects, and   *)
(* takes no priority away.                                                   *)
LEMMA GSame ==
  ASSUME GInv, UNCHANGED regVars, Kept, panicked => panicked',
         (\A s \in Servers : Building(s)' => cursor'.scheme > 1)
           => \A s \in Servers : Building(s) => cursor.scheme > 1
  PROVE  GInv'
<1>1. CallsOK'
  BY DEF GInv, CallsOK, regVars
<1>2. \A s : BuiltObjects(s)' = BuiltObjects(s)
  BY DEF BuiltObjects, regVars
<1>3. \A g : HasVersions(g) => HasVersions(g)'
  BY DEF HasVersions, Kept
<1>4. VersionsOK'
  BY <1>2, <1>3 DEF GInv, VersionsOK
<1> QED BY <1>1, <1>4 DEF GInv

(* An object registered after a Build is not yet a built one.                *)
LEMMA GRegister ==
  ASSUME SInv, GInv, NEW s \in Servers, NEW o \in Objects, NEW sp \in Providers, Register(s, o, sp)
  PROVE  GInv'
<1> DEFINE fns == schemeBuilder[s]
<1>1. WithResourceAndHandler(s, o, sp) /\ UNCHANGED buildVars /\ active = NoServer
  BY DEF Register, Idle
<1>2. CallsOK'
  <2>1. DOMAIN APIs' = DOMAIN APIs \cup {GVR(o)}
    BY <1>1 DEF WithResourceAndHandler, forGroupVersionResource, Put
  <2>2. Registered' = Registered \cup {o}
    BY <1>1, RegisteredGrows DEF SInv, RegInv
  <2>3. \A x \in Registered' : GVR(x) \in DOMAIN APIs'
    BY <2>1, <2>2, RegisteredGroups DEF GInv
  <2>4. \A i \in 1..Len(calls') : calls'[i].object \in Registered'
    BY DEF Registered
  <2> QED BY <2>3, <2>4 DEF CallsOK
<1>3. /\ fns \in Seq(SchemeFns) /\ AddToSchemeFn(o) \in SchemeFns
      /\ schemeBuilder' = [schemeBuilder EXCEPT ![s] = Append(@, AddToSchemeFn(o))]
      /\ DOMAIN schemeBuilder = Servers
  BY <1>1 DEF SInv, BInv, Shapes, SchemeFns, WithResourceAndHandler
<1>4. /\ schemeBuilder'[s] = Append(fns, AddToSchemeFn(o))
      /\ \A t \in Servers : t # s => schemeBuilder'[t] = schemeBuilder[t]
  BY <1>3
<1>5. /\ Len(fns) \in Nat /\ Len(schemeBuilder'[s]) = Len(fns) + 1
      /\ schemeBuilder'[s][Len(fns) + 1] = AddToSchemeFn(o)
      /\ \A i \in 1..Len(fns) : schemeBuilder'[s][i] = fns[i]
  BY <1>3, <1>4, AppendElements
<1>6. ASSUME NEW t \in Servers, NEW x \in BuiltObjects(t)' PROVE x \in BuiltObjects(t)
  <2>1. CASE t # s
    BY <1>4, <1>6, <2>1 DEF BuiltObjects
  <2>2. CASE t = s
    <3>1. PICK i, j \in 1..Len(schemeBuilder'[s]) :
            i < j /\ schemeBuilder'[s][i] = AddToSchemeFn(x) /\ schemeBuilder'[s][j] = SetVersionPriorityFn
      BY <1>6, <2>2 DEF BuiltObjects
    <3>2. AddToSchemeFn(o) # SetVersionPriorityFn
      BY DEF AddToSchemeFn, SetVersionPriorityFn
    <3>3. j # Len(fns) + 1
      BY <1>5, <3>1, <3>2
    <3>4. /\ i \in 1..Len(fns) /\ j \in 1..Len(fns)
          /\ schemeBuilder'[s][i] = fns[i] /\ schemeBuilder'[s][j] = fns[j]
      <4>1. Len(fns) \in Nat /\ i \in 1..(Len(fns) + 1) /\ j \in 1..(Len(fns) + 1)
        BY <1>5
      <4>2. i \in 1..Len(fns) /\ j \in 1..Len(fns)
        BY <3>1, <3>3, <4>1
      <4> QED BY <1>5, <4>2
    <3>5. x \in Objects
      BY <1>6 DEF BuiltObjects
    <3> QED BY <2>2, <3>1, <3>4, <3>5 DEF BuiltObjects
  <2> QED BY <2>1, <2>2
<1>7. \A t \in Servers : ~Building(t)
  BY <1>1, BuilderAssumption DEF Building
<1>8. \A g : HasVersions(g)' <=> HasVersions(g)
  BY <1>1 DEF HasVersions, vp, buildVars
<1>9. VersionsOK'
  <2>1. panicked' = panicked
    BY <1>1 DEF buildVars
  <2> QED BY <1>6, <1>7, <1>8, <2>1 DEF GInv, VersionsOK
<1> QED BY <1>2, <1>9 DEF GInv

(* Every step of the builder keeps it: the priority function gives versions  *)
(* to the groups of all registered objects.                                  *)
LEMMA GStep ==
  ASSUME SInv, GInv, [BuildNext]_bvars
  PROVE  GInv'
<1>1. Kept
  BY BuildStepKeeps DEF SInv
<1>2. CASE UNCHANGED <<regVars, phase, active, cursor, panicked>>
  BY <1>1, <1>2, GSame DEF Building
<1>3. ASSUME NEW s \in Servers, Build(s) PROVE GInv'
  <2>1. /\ UNCHANGED <<calls, APIs>> /\ cursor'.scheme = 1 /\ active' = s
        /\ phase' = [phase EXCEPT ![s] = "building"]
    BY <1>3 DEF Build
  <2>2. CallsOK'
    BY <2>1 DEF GInv, CallsOK
  <2>3. Building(s)' /\ ~(cursor'.scheme > 1)
    BY <2>1 DEF Building, SInv, BInv, Shapes
  <2>4. VersionsOK'
    BY <2>3 DEF VersionsOK
  <2> QED BY <2>2, <2>4 DEF GInv
<1>4. ASSUME NEW s \in Servers, RunAddToScheme(s) PROVE GInv'
  <2>1. /\ AddingToScheme(s) /\ AdvanceCursor(s) /\ CurrentFn(s).fn = "AddToScheme"
        /\ UNCHANGED <<phase, active, regVars>> /\ ~panicked
    BY <1>4 DEF RunAddToScheme, AddingToScheme
  <2>2. active = s /\ phase[s] = "building" /\ \A t \in Servers : Building(t) <=> t = s
    BY <2>1 DEF AddingToScheme, Building
  <2>3. cursor'.scheme > 1 => cursor.scheme > 1
    BY <2>1, CursorLemma DEF SInv, SetVersionPriorityFn
  <2>4. \A t \in Servers : Building(t)' <=> Building(t)
    BY <2>1 DEF Building
  <2> QED BY <1>1, <2>1, <2>2, <2>3, <2>4, GSame
<1>5. ASSUME NEW s \in Servers, RunSetVersionPriority(s) PROVE GInv'
  <2>1. UNCHANGED regVars
    BY <1>5 DEF RunSetVersionPriority
  <2>2. CallsOK'
    BY <2>1 DEF GInv, CallsOK, regVars
  <2>3. ASSUME ~panicked', NEW t \in Servers, NEW o \in BuiltObjects(t)'
        PROVE  HasVersions(o.group)'
    <3>1. o \in BuiltObjects(t)
      BY <2>1, <2>3 DEF BuiltObjects, regVars
    <3>2. o.group \in Groups(DOMAIN APIs)
      BY <3>1, BuiltRegistered, RegisteredGroups DEF GInv, SInv, KInv
    <3> QED BY <1>5, <2>3, <3>2, PriorityGiven DEF SInv
  <2>4. VersionsOK'
    BY <2>3 DEF VersionsOK
  <2> QED BY <2>2, <2>4 DEF GInv
<1>6. ASSUME NEW s \in Servers, FinishBuild(s) PROVE GInv'
  <2>1. /\ UNCHANGED <<Scheme, cursor, regVars>>
        /\ active = s /\ ~panicked /\ cursor.scheme > Schemes[s] /\ phase[s] = "building"
    BY <1>6 DEF FinishBuild
  <2>2. cursor.scheme > 1
    BY <2>1 DEF SInv, BInv, Shapes, BuildOK, Building
  <2> QED BY <1>1, <2>1, <2>2, GSame
<1>7. ASSUME NEW s \in Servers, NEW o \in Objects, NEW sp \in Providers, Register(s, o, sp)
      PROVE  GInv'
  BY <1>7, GRegister
<1>8. UNCHANGED <<regVars, phase, active, cursor, panicked>>
        \/ ~(\/ \E s \in Servers, path \in EtcdPaths : WithEtcdPath(s, path)
             \/ \E f \in FlagFns : WithFlagFns(f)
             \/ UNCHANGED bvars)
  BY DEF WithEtcdPath, WithFlagFns, bvars, buildVars
<1> QED BY <1>2, <1>3, <1>4, <1>5, <1>6, <1>7, <1>8 DEF BuildNext, Configure, BuildStep
=============================================================================
