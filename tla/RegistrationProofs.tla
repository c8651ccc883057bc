------------------------ MODULE RegistrationProofs ------------------------
(***************************************************************************)
(* Proofs about Registration, for any objects, servers and providers and   *)
(* any number of calls.  OrderedIsExternal and APIsBacked are inductive    *)
(* with the types; RegistriesAgree is not: nothing in it says where the    *)
(* providers in the two maps come from.  FromCalls does.                   *)
(***************************************************************************)
EXTENDS Registration, TLAPS

(* Every provider in APIs and among the singletons was handed over in a call *)
(* for that resource, respectively that group resource.                      *)
FromCalls ==
  /\ \A gvr \in DOMAIN APIs : \E i \in 1..Len(calls) :
       GVR(calls[i].object) = gvr /\ calls[i].provider = APIs[gvr]
  /\ \A s \in Servers : \A gr \in DOMAIN StorageProvider[s] : \E i \in 1..Len(calls) :
       GR(GVR(calls[i].object)) = gr /\ calls[i].provider = StorageProvider[s][gr]

(* The strengthening.                                                        *)
RegInv == RegTypeOK /\ OrderedIsExternal /\ APIsBacked /\ FromCalls

-----------------------------------------------------------------------------
(* An assignment to a map keeps its type.                                    *)
LEMMA PutType ==
  ASSUME NEW S, NEW T, NEW m \in Maps(S, T), NEW k \in S, NEW v \in T
  PROVE  Put(m, k, v) \in Maps(S, T)
<1>1. PICK D \in SUBSET S : m \in [D -> T]
  BY DEF Maps
<1>2. D \cup {k} \in SUBSET S /\ Put(m, k, v) \in [D \cup {k} -> T]
  BY <1>1 DEF Put
<1> QED BY <1>2 DEF Maps

(* Appending keeps the elements before it. *)
LEMMA AppendElements ==
  ASSUME NEW S, NEW q \in Seq(S), NEW e \in S
  PROVE  /\ Append(q, e) \in Seq(S)
         /\ Len(Append(q, e)) = Len(q) + 1
         /\ Append(q, e)[Len(q) + 1] = e
         /\ \A i \in 1..Len(q) : Append(q, e)[i] = q[i]
  OBVIOUS

(* The keys of an object are keys. *)
LEMMA Keys ==
  ASSUME NEW o \in Objects
  PROVE  GVR(o) \in GVRs /\ GV(GVR(o)) \in GVs /\ GR(GVR(o)) \in GRs
  BY DEF GVRs, GVs, GRs

-----------------------------------------------------------------------------
(* The registries start with their types. *)
LEMMA RegInitInv == RegInit => RegInv
<1> SUFFICES ASSUME RegInit PROVE RegInv
  OBVIOUS
<1>1. \A S, T : EmptyMap \in Maps(S, T)
  BY DEF EmptyMap, Maps
<1>2. RegTypeOK
  BY <1>1 DEF RegInit, RegTypeOK
<1>3. DOMAIN EmptyMap = {}
  BY DEF EmptyMap
<1>4. OrderedIsExternal /\ APIsBacked /\ FromCalls
  BY <1>3 DEF RegInit, OrderedIsExternal, APIsBacked, FromCalls
<1> QED BY <1>2, <1>4 DEF RegInv

(* A registration keeps the types. *)
LEMMA RegTypeStep ==
  ASSUME RegTypeOK, NEW s \in Servers, NEW o \in Objects, NEW sp \in Providers,
         WithResourceAndHandler(s, o, sp)
  PROVE  RegTypeOK'
<1> USE DEF WithResourceAndHandler, forGroupVersionResource, RegTypeOK
<1>1. APIs' \in Maps(GVRs, Providers)
  BY PutType, Keys
<1>2. StorageProvider' \in [Servers -> Maps(GRs, Providers)]
  BY PutType, Keys DEF registerSingleton
<1>3. groupVersions' \in [Servers -> SUBSET GVs]
  BY Keys DEF withGroupVersions
<1>4. orderedGroupVersions' \in [Servers -> Seq(GVs)]
  BY Keys, AppendElements DEF withGroupVersions
<1>5. schemeBuilder' \in [Servers -> Seq(SchemeFns)]
  BY AppendElements DEF SchemeFns
<1>6. calls' \in Seq([server : Servers, object : Objects, provider : Providers])
  BY AppendElements
<1> QED BY <1>1, <1>2, <1>3, <1>4, <1>5, <1>6

(* withGroupVersions appends an external version the first time it is seen.  *)
LEMMA OrderedStep ==
  ASSUME RegTypeOK, OrderedIsExternal,
         NEW s \in Servers, NEW gv \in GVs, withGroupVersions(s, gv)
  PROVE  OrderedIsExternal'
<1> USE DEF withGroupVersions, RegTypeOK, OrderedIsExternal
<1> SUFFICES ASSUME NEW t \in Servers
             PROVE  LET ogv == orderedGroupVersions'[t]
                    IN  /\ {ogv[i] : i \in 1..Len(ogv)} =
                              {x \in groupVersions'[t] : x.version # APIVersionInternal}
                        /\ \A i, j \in 1..Len(ogv) : ogv[i] = ogv[j] => i = j
  OBVIOUS
<1> DEFINE old == orderedGroupVersions[t]
           new == orderedGroupVersions'[t]
<1>1. CASE t # s
  BY <1>1
<1>2. CASE t = s /\ (gv \in groupVersions[s] \/ gv.version = APIVersionInternal)
  <2>1. new = old
    BY <1>2
  <2>2. {x \in groupVersions'[t] : x.version # APIVersionInternal} =
          {x \in groupVersions[t] : x.version # APIVersionInternal}
    BY <1>2
  <2> QED BY <2>1, <2>2
<1>3. CASE t = s /\ gv \notin groupVersions[s] /\ gv.version # APIVersionInternal
  <2>1. new = Append(old, gv) /\ old \in Seq(GVs)
    BY <1>3
  <2>2. /\ Len(new) = Len(old) + 1 /\ Len(old) \in Nat
        /\ new[Len(old) + 1] = gv
        /\ \A i \in 1..Len(old) : new[i] = old[i]
    BY <2>1, AppendElements
  <2>3. {x \in groupVersions'[t] : x.version # APIVersionInternal} =
          {x \in groupVersions[t] : x.version # APIVersionInternal} \cup {gv}
    BY <1>3
  <2>4. {new[i] : i \in 1..Len(new)} = {old[i] : i \in 1..Len(old)} \cup {gv}
    <3>1. 1..Len(new) = (1..Len(old)) \cup {Len(old) + 1}
      BY <2>2
    <3> QED BY <2>2, <3>1
  <2>5. gv \notin {old[i] : i \in 1..Len(old)}
    BY <1>3
  <2>6. ASSUME NEW i \in 1..Len(new), NEW j \in 1..Len(new), new[i] = new[j]
        PROVE  i = j
    <3>1. CASE i \in 1..Len(old) /\ j \in 1..Len(old)
      BY <2>2, <2>6, <3>1
    <3>2. CASE i = Len(old) + 1 /\ j \in 1..Len(old)
      BY <2>2, <2>5, <2>6, <3>2
    <3>3. CASE i \in 1..Len(old) /\ j = Len(old) + 1
      BY <2>2, <2>5, <2>6, <3>3
    <3> QED BY <2>2, <3>1, <3>2, <3>3
  <2> QED BY <2>3, <2>4, <2>6
<1> QED BY <1>1, <1>2, <1>3

(* The call that writes an entry of APIs writes all that backs it, and no    *)
(* call removes a group version, a singleton or a scheme function.           *)
LEMMA BackedStep ==
  ASSUME RegTypeOK, APIsBacked, NEW s \in Servers, NEW o \in Objects,
         NEW sp \in Providers, WithResourceAndHandler(s, o, sp)
  PROVE  APIsBacked'
<1> USE DEF WithResourceAndHandler, forGroupVersionResource, RegTypeOK
<1> DEFINE Backed(t, gvr) ==
             /\ GV(gvr) \in groupVersions[t]
             /\ GR(gvr) \in DOMAIN StorageProvider[t]
             /\ \E i \in 1..Len(schemeBuilder[t]) :
                  \E x \in Objects : schemeBuilder[t][i] = AddToSchemeFn(x) /\ GVR(x) = gvr
<1>1. Backed(s, GVR(o))'
  <2>1. GV(GVR(o)) \in groupVersions'[s]
    BY DEF withGroupVersions
  <2>2. GR(GVR(o)) \in DOMAIN StorageProvider'[s]
    BY DEF registerSingleton, Put
  <2>3. schemeBuilder[s] \in Seq(SchemeFns) /\ AddToSchemeFn(o) \in SchemeFns
    BY DEF SchemeFns
  <2>4. schemeBuilder'[s] = Append(schemeBuilder[s], AddToSchemeFn(o))
    OBVIOUS
  <2>5. /\ Len(schemeBuilder'[s]) \in 1..Len(schemeBuilder'[s])
        /\ schemeBuilder'[s][Len(schemeBuilder'[s])] = AddToSchemeFn(o)
    BY <2>3, <2>4, AppendElements
  <2> QED BY <2>1, <2>2, <2>5
<1>2. ASSUME NEW t \in Servers, NEW gvr, Backed(t, gvr)
      PROVE  Backed(t, gvr)'
  <2>1. GV(gvr) \in groupVersions'[t]
    BY <1>2 DEF withGroupVersions
  <2>2. GR(gvr) \in DOMAIN StorageProvider'[t]
    BY <1>2 DEF registerSingleton, Put
  <2>3. /\ Len(schemeBuilder[t]) \in Nat
        /\ Len(schemeBuilder'[t]) >= Len(schemeBuilder[t])
        /\ \A i \in 1..Len(schemeBuilder[t]) : schemeBuilder'[t][i] = schemeBuilder[t][i]
    <3>1. schemeBuilder[t] \in Seq(SchemeFns) /\ AddToSchemeFn(o) \in SchemeFns
      BY DEF SchemeFns
    <3>2. \/ schemeBuilder'[t] = schemeBuilder[t]
          \/ schemeBuilder'[t] = Append(schemeBuilder[t], AddToSchemeFn(o))
      OBVIOUS
    <3> QED BY <3>1, <3>2, AppendElements
  <2>4. PICK i \in 1..Len(schemeBuilder[t]) :
          \E x \in Objects : schemeBuilder[t][i] = AddToSchemeFn(x) /\ GVR(x) = gvr
    BY <1>2
  <2>5. i \in 1..Len(schemeBuilder'[t]) /\ schemeBuilder'[t][i] = schemeBuilder[t][i]
    BY <2>3
  <2> QED BY <2>1, <2>2, <2>4, <2>5
<1>3. DOMAIN APIs' = DOMAIN APIs \cup {GVR(o)}
  BY DEF Put
<1>4. \A gvr \in DOMAIN APIs' : \E t \in Servers : Backed(t, gvr)'
  <2> SUFFICES ASSUME NEW gvr \in DOMAIN APIs'
               PROVE  \E t \in Servers : Backed(t, gvr)'
    OBVIOUS
  <2>1. CASE gvr = GVR(o)
    BY ONLY <1>1, <2>1
  <2>2. CASE gvr \in DOMAIN APIs
    <3>1. PICK t \in Servers : Backed(t, gvr)
      BY <2>2 DEF APIsBacked
    <3>2. Backed(t, gvr)'
      BY ONLY <1>2, <3>1
    <3> QED BY ONLY <3>2
  <2> QED BY <1>3, <2>1, <2>2
<1> QED BY ONLY <1>4 DEF APIsBacked

(* A provider put in either map is the one of the call just recorded.        *)
LEMMA FromCallsStep ==
  ASSUME RegTypeOK, FromCalls, NEW s \in Servers, NEW o \in Objects,
         NEW sp \in Providers, WithResourceAndHandler(s, o, sp)
  PROVE  FromCalls'
<1> USE DEF WithResourceAndHandler, forGroupVersionResource, RegTypeOK
<1> DEFINE call == [server |-> s, object |-> o, provider |-> sp]
           n == Len(calls) + 1
<1>1. /\ Len(calls) \in Nat /\ Len(calls') = n
      /\ calls'[n] = call
      /\ \A i \in 1..Len(calls) : calls'[i] = calls[i]
  BY AppendElements
<1>2. n \in 1..Len(calls') /\ calls'[n].object = o /\ calls'[n].provider = sp
  BY <1>1
<1>3. \A i \in 1..Len(calls) : i \in 1..Len(calls') /\ calls'[i] = calls[i]
  BY <1>1
<1>4. ASSUME NEW gvr \in DOMAIN APIs'
      PROVE  \E i \in 1..Len(calls') :
               GVR(calls'[i].object) = gvr /\ calls'[i].provider = APIs'[gvr]
  <2>1. CASE gvr = GVR(o)
    BY <1>2, <2>1 DEF Put
  <2>2. CASE gvr # GVR(o)
    <3>1. gvr \in DOMAIN APIs /\ APIs'[gvr] = APIs[gvr]
      BY <1>4, <2>2 DEF Put
    <3> QED BY <1>3, <3>1 DEF FromCalls
  <2> QED BY <2>1, <2>2
<1>5. ASSUME NEW t \in Servers, NEW gr \in DOMAIN StorageProvider'[t]
      PROVE  \E i \in 1..Len(calls') :
               GR(GVR(calls'[i].object)) = gr /\ calls'[i].provider = StorageProvider'[t][gr]
  <2>1. CASE gr \in DOMAIN StorageProvider[t]
    <3>1. StorageProvider'[t][gr] = StorageProvider[t][gr]
      BY <2>1 DEF registerSingleton, Put
    <3> QED BY <1>3, <2>1, <3>1 DEF FromCalls
  <2>2. CASE gr \notin DOMAIN StorageProvider[t]
    <3>1. gr = GR(GVR(o)) /\ StorageProvider'[t][gr] = sp
      BY <1>5, <2>2 DEF registerSingleton, Put
    <3> QED BY <1>2, <3>1
  <2> QED BY <2>1, <2>2
<1> QED BY <1>4, <1>5 DEF FromCalls

-----------------------------------------------------------------------------
(* RegInv is an inductive invariant of the registration. *)
THEOREM Inductive == RegSpec => []RegInv
<1>1. RegInv /\ [RegNext]_regVars => RegInv'
  <2> SUFFICES ASSUME RegInv, [RegNext]_regVars PROVE RegInv'
    OBVIOUS
  <2>1. ASSUME NEW s \in Servers, NEW o \in Objects, NEW sp \in Providers,
               WithResourceAndHandler(s, o, sp)
        PROVE  RegInv'
    <3>1. OrderedIsExternal'
      BY <2>1, Keys, OrderedStep DEF RegInv, WithResourceAndHandler, forGroupVersionResource
    <3> QED BY <2>1, <3>1, RegTypeStep, BackedStep, FromCallsStep DEF RegInv
  <2>2. CASE UNCHANGED regVars
    <3> USE <2>2 DEF regVars, RegInv
    <3>1. RegTypeOK'
      BY DEF RegTypeOK
    <3>2. OrderedIsExternal'
      BY DEF OrderedIsExternal
    <3>3. APIsBacked'
      BY DEF APIsBacked
    <3>4. FromCalls'
      BY DEF FromCalls
    <3> QED BY <3>1, <3>2, <3>3, <3>4
  <2> QED BY <2>1, <2>2 DEF RegNext
<1> QED BY RegInitInv, <1>1, PTL DEF RegSpec

(* The registries keep their types. *)
THEOREM RegTypeCorrect == RegSpec => []RegTypeOK
<1>1. RegInv => RegTypeOK
  BY DEF RegInv
<1> QED BY Inductive, <1>1, PTL

(* The codec's version list is exactly the external group versions.          *)
THEOREM OrderedCorrect == RegSpec => []OrderedIsExternal
<1>1. RegInv => OrderedIsExternal
  BY DEF RegInv
<1> QED BY Inductive, <1>1, PTL

(* The four registries that one call writes never drift apart.               *)
THEOREM BackedCorrect == RegSpec => []APIsBacked
<1>1. RegInv => APIsBacked
  BY DEF RegInv
<1> QED BY Inductive, <1>1, PTL

(* Both entries of a group resource come from calls, which agree if the      *)
(* callers keep to one provider.                                             *)
LEMMA Agreement == RegInv => RegistriesAgree
<1> SUFFICES ASSUME RegInv, OneProviderPerGroupResource,
                    NEW gvr \in DOMAIN APIs, NEW s \in Servers,
                    GR(gvr) \in DOMAIN StorageProvider[s]
             PROVE  APIs[gvr] = StorageProvider[s][GR(gvr)]
  BY DEF RegistriesAgree
<1>1. PICK i \in 1..Len(calls) :
        GVR(calls[i].object) = gvr /\ calls[i].provider = APIs[gvr]
  BY DEF RegInv, FromCalls
<1>2. PICK j \in 1..Len(calls) :
        /\ GR(GVR(calls[j].object)) = GR(gvr)
        /\ calls[j].provider = StorageProvider[s][GR(gvr)]
  BY DEF RegInv, FromCalls
<1> QED BY <1>1, <1>2 DEF OneProviderPerGroupResource

(* With one provider for each group resource, APIs and the singletons name   *)
(* the same one.                                                             *)
THEOREM AgreementCorrect == RegSpec => []RegistriesAgree
BY Inductive, Agreement, PTL

(* No registration replaces or removes a singleton. *)
THEOREM SingletonsKept == RegSpec => SingletonKept
<1>1. RegInv /\ [RegNext]_regVars =>
        [\A s \in Servers : \A gr \in DOMAIN StorageProvider[s] :
           /\ gr \in DOMAIN StorageProvider'[s]
           /\ StorageProvider'[s][gr] = StorageProvider[s][gr]]_regVars
  <2> SUFFICES ASSUME RegInv, NEW t \in Servers, NEW o \in Objects, NEW sp \in Providers,
                      WithResourceAndHandler(t, o, sp),
                      NEW s \in Servers, NEW gr \in DOMAIN StorageProvider[s]
               PROVE  /\ gr \in DOMAIN StorageProvider'[s]
                      /\ StorageProvider'[s][gr] = StorageProvider[s][gr]
    BY DEF RegNext
  <2> QED BY DEF Put, RegInv, RegTypeOK, WithResourceAndHandler,
                           forGroupVersionResource, registerSingleton
<1> QED BY Inductive, <1>1, PTL DEF RegSpec, SingletonKept
=============================================================================
