------------------------ MODULE ObjectUpdatesProofs ------------------------
(***************************************************************************)
(* Proofs about ObjectUpdates, for any number of writers, any types and    *)
(* any size of the int.  The strengthening numbers the accepted writes:    *)
(* the object that the n-th write left has the version and the generation  *)
(* VersionOf(n), which differ as long as the versions do not come round.   *)
(***************************************************************************)
EXTENDS ObjectUpdates, TLAPS

(* The version after n writes, which wraps around.                           *)
VersionOf(n) == IF Start + n > MaxInt THEN Start + n - (2 * MaxInt + 2) ELSE Start + n

(* An object that the store had when n writes were accepted. *)
Numbered(o, n) == o.rv # Unset => o.rv = VersionOf(n) /\ o.gen = VersionOf(n)

(* What a writer that has read still knows.                                  *)
ReadOK(w) ==
  /\ readAt[w] <= writes
  /\ readAt[w] = writes => old[w] = stored
  /\ old[w].rv = Unset <=> stored.rv = Unset
  /\ Numbered(old[w], readAt[w])

(* What a writer that is stamping its object, or has, knows.                 *)
StampedOK(w) ==
  /\ pc[w] # "idle" => obj[w].from = w
  /\ pc[w] \in {"versioned", "stamped"} =>
       /\ old[w].rv # Unset
       /\ obj[w].rv = Increment(old[w].rv)
  /\ pc[w] = "stamped" => obj[w].gen = Increment(old[w].gen)

(* The stored version counts the writes.                                     *)
VersionsOK ==
  /\ Numbered(stored, writes)
  /\ stored.rv = Unset => writes = 0
  /\ \A w \in Writers : ReadOK(w) /\ StampedOK(w)

(* The strengthening.                                                        *)
IInv == TypeOK /\ VersionsOK

(* The versions run through the ints and do not repeat before they have come *)
(* round.                                                                    *)
LEMMA VersionLemma ==
  /\ \A n \in 0..(2 * MaxInt + 1) : VersionOf(n) \in Ints /\ VersionOf(n + 1) = Increment(VersionOf(n))
  /\ \A m, n \in 0..(2 * MaxInt + 1) : VersionOf(m) = VersionOf(n) => m = n
  /\ VersionOf(0) = Start
<1>1. MaxInt \in Nat /\ Start \in Int /\ -MaxInt - 1 <= Start /\ Start <= MaxInt
  BY UpdatesAssumption DEF Ints, MinInt
<1>2. ASSUME NEW n \in 0..(2 * MaxInt + 1)
      PROVE  VersionOf(n) \in Ints /\ VersionOf(n + 1) = Increment(VersionOf(n))
  BY <1>1 DEF VersionOf, Increment, Ints, MinInt
<1>3. ASSUME NEW m \in 0..(2 * MaxInt + 1), NEW n \in 0..(2 * MaxInt + 1),
             VersionOf(m) = VersionOf(n)
      PROVE  m = n
  BY <1>1, <1>3 DEF VersionOf
<1>4. VersionOf(0) = Start
  BY <1>1 DEF VersionOf
<1> QED BY <1>2, <1>3, <1>4

(* The next version is a version and is not the unset one.                   *)
LEMMA IncrementLemma == \A n \in Ints : Increment(n) \in Ints /\ Increment(n) # Unset
BY UpdatesAssumption DEF Increment, Ints, MinInt

(* The strengthening holds at first.                                         *)
LEMMA UpdatesInit == Init => IInv
<1> SUFFICES ASSUME Init PROVE IInv
  OBVIOUS
<1>1. stored \in Objects /\ writes = 0 /\ stored.gen = Start
  BY UpdatesAssumption DEF Init, Objects
<1>2. TypeOK
  <2>1. 0 \in 0..MaxWrites
    BY UpdatesAssumption
  <2> QED BY <1>1, <2>1 DEF Init, TypeOK, Places
<1>3. Numbered(stored, 0)
  BY VersionLemma DEF Init, Numbered
<1>4. VersionsOK
  BY <1>1, <1>3 DEF Init, VersionsOK, ReadOK, StampedOK
<1> QED BY <1>2, <1>4 DEF IInv

(* An accepted write is the next number.                                     *)
LEMMA AcceptedLemma ==
  ASSUME IInv, NEW w \in Writers, pc[w] = "stamped", old[w].rv = stored.rv
  PROVE  /\ old[w] = stored /\ stored.rv # Unset
         /\ obj[w].rv = Increment(stored.rv) /\ obj[w].gen = Increment(stored.gen)
         /\ Numbered(obj[w], writes + 1)
<1>1. stored.rv # Unset
  BY DEF IInv, VersionsOK, StampedOK
<1>2. readAt[w] \in 0..(2 * MaxInt + 1) /\ writes \in 0..(2 * MaxInt + 1)
  BY UpdatesAssumption DEF IInv, TypeOK
<1>3. VersionOf(readAt[w]) = VersionOf(writes)
  BY <1>1 DEF IInv, VersionsOK, ReadOK, Numbered
<1>4. readAt[w] = writes
  BY <1>2, <1>3, VersionLemma
<1>5. old[w] = stored
  BY <1>4 DEF IInv, VersionsOK, ReadOK
<1>6. obj[w].rv = Increment(stored.rv) /\ obj[w].gen = Increment(stored.gen)
  BY <1>5 DEF IInv, VersionsOK, StampedOK
<1>7. stored.rv = VersionOf(writes) /\ stored.gen = VersionOf(writes)
  BY <1>1 DEF IInv, VersionsOK, Numbered
<1>8. Increment(VersionOf(writes)) = VersionOf(writes + 1)
  BY <1>2, VersionLemma
<1>9. Numbered(obj[w], writes + 1)
  BY <1>6, <1>7, <1>8 DEF Numbered
<1> QED BY <1>1, <1>5, <1>6, <1>9

(* Every step of a writer keeps it.                                          *)
LEMMA UpdatesStep == IInv /\ [Next]_vars => IInv'
<1> SUFFICES ASSUME IInv, [Next]_vars PROVE IInv'
  OBVIOUS
<1>1. ASSUME NEW w \in Writers, Read(w) PROVE IInv'
  <2>1. Sent(w) \subseteq Objects
    BY UpdatesAssumption DEF Sent, Objects, Ints, MinInt
  <2>2. TypeOK'
    BY <1>1, <2>1 DEF IInv, TypeOK, Read, At, Goto, Places
  <2>3. ASSUME NEW v \in Writers PROVE ReadOK(v)' /\ StampedOK(v)'
    <3>1. CASE v = w
      <4>1. old'[v] = stored /\ readAt'[v] = writes /\ pc'[v] = "read" /\ obj'[v].from = w
        <5>1. obj'[w] \in Sent(w) \/ (pc[w] = "refused" /\ obj'[w] = obj[w])
          BY <1>1 DEF IInv, TypeOK, Read, At, Goto, Places
        <5>2. obj'[w].from = w
          BY <5>1 DEF Sent, IInv, VersionsOK, StampedOK
        <5> QED BY <1>1, <3>1, <5>2 DEF IInv, TypeOK, Read, At, Goto, Places
      <4>2. UNCHANGED <<stored, writes>>
        BY <1>1 DEF Read
      <4> QED BY <3>1, <4>1, <4>2 DEF IInv, TypeOK, VersionsOK, ReadOK, StampedOK, Numbered
    <3>2. CASE v # w
      <4>1. /\ old'[v] = old[v] /\ readAt'[v] = readAt[v] /\ pc'[v] = pc[v] /\ obj'[v] = obj[v]
            /\ UNCHANGED <<stored, writes>>
        BY <1>1, <3>2 DEF IInv, TypeOK, Read, At, Goto, Places
      <4> QED BY <4>1 DEF IInv, VersionsOK, ReadOK, StampedOK, Numbered
    <3> QED BY <3>1, <3>2
  <2>4. VersionsOK'
    BY <1>1, <2>3 DEF IInv, VersionsOK, Read, Numbered
  <2> QED BY <2>2, <2>4 DEF IInv
<1>2. ASSUME NEW w \in Writers, DeepCopy(w) PROVE IInv'
  <2>1. [old[w] EXCEPT !.from = w] \in Objects
    BY DEF IInv, TypeOK, Objects
  <2>2. obj' \in [Writers -> Objects]
    BY <1>2, <2>1 DEF IInv, TypeOK, DeepCopy
  <2>3. pc' \in [Writers -> Places] /\ pc'[w] \in {"read", "rejected", "panicked"}
    BY <1>2 DEF IInv, TypeOK, DeepCopy, HasMethod, checkSignature, At, Places
  <2>4. TypeOK'
    BY <1>2, <2>2, <2>3 DEF IInv, TypeOK, DeepCopy
  <2>5. ASSUME NEW v \in Writers PROVE ReadOK(v)' /\ StampedOK(v)'
    <3>1. UNCHANGED <<stored, writes, old, readAt>>
      BY <1>2 DEF DeepCopy
    <3>2. v # w => pc'[v] = pc[v] /\ obj'[v] = obj[v]
      BY <1>2 DEF IInv, TypeOK, DeepCopy
    <3>3. obj'[w].from = w
      <4>1. obj[w].from = w /\ old[w] \in Objects
        BY <1>2 DEF IInv, TypeOK, VersionsOK, StampedOK, DeepCopy, At
      <4> QED BY <1>2, <4>1 DEF IInv, TypeOK, DeepCopy, Objects
    <3> QED BY <2>3, <3>1, <3>2, <3>3 DEF IInv, VersionsOK, ReadOK, StampedOK, Numbered
  <2>6. VersionsOK'
    BY <1>2, <2>5 DEF IInv, VersionsOK, DeepCopy, Numbered
  <2> QED BY <2>4, <2>6 DEF IInv
<1>3. ASSUME NEW w \in Writers, Access(w) PROVE IInv'
  <2>1. pc[w] = "read" /\ pc' \in [Writers -> Places] /\ pc'[w] \in {"accessed", "rejected"}
    BY <1>3 DEF IInv, TypeOK, Access, At, Goto, Places
  <2>2. /\ UNCHANGED <<stored, writes, old, readAt, obj>>
        /\ before' = [before EXCEPT ![w] = obj[w]]
        /\ \A v \in Writers : v # w => pc'[v] = pc[v]
    BY <1>3 DEF IInv, TypeOK, Access, Goto
  <2>3. TypeOK'
    BY <2>1, <2>2 DEF IInv, TypeOK
  <2>4. VersionsOK'
    BY <2>1, <2>2 DEF IInv, VersionsOK, ReadOK, StampedOK, Numbered
  <2> QED BY <2>3, <2>4 DEF IInv
<1>4. ASSUME NEW w \in Writers, SetVersion(w) PROVE IInv'
  <2>1. pc[w] = "accessed" /\ UNCHANGED <<stored, writes, old, readAt, before>>
    BY <1>4 DEF SetVersion, At
  <2>2. CASE old[w].rv = Unset
    <3>1. pc' = [pc EXCEPT ![w] = "rejected"] /\ UNCHANGED obj
      BY <1>4, <2>2 DEF SetVersion, Rejects, Goto
    <3>2. TypeOK'
      BY <2>1, <3>1 DEF IInv, TypeOK, Places
    <3>3. VersionsOK'
      BY <2>1, <3>1 DEF IInv, TypeOK, VersionsOK, ReadOK, StampedOK, Numbered
    <3> QED BY <3>2, <3>3 DEF IInv
  <2>3. CASE old[w].rv # Unset
    <3>1. /\ pc' = [pc EXCEPT ![w] = "versioned"]
          /\ obj' = [obj EXCEPT ![w] = [obj[w] EXCEPT !.rv = Increment(old[w].rv)]]
      BY <1>4, <2>3 DEF SetVersion, Rejects, Goto, updateResourceVersion
    <3>2. old[w] \in Objects /\ obj[w] \in Objects
      BY DEF IInv, TypeOK
    <3>3. Increment(old[w].rv) \in Ints
      BY <2>3, <3>2, IncrementLemma DEF Objects
    <3>4. [obj[w] EXCEPT !.rv = Increment(old[w].rv)] \in Objects
      BY <3>2, <3>3 DEF Objects
    <3>5. TypeOK'
      BY <2>1, <3>1, <3>4 DEF IInv, TypeOK, Places
    <3>6. obj'[w].rv = Increment(old[w].rv) /\ obj'[w].from = obj[w].from
      BY <3>1, <3>2 DEF IInv, TypeOK, Objects
    <3>7. StampedOK(w)'
      BY <2>1, <2>3, <3>1, <3>6 DEF IInv, TypeOK, VersionsOK, StampedOK
    <3>8. VersionsOK'
      BY <2>1, <3>1, <3>7 DEF IInv, TypeOK, VersionsOK, ReadOK, StampedOK, Numbered
    <3> QED BY <3>5, <3>8 DEF IInv
  <2> QED BY <2>2, <2>3
<1>5. ASSUME NEW w \in Writers, SetGeneration(w) PROVE IInv'
  <2>1. /\ pc[w] = "versioned" /\ UNCHANGED <<stored, writes, old, readAt, before>>
        /\ pc' = [pc EXCEPT ![w] = "stamped"]
        /\ obj' = [obj EXCEPT ![w] = [obj[w] EXCEPT !.gen = Increment(old[w].gen)]]
    BY <1>5 DEF SetGeneration, At, Goto, updateGeneration
  <2>2. old[w] \in Objects /\ obj[w] \in Objects
    BY DEF IInv, TypeOK
  <2>3. Increment(old[w].gen) \in Ints
    BY <2>2, IncrementLemma DEF Objects
  <2>4. [obj[w] EXCEPT !.gen = Increment(old[w].gen)] \in Objects
    BY <2>2, <2>3 DEF Objects
  <2>5. TypeOK'
    BY <2>1, <2>4 DEF IInv, TypeOK, Places
  <2>6. /\ obj'[w].gen = Increment(old[w].gen)
        /\ obj'[w].rv = obj[w].rv /\ obj'[w].from = obj[w].from
    BY <2>1, <2>2 DEF IInv, TypeOK, Objects
  <2>7. StampedOK(w)'
    BY <2>1, <2>6 DEF IInv, TypeOK, VersionsOK, StampedOK
  <2>8. VersionsOK'
    BY <2>1, <2>7 DEF IInv, TypeOK, VersionsOK, ReadOK, StampedOK, Numbered
  <2> QED BY <2>5, <2>8 DEF IInv
<1>6. ASSUME NEW w \in Writers, Write(w) PROVE IInv'
  <2>1. CASE old[w].rv = stored.rv
    <3>1. /\ stored' = obj[w] /\ writes' = writes + 1 /\ writes < MaxWrites
          /\ pc' = [pc EXCEPT ![w] = "idle"]
          /\ UNCHANGED <<old, readAt, obj, before>>
      BY <1>6, <2>1 DEF Write, At, Goto
    <3>2. Numbered(obj[w], writes + 1) /\ stored.rv # Unset
      BY <1>6, <2>1, AcceptedLemma DEF Write, At, Goto
    <3>3. stored'.rv # Unset
      <4>1. pc[w] = "stamped"
        BY <1>6 DEF Write, At, Goto
      <4>2. obj[w].rv = Increment(stored.rv) /\ stored.rv \in Ints
        BY <2>1, <4>1, <3>2, AcceptedLemma DEF IInv, TypeOK, Objects
      <4> QED BY <3>1, <4>2, IncrementLemma
    <3>4. TypeOK'
      BY <3>1, UpdatesAssumption DEF IInv, TypeOK, Places
    <3>5. ASSUME NEW v \in Writers PROVE ReadOK(v)' /\ StampedOK(v)'
      <4>1. /\ readAt[v] \in Nat /\ writes \in Nat /\ readAt[v] <= writes
            /\ old[v].rv # Unset /\ Numbered(old[v], readAt[v])
        BY <3>2 DEF IInv, TypeOK, VersionsOK, ReadOK
      <4>2. StampedOK(v)'
        BY <3>1 DEF IInv, TypeOK, VersionsOK, StampedOK
      <4>3. ReadOK(v)'
        BY <3>1, <3>3, <4>1 DEF ReadOK, Numbered
      <4> QED BY <4>2, <4>3
    <3>6. VersionsOK'
      BY <3>1, <3>2, <3>3, <3>5 DEF VersionsOK, Numbered
    <3> QED BY <3>4, <3>6 DEF IInv
  <2>2. CASE old[w].rv # stored.rv
    <3>1. /\ pc' = [pc EXCEPT ![w] = "refused"]
          /\ UNCHANGED <<stored, writes, old, readAt, obj, before>>
      BY <1>6, <2>2 DEF Write, At, Goto
    <3>2. pc[w] = "stamped"
      BY <1>6 DEF Write, At, Goto
    <3>3. TypeOK'
      BY <3>1 DEF IInv, TypeOK, Places
    <3>4. VersionsOK'
      BY <3>1, <3>2 DEF IInv, TypeOK, VersionsOK, ReadOK, StampedOK, Numbered
    <3> QED BY <3>3, <3>4 DEF IInv
  <2> QED BY <2>1, <2>2
<1>7. CASE UNCHANGED vars
  BY <1>7 DEF IInv, TypeOK, VersionsOK, ReadOK, StampedOK, Numbered, vars
<1> QED BY <1>1, <1>2, <1>3, <1>4, <1>5, <1>6, <1>7 DEF Next, Stamp

(* The stored version counts the writes, and every writer knows the version  *)
(* it has read.                                                              *)
THEOREM UpdatesInvariant == Spec => []IInv
BY UpdatesInit, UpdatesStep, PTL DEF Spec

(* Versions and generations are ints, past the largest one too. *)
THEOREM UpdatesTypeCorrect == Spec => []TypeOK
<1>1. IInv => TypeOK
  BY DEF IInv
<1> QED BY <1>1, UpdatesInvariant, PTL

(* VersionsIdentify: equal versions, equal objects.                          *)
THEOREM VersionsIdentifyAlways == Spec => []VersionsIdentify
<1>1. IInv => VersionsIdentify
  <2> SUFFICES ASSUME IInv, NEW w \in Writers, old[w].rv = stored.rv
               PROVE  old[w] = stored
    BY DEF VersionsIdentify
  <2>1. readAt[w] \in 0..(2 * MaxInt + 1) /\ writes \in 0..(2 * MaxInt + 1)
    BY UpdatesAssumption DEF IInv, TypeOK
  <2>2. CASE stored.rv = Unset
    <3>1. writes = 0 /\ readAt[w] <= writes
      BY <2>2 DEF IInv, VersionsOK, ReadOK
    <3>2. readAt[w] = writes
      BY <2>1, <3>1
    <3> QED BY <3>2 DEF IInv, VersionsOK, ReadOK
  <2>3. CASE stored.rv # Unset
    <3>1. VersionOf(readAt[w]) = VersionOf(writes)
      BY <2>3 DEF IInv, VersionsOK, ReadOK, Numbered
    <3>2. readAt[w] = writes
      BY <2>1, <3>1, VersionLemma
    <3> QED BY <3>2 DEF IInv, VersionsOK, ReadOK
  <2> QED BY <2>2, <2>3
<1> QED BY <1>1, UpdatesInvariant, PTL

(* WritesAreSerial: no update is lost, and each one is counted by both the   *)
(* resource version and the generation.                                      *)
THEOREM WritesAreSerialAlways == Spec => WritesAreSerial
<1> DEFINE Serial == stored' # stored =>
                       /\ \E w \in Writers : old[w] = stored /\ stored'.from = w
                       /\ stored'.rv = Increment(stored.rv)
                       /\ stored'.gen = Increment(stored.gen)
<1>1. IInv /\ [Next]_vars => [Serial]_vars
  <2> SUFFICES ASSUME IInv, Next, stored' # stored PROVE Serial
    BY DEF vars
  <2>1. PICK w \in Writers : Write(w)
    BY DEF Next, Read, DeepCopy, Stamp, Access, SetVersion, SetGeneration
  <2>2. pc[w] = "stamped" /\ old[w].rv = stored.rv /\ stored' = obj[w]
    BY <2>1 DEF Write, At
  <2>3. obj[w].from = w
    BY <2>2 DEF IInv, VersionsOK, StampedOK
  <2> QED BY <2>2, <2>3, AcceptedLemma
<1> QED BY <1>1, UpdatesInvariant, PTL DEF Spec, WritesAreSerial

(* CopyPanicExplained: DeepCopy panics on objects of two types only.         *)
THEOREM CopyPanicExplainedAlways == Spec => []CopyPanicExplained
<1>1. Init => CopyPanicExplained
  BY DEF Init, CopyPanicExplained
<1>2. IInv /\ CopyPanicExplained /\ [Next]_vars => CopyPanicExplained'
  <2> SUFFICES ASSUME IInv, CopyPanicExplained, [Next]_vars,
                      NEW v \in Writers, pc'[v] = "panicked"
               PROVE  obj'[v].type # old'[v].type
    BY DEF CopyPanicExplained
  <2>1. CASE pc[v] = "panicked"
    <3>1. UNCHANGED <<obj, old>>
      BY <2>1 DEF Next, Read, DeepCopy, Stamp, Access, SetVersion, SetGeneration, Write,
                  At, Panicked, vars
    <3> QED BY <2>1, <3>1 DEF CopyPanicExplained
  <2>2. CASE pc[v] # "panicked"
    <3>1. PICK w \in Writers : DeepCopy(w)
      BY <2>2 DEF IInv, TypeOK, Next, Read, Stamp, Access, SetVersion, Rejects,
                  SetGeneration, Write, Goto, vars
    <3>2. v = w
      BY <2>2, <3>1 DEF IInv, TypeOK, DeepCopy
    <3>3. /\ Methods[old[w].type].param = old[w].type
          /\ obj[w].type # Methods[old[w].type].param
          /\ UNCHANGED <<obj, old>>
      BY <2>2, <3>1, <3>2 DEF IInv, TypeOK, DeepCopy, HasMethod, checkSignature
    <3> QED BY <3>2, <3>3
  <2> QED BY <2>1, <2>2
<1> QED BY <1>1, <1>2, UpdatesInvariant, PTL DEF Spec

(* Until the version is set an object is as it was when the call began.      *)
UntouchedOK ==
  \A w \in Writers : pc[w] \in {"accessed", "rejected"} => obj[w] = before[w]

(* RejectedUntouched: an object that UpdateResourceVersionAndGeneration,     *)
(* UpdateResourceVersion or DeepCopy has returned an error for is as it was  *)
(* when the call began.                                                      *)
THEOREM RejectedUntouchedAlways == Spec => []RejectedUntouched
<1>1. Init => UntouchedOK
  BY DEF Init, UntouchedOK
<1>2. IInv /\ UntouchedOK /\ [Next]_vars => UntouchedOK'
  <2> SUFFICES ASSUME IInv, UntouchedOK, [Next]_vars PROVE UntouchedOK'
    OBVIOUS
  <2> USE DEF IInv, TypeOK, UntouchedOK, Goto
  <2>1. ASSUME NEW w \in Writers, Read(w) PROVE UntouchedOK'
    BY <2>1 DEF Read
  <2>2. ASSUME NEW w \in Writers, DeepCopy(w) PROVE UntouchedOK'
    BY <2>2 DEF DeepCopy, At
  <2>3. ASSUME NEW w \in Writers, Access(w) PROVE UntouchedOK'
    BY <2>3 DEF Access
  <2>4. ASSUME NEW w \in Writers, SetVersion(w) PROVE UntouchedOK'
    <3>1. pc[w] = "accessed" /\ before' = before
      BY <2>4 DEF SetVersion, At
    <3>2. CASE pc' = [pc EXCEPT ![w] = "rejected"] /\ UNCHANGED obj
      BY <3>1, <3>2
    <3>3. CASE /\ pc' = [pc EXCEPT ![w] = "versioned"]
               /\ obj' = [obj EXCEPT ![w] = updateResourceVersion(@, old[w])]
      BY <3>1, <3>3
    <3> QED BY <2>4, <3>2, <3>3 DEF SetVersion, Rejects
  <2>5. ASSUME NEW w \in Writers, SetGeneration(w) PROVE UntouchedOK'
    BY <2>5 DEF SetGeneration
  <2>6. ASSUME NEW w \in Writers, Write(w) PROVE UntouchedOK'
    BY <2>6 DEF Write
  <2>7. CASE UNCHANGED vars
    BY <2>7 DEF vars
  <2> QED BY <2>1, <2>2, <2>3, <2>4, <2>5, <2>6, <2>7 DEF Next, Stamp
<1>3. UntouchedOK => RejectedUntouched
  BY DEF UntouchedOK, RejectedUntouched
<1> QED BY <1>1, <1>2, <1>3, UpdatesInvariant, PTL DEF Spec
=============================================================================
