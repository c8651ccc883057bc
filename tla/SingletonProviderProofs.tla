---------------------- MODULE SingletonProviderProofs ----------------------
(***************************************************************************)
(* Proofs about SingletonProvider, for any set of goroutines and storages. *)
(*                                                                         *)
(* The invariants of the specification are not inductive: that the fields  *)
(* hold the outcome of the one call rests on who holds the mutex, on done  *)
(* being read again under it, and on what each goroutine carries in local. *)
(* IInv says that, in five parts.                                          *)
(***************************************************************************)
EXTENDS SingletonProvider, TLAPS

(* Where a goroutine holds the mutex, and where it has called the provider   *)
(* without having set done.                                                  *)
InOnce  == {"check", "call", "setStorage", "setErr", "setDone", "unlock"}
(* The points between which the fields are written.                          *)
Writing == {"setStorage", "setErr", "setDone"}

(* The mutex is held by the one goroutine in the slow path. *)
MutexInv == \A p \in Procs : pc[p] \in InOnce <=> mutex = p

(* done is false for the goroutine that calls the provider, and true for     *)
(* every goroutine that is past the Once.                                    *)
DoneInv ==
  \A p \in Procs :
    /\ pc[p] \in Writing \cup {"call"} => ~done
    /\ pc[p] \in {"unlock", "readStorage", "readErr", "returned"} => done

(* The provider has been called once when done is set or a goroutine writes, *)
(* and never before.                                                         *)
CalledInv ==
  /\ (done \/ \E p \in Procs : pc[p] \in Writing) => called = 1
  /\ (~done /\ \A p \in Procs : pc[p] \notin Writing) => called = 0

(* The fields are zero until the caller writes them, and are the outcome     *)
(* when it is done.                                                          *)
FieldsInv ==
  /\ done => Pair(Storage, err) = outcome
  /\ (~done /\ \A p \in Procs : pc[p] \notin {"setErr", "setDone"})
       => Storage = NilStorage /\ ~err
  /\ \A p \in Procs :
       /\ pc[p] = "setErr" => Storage = outcome.storage /\ ~err
       /\ pc[p] = "setDone" => Pair(Storage, err) = outcome

(* What a goroutine carries. *)
LocalInv ==
  \A p \in Procs :
    /\ pc[p] \in {"setStorage", "setErr"} => local[p] = outcome
    /\ pc[p] \in Writing /\ ~raising[p] => outcome \in Results
    /\ pc[p] = "readErr" => local[p] = Pair(Storage, FALSE)
    /\ pc[p] = "returned" => local[p] = outcome
    /\ pc[p] \notin {"setDone", "unlock", "raised"} => ~raising[p]
    /\ pc[p] \in {"setDone", "unlock"} /\ raising[p] => outcome = Zero

(* The strengthening.                                                        *)
IInv == TypeOK /\ MutexInv /\ DoneInv /\ CalledInv /\ FieldsInv /\ LocalInv

-----------------------------------------------------------------------------
(* What a result is made of, and that it is the pair of its fields.          *)
LEMMA ResultFields ==
  ASSUME NEW r \in Results \cup {Zero}
  PROVE  /\ r.storage \in Storages \cup {NilStorage}
         /\ r.err \in BOOLEAN
         /\ r = Pair(r.storage, r.err)
         /\ r.err => r = Pair(NilStorage, TRUE)
         /\ Pair(r.storage, FALSE) \in Results \cup {Zero}
<1>1. CASE r \in Success
  <2>1. PICK s \in Storages : r = Pair(s, FALSE)
    BY <1>1 DEF Success
  <2>2. r.storage = s /\ r.err = FALSE
    BY <2>1 DEF Pair
  <2>3. Pair(s, FALSE) \in Results
    BY DEF Results, Success
  <2> QED BY <2>1, <2>2, <2>3
<1>2. CASE r = Pair(NilStorage, TRUE)
  <2>1. r.storage = NilStorage /\ r.err = TRUE
    BY <1>2 DEF Pair
  <2> QED BY <1>2, <2>1 DEF Zero
<1>3. CASE r = Zero
  <2>1. r.storage = NilStorage /\ r.err = FALSE
    BY <1>3 DEF Zero, Pair
  <2> QED BY <1>3, <2>1 DEF Zero
<1> QED BY <1>1, <1>2, <1>3 DEF Results, Failure

(* The initial state satisfies the inductive invariant. *)
LEMMA InitInv == Init => IInv
<1> SUFFICES ASSUME Init PROVE IInv
  OBVIOUS
<1>1. TypeOK
  BY DEF Init, TypeOK, Labels, Outside
<1>2. MutexInv /\ DoneInv /\ CalledInv
  BY SingletonAssumption DEF Init, MutexInv, DoneInv, CalledInv, InOnce, Writing
<1>3. FieldsInv /\ LocalInv
  BY DEF Init, FieldsInv, LocalInv, Writing
<1> QED BY <1>1, <1>2, <1>3 DEF IInv

(* Every step keeps the types.                                               *)
LEMMA TypeStep == TypeOK /\ MutexInv /\ DoneInv /\ FieldsInv /\ LocalInv /\ [Next]_vars => TypeOK'
<1> USE DEF TypeOK, Labels, Outside, Goto
<1> SUFFICES ASSUME TypeOK, MutexInv, DoneInv, FieldsInv, LocalInv, [Next]_vars
             PROVE  TypeOK'
  OBVIOUS
<1>1. ASSUME NEW p \in Procs, Get(p) PROVE TypeOK'
  BY <1>1 DEF Get
<1>2. ASSUME NEW p \in Procs, Lock(p) PROVE TypeOK'
  BY <1>2 DEF Lock
<1>3. ASSUME NEW p \in Procs, Check(p) PROVE TypeOK'
  BY <1>3 DEF Check
<1>4. ASSUME NEW p \in Procs, CallProvider(p) PROVE TypeOK'
  <2>1. CASE outcome' \in Results /\ local' = [local EXCEPT ![p] = outcome']
             /\ Goto(p, "setStorage") /\ UNCHANGED raising
    BY <1>4, <2>1 DEF CallProvider
  <2>2. CASE outcome' = Zero /\ raising' = [raising EXCEPT ![p] = TRUE]
             /\ Goto(p, "setDone") /\ UNCHANGED local
    BY <1>4, <2>2 DEF CallProvider
  <2> QED BY <1>4, <2>1, <2>2 DEF CallProvider
<1>5. ASSUME NEW p \in Procs, SetStorage(p) PROVE TypeOK'
  <2>1. local[p] \in Results \cup {Zero}
    OBVIOUS
  <2>2. local[p].storage \in Storages \cup {NilStorage}
    BY <2>1, ResultFields
  <2> QED BY <1>5, <2>2 DEF SetStorage
<1>6. ASSUME NEW p \in Procs, SetErr(p) PROVE TypeOK'
  <2>1. local[p] \in Results \cup {Zero}
    OBVIOUS
  <2>2. local[p].err \in BOOLEAN
    BY <2>1, ResultFields
  <2> QED BY <1>6, <2>2 DEF SetErr
<1>7. ASSUME NEW p \in Procs, SetDone(p) PROVE TypeOK'
  BY <1>7 DEF SetDone
<1>8. ASSUME NEW p \in Procs, Unlock(p) PROVE TypeOK'
  BY <1>8 DEF Unlock
<1>9. ASSUME NEW p \in Procs, ReadStorage(p) PROVE TypeOK'
  <2>1. Pair(Storage, err) = outcome
    BY <1>9 DEF ReadStorage, DoneInv, FieldsInv
  <2>2. outcome.storage = Storage
    BY <2>1 DEF Pair
  <2>3. Pair(Storage, FALSE) \in Results \cup {Zero}
    BY <2>2, ResultFields
  <2> QED BY <1>9, <2>3 DEF ReadStorage
<1>10. ASSUME NEW p \in Procs, ReadErr(p) PROVE TypeOK'
  <2>1. /\ local[p] = Pair(Storage, FALSE)
        /\ Pair(Storage, err) = outcome
    BY <1>10 DEF ReadErr, DoneInv, LocalInv, FieldsInv
  <2>2. Pair(local[p].storage, err) = outcome
    BY <2>1 DEF Pair
  <2> QED BY <1>10, <2>2 DEF ReadErr
<1>11. CASE UNCHANGED vars
  BY <1>11 DEF vars
<1> QED BY <1>1, <1>2, <1>3, <1>4, <1>5, <1>6, <1>7, <1>8, <1>9, <1>10, <1>11
        DEF Next, Continue

(* The mutex is taken when it is free and released by its holder.            *)
LEMMA MutexStep == TypeOK /\ MutexInv /\ [Next]_vars => MutexInv'
<1> SUFFICES ASSUME TypeOK, MutexInv, [Next]_vars PROVE MutexInv'
  OBVIOUS
<1> USE SingletonAssumption DEF TypeOK, MutexInv, InOnce, Labels, Outside, Goto
<1>1. ASSUME NEW p \in Procs, Get(p) PROVE MutexInv'
  BY <1>1 DEF Get
<1>2. ASSUME NEW p \in Procs, Lock(p) PROVE MutexInv'
  BY <1>2 DEF Lock
<1>3. ASSUME NEW p \in Procs, Check(p) PROVE MutexInv'
  BY <1>3 DEF Check
<1>4. ASSUME NEW p \in Procs, CallProvider(p) PROVE MutexInv'
  BY <1>4 DEF CallProvider
<1>5. ASSUME NEW p \in Procs, SetStorage(p) PROVE MutexInv'
  BY <1>5 DEF SetStorage
<1>6. ASSUME NEW p \in Procs, SetErr(p) PROVE MutexInv'
  BY <1>6 DEF SetErr
<1>7. ASSUME NEW p \in Procs, SetDone(p) PROVE MutexInv'
  BY <1>7 DEF SetDone
<1>8. ASSUME NEW p \in Procs, Unlock(p) PROVE MutexInv'
  BY <1>8 DEF Unlock
<1>9. ASSUME NEW p \in Procs, ReadStorage(p) PROVE MutexInv'
  BY <1>9 DEF ReadStorage
<1>10. ASSUME NEW p \in Procs, ReadErr(p) PROVE MutexInv'
  BY <1>10 DEF ReadErr
<1>11. CASE UNCHANGED vars
  BY <1>11 DEF vars
<1> QED BY <1>1, <1>2, <1>3, <1>4, <1>5, <1>6, <1>7, <1>8, <1>9, <1>10, <1>11
        DEF Next, Continue

(* done is set by the goroutine that holds the mutex, and never reset.       *)
LEMMA DoneStep == TypeOK /\ MutexInv /\ DoneInv /\ [Next]_vars => DoneInv'
<1> SUFFICES ASSUME TypeOK, MutexInv, DoneInv, [Next]_vars PROVE DoneInv'
  OBVIOUS
<1> USE DEF TypeOK, MutexInv, DoneInv, InOnce, Writing, Labels, Outside, Goto
<1>1. ASSUME NEW p \in Procs, Get(p) PROVE DoneInv'
  BY <1>1 DEF Get
<1>2. ASSUME NEW p \in Procs, Lock(p) PROVE DoneInv'
  BY <1>2 DEF Lock
<1>3. ASSUME NEW p \in Procs, Check(p) PROVE DoneInv'
  BY <1>3 DEF Check
<1>4. ASSUME NEW p \in Procs, CallProvider(p) PROVE DoneInv'
  BY <1>4 DEF CallProvider
<1>5. ASSUME NEW p \in Procs, SetStorage(p) PROVE DoneInv'
  BY <1>5 DEF SetStorage
<1>6. ASSUME NEW p \in Procs, SetErr(p) PROVE DoneInv'
  BY <1>6 DEF SetErr
<1>7. ASSUME NEW p \in Procs, SetDone(p) PROVE DoneInv'
  BY <1>7 DEF SetDone
<1>8. ASSUME NEW p \in Procs, Unlock(p) PROVE DoneInv'
  BY <1>8 DEF Unlock
<1>9. ASSUME NEW p \in Procs, ReadStorage(p) PROVE DoneInv'
  BY <1>9 DEF ReadStorage
<1>10. ASSUME NEW p \in Procs, ReadErr(p) PROVE DoneInv'
  BY <1>10 DEF ReadErr
<1>11. CASE UNCHANGED vars
  BY <1>11 DEF vars
<1> QED BY <1>1, <1>2, <1>3, <1>4, <1>5, <1>6, <1>7, <1>8, <1>9, <1>10, <1>11
        DEF Next, Continue

(* The provider is called under the mutex, with done false, once.            *)
LEMMA CalledStep == TypeOK /\ MutexInv /\ DoneInv /\ CalledInv /\ [Next]_vars => CalledInv'
<1> SUFFICES ASSUME TypeOK, MutexInv, DoneInv, CalledInv, [Next]_vars PROVE CalledInv'
  OBVIOUS
<1> USE DEF TypeOK, MutexInv, DoneInv, CalledInv, InOnce, Writing, Labels, Outside, Goto
<1>1. ASSUME NEW p \in Procs, Get(p) PROVE CalledInv'
  BY <1>1 DEF Get
<1>2. ASSUME NEW p \in Procs, Lock(p) PROVE CalledInv'
  BY <1>2 DEF Lock
<1>3. ASSUME NEW p \in Procs, Check(p) PROVE CalledInv'
  BY <1>3 DEF Check
<1>4. ASSUME NEW p \in Procs, CallProvider(p) PROVE CalledInv'
  BY <1>4 DEF CallProvider
<1>5. ASSUME NEW p \in Procs, SetStorage(p) PROVE CalledInv'
  BY <1>5 DEF SetStorage
<1>6. ASSUME NEW p \in Procs, SetErr(p) PROVE CalledInv'
  BY <1>6 DEF SetErr
<1>7. ASSUME NEW p \in Procs, SetDone(p) PROVE CalledInv'
  BY <1>7 DEF SetDone
<1>8. ASSUME NEW p \in Procs, Unlock(p) PROVE CalledInv'
  BY <1>8 DEF Unlock
<1>9. ASSUME NEW p \in Procs, ReadStorage(p) PROVE CalledInv'
  BY <1>9 DEF ReadStorage
<1>10. ASSUME NEW p \in Procs, ReadErr(p) PROVE CalledInv'
  BY <1>10 DEF ReadErr
<1>11. CASE UNCHANGED vars
  BY <1>11 DEF vars
<1> QED BY <1>1, <1>2, <1>3, <1>4, <1>5, <1>6, <1>7, <1>8, <1>9, <1>10, <1>11
        DEF Next, Continue

(* The fields are written by the goroutine that called the provider.         *)
LEMMA FieldsStep == TypeOK /\ MutexInv /\ DoneInv /\ FieldsInv /\ LocalInv /\ [Next]_vars => FieldsInv'
<1> SUFFICES ASSUME TypeOK, MutexInv, DoneInv, FieldsInv, LocalInv, [Next]_vars PROVE FieldsInv'
  OBVIOUS
<1> USE DEF TypeOK, MutexInv, DoneInv, FieldsInv, LocalInv, InOnce, Writing, Labels, Outside, Goto
<1>1. ASSUME NEW p \in Procs, Get(p) PROVE FieldsInv'
  BY <1>1 DEF Get
<1>2. ASSUME NEW p \in Procs, Lock(p) PROVE FieldsInv'
  BY <1>2 DEF Lock
<1>3. ASSUME NEW p \in Procs, Check(p) PROVE FieldsInv'
  BY <1>3 DEF Check
<1>4. ASSUME NEW p \in Procs, CallProvider(p) PROVE FieldsInv'
  <2>1. \A q \in Procs : q # p => pc[q] \notin InOnce
    BY <1>4 DEF CallProvider
  <2>2. ~done /\ Storage = NilStorage /\ err = FALSE
    BY <1>4, <2>1 DEF CallProvider
  <2>3. UNCHANGED <<done, Storage, err>>
    BY <1>4 DEF CallProvider
  <2>4. CASE pc' = [pc EXCEPT ![p] = "setStorage"]
    BY <2>1, <2>2, <2>3, <2>4
  <2>5. CASE pc' = [pc EXCEPT ![p] = "setDone"] /\ outcome' = Zero
    <3>1. Pair(Storage', err') = outcome'
      BY <2>2, <2>3, <2>5 DEF Zero
    <3> QED BY <2>1, <2>2, <2>3, <2>5, <3>1
  <2> QED BY <1>4, <2>4, <2>5 DEF CallProvider
<1>5. ASSUME NEW p \in Procs, SetStorage(p) PROVE FieldsInv'
  <2>1. \A q \in Procs : q # p => pc[q] \notin InOnce
    BY <1>5 DEF SetStorage
  <2>2. ~done /\ ~err /\ local[p] = outcome
    BY <1>5, <2>1 DEF SetStorage
  <2>3. pc' = [pc EXCEPT ![p] = "setErr"] /\ Storage' = outcome.storage
    BY <1>5, <2>2 DEF SetStorage
  <2>4. UNCHANGED <<done, err, outcome>>
    BY <1>5 DEF SetStorage
  <2> QED BY <2>1, <2>2, <2>3, <2>4
<1>6. ASSUME NEW p \in Procs, SetErr(p) PROVE FieldsInv'
  <2>1. \A q \in Procs : q # p => pc[q] \notin InOnce
    BY <1>6 DEF SetErr
  <2>2. ~done /\ Storage = outcome.storage /\ local[p] = outcome
    BY <1>6 DEF SetErr
  <2>3. Pair(Storage, local[p].err) = outcome
    BY <2>2, ResultFields
  <2>4. Pair(Storage', err') = outcome'
    BY <1>6, <2>3 DEF SetErr
  <2>5. pc' = [pc EXCEPT ![p] = "setDone"] /\ UNCHANGED done
    BY <1>6 DEF SetErr
  <2> QED BY <2>1, <2>2, <2>4, <2>5
<1>7. ASSUME NEW p \in Procs, SetDone(p) PROVE FieldsInv'
  BY <1>7 DEF SetDone
<1>8. ASSUME NEW p \in Procs, Unlock(p) PROVE FieldsInv'
  BY <1>8 DEF Unlock
<1>9. ASSUME NEW p \in Procs, ReadStorage(p) PROVE FieldsInv'
  BY <1>9 DEF ReadStorage
<1>10. ASSUME NEW p \in Procs, ReadErr(p) PROVE FieldsInv'
  BY <1>10 DEF ReadErr
<1>11. CASE UNCHANGED vars
  BY <1>11 DEF vars
<1> QED BY <1>1, <1>2, <1>3, <1>4, <1>5, <1>6, <1>7, <1>8, <1>9, <1>10, <1>11
        DEF Next, Continue

(* A goroutine carries the outcome, or what it has read of the fields.       *)
LEMMA LocalStep == TypeOK /\ MutexInv /\ DoneInv /\ FieldsInv /\ LocalInv /\ [Next]_vars => LocalInv'
<1> SUFFICES ASSUME TypeOK, MutexInv, DoneInv, FieldsInv, LocalInv, [Next]_vars PROVE LocalInv'
  OBVIOUS
<1> USE DEF TypeOK, MutexInv, DoneInv, FieldsInv, LocalInv, InOnce, Writing, Labels, Outside, Goto
<1>1. ASSUME NEW p \in Procs, Get(p) PROVE LocalInv'
  BY <1>1 DEF Get
<1>2. ASSUME NEW p \in Procs, Lock(p) PROVE LocalInv'
  BY <1>2 DEF Lock
<1>3. ASSUME NEW p \in Procs, Check(p) PROVE LocalInv'
  BY <1>3 DEF Check
<1>4. ASSUME NEW p \in Procs, CallProvider(p) PROVE LocalInv'
  <2>1. ~done /\ \A q \in Procs \ {p} : pc[q] \notin InOnce \cup {"readErr", "returned"}
    BY <1>4 DEF CallProvider
  <2>2. pc[p] = "call" /\ ~raising[p] /\ UNCHANGED <<done, mutex, Storage, err>>
    BY <1>4 DEF CallProvider
  <2>3. CASE /\ outcome' \in Results
             /\ local' = [local EXCEPT ![p] = outcome']
             /\ Goto(p, "setStorage")
             /\ UNCHANGED raising
    BY <2>1, <2>2, <2>3
  <2>4. CASE /\ outcome' = Zero
             /\ raising' = [raising EXCEPT ![p] = TRUE]
             /\ Goto(p, "setDone")
             /\ UNCHANGED local
    BY <2>1, <2>2, <2>4
  <2> QED BY <1>4, <2>3, <2>4 DEF CallProvider
<1>5. ASSUME NEW p \in Procs, SetStorage(p) PROVE LocalInv'
  BY <1>5 DEF SetStorage
<1>6. ASSUME NEW p \in Procs, SetErr(p) PROVE LocalInv'
  BY <1>6 DEF SetErr
<1>7. ASSUME NEW p \in Procs, SetDone(p) PROVE LocalInv'
  BY <1>7 DEF SetDone
<1>8. ASSUME NEW p \in Procs, Unlock(p) PROVE LocalInv'
  BY <1>8 DEF Unlock
<1>9. ASSUME NEW p \in Procs, ReadStorage(p) PROVE LocalInv'
  BY <1>9 DEF ReadStorage
<1>10. ASSUME NEW p \in Procs, ReadErr(p) PROVE LocalInv'
  <2>1. Pair(Storage, err) = outcome /\ local[p] = Pair(Storage, FALSE)
    BY <1>10 DEF ReadErr
  <2>2. Pair(local[p].storage, err) = outcome
    BY <2>1 DEF Pair
  <2> QED BY <1>10, <2>2 DEF ReadErr
<1>11. CASE UNCHANGED vars
  BY <1>11 DEF vars
<1> QED BY <1>1, <1>2, <1>3, <1>4, <1>5, <1>6, <1>7, <1>8, <1>9, <1>10, <1>11
        DEF Next, Continue

-----------------------------------------------------------------------------
(* IInv is an inductive invariant.                                           *)
THEOREM Inductive == Spec => []IInv
<1>1. IInv /\ [Next]_vars => IInv'
  BY TypeStep, MutexStep, DoneStep, CalledStep, FieldsStep, LocalStep DEF IInv
<1> QED BY InitInv, <1>1, PTL DEF Spec, Safety

(* The variables keep their types, and a storage is never held with an error.*)
THEOREM TypeCorrect == Spec => []TypeOK
BY Inductive, PTL DEF IInv

(* The provider is called at most once, by however many goroutines.          *)
THEOREM CalledOnce == Spec => []AtMostOneCall
<1>1. IInv => AtMostOneCall
  <2> SUFFICES ASSUME IInv PROVE called \in {0, 1}
    BY DEF AtMostOneCall
  <2> QED BY DEF IInv, CalledInv
<1> QED BY Inductive, <1>1, PTL

(* Every Get returns the outcome of that call, whole.                        *)
THEOREM Agreement == Spec => []AnswersAreTheOutcome
<1>1. IInv => AnswersAreTheOutcome
  BY DEF IInv, AnswersAreTheOutcome, DoneInv, CalledInv, LocalInv
<1> QED BY Inductive, <1>1, PTL

(* Once done is set nothing writes the fields that Get reads unlocked: the   *)
(* goroutine in SetStorage or SetErr has not set done, and no other is there.*)
THEOREM Frozen == Spec => FieldsFrozen
<1>1. IInv /\ [Next]_vars => [done => UNCHANGED <<Storage, err>>]_vars
  <2> SUFFICES ASSUME IInv, Next, done PROVE UNCHANGED <<Storage, err>>
    OBVIOUS
  <2> USE DEF IInv, DoneInv, Writing
  <2>1. PICK p \in Procs : Get(p) \/ Continue(p)
    BY DEF Next
  <2>2. ~SetStorage(p) /\ ~SetErr(p)
    BY DEF SetStorage, SetErr
  <2> QED BY <2>1, <2>2 DEF Continue, Get, Lock, Check, CallProvider, SetDone,
                            Unlock, ReadStorage, ReadErr
<1> QED BY Inductive, <1>1, PTL DEF Spec, Safety, FieldsFrozen

-----------------------------------------------------------------------------
(* Get implements the safety part of SharedInit: the step that sets done     *)
(* decides, the last step of a call answers or raises, the first asks, and   *)
(* every other step changes nothing that SharedInit sees.                    *)
THEOREM Refinement == Spec => Shared!Safety
<1> DEFINE raiserBar == IF mutex # NoProc /\ raising[mutex] /\ pc[mutex] = "unlock"
                        THEN mutex ELSE NoProc
           decidedBar == IF done THEN {Pair(Storage, err)} ELSE {}
           waitingBar == {p \in Procs : pc[p] \notin Outside}
<1> USE DEF Labels, Outside, Goto, InOnce, Writing
<1>1. Init => Shared!Init
  BY SingletonAssumption DEF Init, Shared!Init, answerBar
<1>2. IInv /\ [Next]_vars => [Shared!Next]_(Shared!sharedVars)
  <2> SUFFICES ASSUME IInv, [Next]_vars PROVE [Shared!Next]_(Shared!sharedVars)
    OBVIOUS
  <2> USE SingletonAssumption DEF IInv, TypeOK, MutexInv, Shared!Next, Shared!sharedVars, answerBar
  <2>1. ASSUME NEW p \in Procs, Get(p) PROVE Shared!Ask(p)
    <3>1. p \notin waitingBar /\ waitingBar' = waitingBar \cup {p}
      BY <2>1 DEF Get
    <3>2. answerBar' = [answerBar EXCEPT ![p] = NoAnswer]
      BY <2>1 DEF Get
    <3>3. mutex # p /\ UNCHANGED <<raiserBar, decidedBar>>
      BY <2>1 DEF Get
    <3> QED BY <3>1, <3>2, <3>3 DEF Shared!Ask
  <2>2. ASSUME NEW p \in Procs, SetDone(p) PROVE Shared!Decide(p)
    <3>1. p \in waitingBar /\ UNCHANGED <<waitingBar, answerBar>>
      BY <2>2 DEF SetDone
    <3>2. mutex = p /\ decidedBar = {} /\ decidedBar' = {outcome} /\ raiserBar = NoProc
      BY <2>2 DEF SetDone, DoneInv, FieldsInv
    <3>3. CASE raising[p]
      <4>1. outcome = Zero /\ raiserBar' = p
        BY <2>2, <3>2, <3>3 DEF SetDone, LocalInv
      <4> QED BY <3>1, <3>2, <4>1 DEF Shared!Decide
    <3>4. CASE ~raising[p]
      <4>1. raiserBar' = NoProc
        BY <2>2, <3>2, <3>4 DEF SetDone
      <4>2. outcome \in Results
        BY <2>2, <3>4 DEF SetDone, LocalInv
      <4> QED BY <3>1, <3>2, <4>1, <4>2 DEF Shared!Decide
    <3> QED BY <3>3, <3>4
  <2>3. ASSUME NEW p \in Procs, Unlock(p), raising[p] PROVE Shared!Raise(p)
    <3>1. p \in waitingBar /\ waitingBar' = waitingBar \ {p}
      BY <2>3 DEF Unlock
    <3>2. p = raiserBar /\ raiserBar' = NoProc /\ UNCHANGED decidedBar
      BY <2>3 DEF Unlock
    <3>3. answerBar' = [answerBar EXCEPT ![p] = Raised]
      BY <2>3 DEF Unlock
    <3> QED BY <3>1, <3>2, <3>3 DEF Shared!Raise
  <2>4. ASSUME NEW p \in Procs, Unlock(p), ~raising[p] PROVE UNCHANGED Shared!sharedVars
    BY <2>4 DEF Unlock
  <2>5. ASSUME NEW p \in Procs, ReadErr(p) PROVE Shared!Answer(p)
    <3>1. p \in waitingBar /\ waitingBar' = waitingBar \ {p}
      BY <2>5 DEF ReadErr
    <3>2. p # raiserBar /\ UNCHANGED <<raiserBar, decidedBar>>
      BY <2>5 DEF ReadErr
    <3>3. done /\ local'[p] = Pair(Storage, err)
      BY <2>5 DEF ReadErr, DoneInv, LocalInv, Pair
    <3>4. answerBar' = [answerBar EXCEPT ![p] = Pair(Storage, err)]
      BY <2>5, <3>3 DEF ReadErr
    <3> QED BY <3>1, <3>2, <3>3, <3>4 DEF Shared!Answer
  <2>6. ASSUME NEW p \in Procs, Lock(p) PROVE UNCHANGED Shared!sharedVars
    BY <2>6 DEF Lock
  <2>7. ASSUME NEW p \in Procs, Check(p) PROVE UNCHANGED Shared!sharedVars
    <3>1. pc[p] = "check" /\ mutex = p /\ raiserBar = NoProc /\ ~raising[p]
      BY <2>7 DEF Check, LocalInv
    <3>2. raiserBar' = NoProc
      BY <2>7, <3>1 DEF Check
    <3>3. UNCHANGED <<decidedBar, waitingBar, answerBar>>
      BY <2>7 DEF Check
    <3> QED BY <3>1, <3>2, <3>3
  <2>8. ASSUME NEW p \in Procs, CallProvider(p) PROVE UNCHANGED Shared!sharedVars
    <3>1. pc[p] = "call" /\ mutex = p /\ pc'[p] # "unlock" /\ mutex' = p
      BY <2>8 DEF CallProvider
    <3>2. UNCHANGED <<decidedBar, waitingBar>>
      BY <2>8 DEF CallProvider
    <3>3. UNCHANGED answerBar
      BY <2>8 DEF CallProvider
    <3> QED BY <3>1, <3>2, <3>3
  <2>9. ASSUME NEW p \in Procs, SetStorage(p) PROVE UNCHANGED Shared!sharedVars
    BY <2>9 DEF SetStorage, DoneInv
  <2>10. ASSUME NEW p \in Procs, SetErr(p) PROVE UNCHANGED Shared!sharedVars
    BY <2>10 DEF SetErr, DoneInv
  <2>11. ASSUME NEW p \in Procs, ReadStorage(p) PROVE UNCHANGED Shared!sharedVars
    BY <2>11 DEF ReadStorage
  <2>12. CASE UNCHANGED vars
    BY <2>12 DEF vars
  <2> QED BY <2>1, <2>2, <2>3, <2>4, <2>5, <2>6, <2>7, <2>8, <2>9, <2>10, <2>11, <2>12
          DEF Next, Continue
<1> QED BY Inductive, <1>1, <1>2, PTL DEF Spec, Safety, Shared!Safety
=============================================================================
