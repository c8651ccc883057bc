-------------------------- MODULE LoopbackProofs --------------------------
(***************************************************************************)
(* Proofs about Loopback, for any number of goroutines, words and values.  *)
(* The strengthening says what the variable holds in each state of the     *)
(* Once, and that a setter has returned only if the Once is done.          *)
(***************************************************************************)
EXTENDS Loopback, TLAPS

(* The variable has the words that were written of one value, the first.     *)
CellOK ==
  /\ ~done /\ runner = NoProc => first = {} /\ \A j \in Words : cell[j] = Nil
  /\ \A g \in Procs : runner = g =>
       /\ first = {arg[g]}
       /\ \A j \in Words : cell[j] = IF j \in wrote THEN arg[g] ELSE Nil
  /\ done => \E c \in Values : first = {c} /\ \A j \in Words : cell[j] = c
  /\ \A g \in Procs : synced[g] => done

(* What a getter has read is a word of the variable, or was not written when *)
(* it read it.                                                               *)
GotOK ==
  \A g \in Procs : \A j \in DOMAIN got[g] :
    /\ j \in Words
    /\ got[g][j] \in {cell[j], Nil}
    /\ synced[g] /\ pc[g] = "getting" => got[g][j] = cell[j]

(* The strengthening.                                                        *)
IInv == TypeOK /\ CellOK /\ GotOK

(* The values of which only some words are there.                            *)
Maps == UNION {[D -> Values] : D \in SUBSET Words}

(* One word more.                                                            *)
Extended(m, i, v) == [k \in DOMAIN m \cup {i} |-> IF k = i THEN v ELSE m[k]]

(* What a getter has read is one of Maps, before and after one more word.    *)
LEMMA MapsLemma ==
  /\ NothingRead \in Maps
  /\ DOMAIN NothingRead = {}
  /\ \A m \in Maps : DOMAIN m \subseteq Words
  /\ \A m \in Maps, i \in Words, v \in Values :
       Extended(m, i, v) \in Maps
<1>1. NothingRead \in [{} -> Values]
  BY DEF NothingRead
<1>2. ASSUME NEW m \in Maps PROVE m \in [DOMAIN m -> Values] /\ DOMAIN m \subseteq Words
  BY DEF Maps
<1>3. ASSUME NEW m \in Maps, NEW i \in Words, NEW v \in Values
      PROVE  Extended(m, i, v) \in [DOMAIN m \cup {i} -> Values]
  BY <1>2 DEF Extended
<1>4. NothingRead \in Maps /\ DOMAIN NothingRead = {}
  <2>1. {} \in SUBSET Words
    OBVIOUS
  <2> QED BY <1>1, <2>1 DEF Maps
<1>5. ASSUME NEW m \in Maps, NEW i \in Words, NEW v \in Values
      PROVE  Extended(m, i, v) \in Maps
  <2>1. DOMAIN m \cup {i} \in SUBSET Words
    BY <1>2
  <2>2. \E D \in SUBSET Words : Extended(m, i, v) \in [D -> Values]
    BY <1>3, <2>1
  <2> QED BY <2>2 DEF Maps
<1>6. \A m \in Maps : DOMAIN m \subseteq Words
  BY <1>2
<1>7. \A m \in Maps, i \in Words, v \in Values : Extended(m, i, v) \in Maps
  BY <1>5
<1> QED BY <1>4, <1>6, <1>7

(* The strengthening holds at first.                                         *)
LEMMA LoopbackInit == Init => IInv
<1> SUFFICES ASSUME Init PROVE IInv
  OBVIOUS
<1>1. TypeOK
  BY MapsLemma, LoopbackAssumption DEF Init, TypeOK, Values, Zero, Maps
<1>2. CellOK
  BY LoopbackAssumption DEF Init, CellOK, Zero
<1>3. GotOK
  BY MapsLemma DEF Init, GotOK
<1> QED BY <1>1, <1>2, <1>3 DEF IInv

(* Every step of a setter or getter keeps it.                                *)
LEMMA LoopbackStep == IInv /\ [Next]_vars => IInv'
<1> SUFFICES ASSUME IInv, [Next]_vars PROVE IInv'
  OBVIOUS
<1> USE LoopbackAssumption DEF Goto
<1>1. ASSUME NEW g \in Procs, Set(g) PROVE IInv'
  <2>1. TypeOK'
    BY <1>1 DEF IInv, TypeOK, Set
  <2>2. CellOK'
    BY <1>1 DEF IInv, TypeOK, CellOK, Set
  <2>3. GotOK'
    BY <1>1 DEF IInv, TypeOK, GotOK, Set
  <2> QED BY <2>1, <2>2, <2>3 DEF IInv
<1>2. ASSUME NEW g \in Procs, Enter(g) PROVE IInv'
  <2>1. TypeOK'
    BY <1>2 DEF IInv, TypeOK, Enter, MayRun
  <2>2. CellOK'
    BY <1>2 DEF IInv, TypeOK, CellOK, Enter, MayRun
  <2>3. GotOK'
    BY <1>2 DEF IInv, TypeOK, GotOK, Enter
  <2> QED BY <2>1, <2>2, <2>3 DEF IInv
<1>3. ASSUME NEW g \in Procs, WriteWord(g) PROVE IInv'
  <2>1. PICK i \in Words \ wrote : /\ cell' = [cell EXCEPT ![i] = arg[g]]
                                   /\ wrote' = wrote \cup {i}
    BY <1>3 DEF WriteWord
  <2>2. runner = g /\ ~done
    BY <1>3 DEF IInv, TypeOK, WriteWord
  <2>3. TypeOK'
    BY <1>3, <2>1 DEF IInv, TypeOK, WriteWord
  <2>4. CellOK'
    BY <1>3, <2>1, <2>2 DEF IInv, TypeOK, CellOK, WriteWord
  <2>5. cell[i] = Nil
    BY <2>1, <2>2 DEF IInv, CellOK
  <2>6. GotOK'
    BY <1>3, <2>1, <2>2, <2>5 DEF IInv, TypeOK, CellOK, GotOK, WriteWord
  <2> QED BY <2>3, <2>4, <2>6 DEF IInv
<1>4. ASSUME NEW g \in Procs, Leave(g) PROVE IInv'
  <2>1. runner = g /\ ~done
    BY <1>4 DEF IInv, TypeOK, Leave
  <2>2. TypeOK'
    BY <1>4, <2>1 DEF IInv, TypeOK, Leave, SetEnds, Values
  <2>3. \A j \in Words : cell[j] = arg[g]
    BY <1>4, <2>1 DEF IInv, CellOK, Leave
  <2>4. CellOK'
    BY <1>4, <2>1, <2>3 DEF IInv, TypeOK, CellOK, Leave, SetEnds
  <2>5. GotOK'
    BY <1>4 DEF IInv, TypeOK, GotOK, Leave, SetEnds
  <2> QED BY <2>2, <2>4, <2>5 DEF IInv
<1>5. ASSUME NEW g \in Procs, Skip(g) PROVE IInv'
  <2>1. TypeOK'
    BY <1>5 DEF IInv, TypeOK, Skip, SetEnds, Values
  <2>2. CellOK'
    BY <1>5 DEF IInv, TypeOK, CellOK, Skip, SetEnds, Waits
  <2>3. GotOK'
    BY <1>5 DEF IInv, TypeOK, GotOK, Skip, SetEnds
  <2> QED BY <2>1, <2>2, <2>3 DEF IInv
<1>6. ASSUME NEW g \in Procs, Get(g) PROVE IInv'
  <2>1. TypeOK'
    BY <1>6, MapsLemma DEF IInv, TypeOK, Get, Maps
  <2>2. CellOK'
    BY <1>6 DEF IInv, TypeOK, CellOK, Get
  <2>3. GotOK'
    BY <1>6, MapsLemma DEF IInv, TypeOK, GotOK, Get
  <2> QED BY <2>1, <2>2, <2>3 DEF IInv
<1>7. ASSUME NEW g \in Procs, ReadWord(g) PROVE IInv'
  <2>1. PICK i \in Words \ DOMAIN got[g] : \E v \in Visible(g, i) :
           got' = [got EXCEPT ![g] = [k \in DOMAIN @ \cup {i} |-> IF k = i THEN v ELSE @[k]]]
    BY <1>7 DEF ReadWord
  <2>2. PICK v \in Visible(g, i) :
           got' = [got EXCEPT ![g] = [k \in DOMAIN @ \cup {i} |-> IF k = i THEN v ELSE @[k]]]
    BY <2>1
  <2>3. v \in Values /\ v \in {cell[i], Nil} /\ (synced[g] => v = cell[i])
    BY <2>2 DEF IInv, TypeOK, Visible, Values
  <2>4. got[g] \in Maps /\ got \in [Procs -> Maps]
    BY DEF IInv, TypeOK, Maps
  <2>5. Extended(got[g], i, v) \in Maps
    BY <2>3, <2>4, MapsLemma
  <2>6. TypeOK'
    BY <1>7, <2>2, <2>4, <2>5 DEF IInv, TypeOK, ReadWord, Maps, Extended
  <2>7. CellOK'
    BY <1>7 DEF IInv, TypeOK, CellOK, ReadWord
  <2>8. GotOK'
    BY <1>7, <2>2, <2>3, <2>4 DEF IInv, TypeOK, GotOK, ReadWord
  <2> QED BY <2>6, <2>7, <2>8 DEF IInv
<1>8. ASSUME NEW g \in Procs, Return(g) PROVE IInv'
  <2>1. TypeOK'
    BY <1>8 DEF IInv, TypeOK, Return
  <2>2. CellOK'
    BY <1>8 DEF IInv, TypeOK, CellOK, Return
  <2>3. GotOK'
    BY <1>8 DEF IInv, TypeOK, GotOK, Return
  <2> QED BY <2>1, <2>2, <2>3 DEF IInv
<1>9. CASE UNCHANGED vars
  BY <1>9 DEF IInv, TypeOK, CellOK, GotOK, vars
<1> QED
  BY <1>1, <1>2, <1>3, <1>4, <1>5, <1>6, <1>7, <1>8, <1>9 DEF Next, SetStep

(* Whoever runs, the variable has words of the first setter only.            *)
THEOREM LoopbackInvariant == Spec => []IInv
BY LoopbackInit, LoopbackStep, PTL DEF Spec

(* The Once and the goroutines are what TypeOK says: at most one goroutine   *)
(* executes the assignment, and none once it is done.                        *)
THEOREM LoopbackTypeCorrect == Spec => []TypeOK
<1>1. IInv => TypeOK
  BY DEF IInv
<1> QED BY <1>1, LoopbackInvariant, PTL

(* SettersGetIt: a goroutine whose own SetAuthorizer has returned gets the   *)
(* whole value from GetAuthorizer.                                           *)
THEOREM SettersGetItAlways == Spec => []SettersGetIt
<1>1. IInv => SettersGetIt
  BY DEF IInv, CellOK, GotOK, SettersGetIt
<1> QED BY <1>1, LoopbackInvariant, PTL

(* NeverMixed: a getter that races with setters never gets a value made of   *)
(* two setters' values.                                                      *)
THEOREM NeverMixedAlways == Spec => []NeverMixed
<1>1. IInv => NeverMixed
  <2> SUFFICES ASSUME IInv PROVE NeverMixed
    OBVIOUS
  <2>1. PICK c \in Values : \A j \in Words : cell[j] \in {c, Nil}
    <3>1. CASE done
      BY <3>1 DEF IInv, CellOK
    <3>2. CASE ~done /\ runner = NoProc
      BY <3>2 DEF IInv, CellOK, Values
    <3>3. CASE ~done /\ runner \in Procs
      <4>1. arg[runner] \in Values
        BY <3>3 DEF IInv, TypeOK
      <4> QED BY <3>3, <4>1 DEF IInv, CellOK
    <3> QED BY <3>1, <3>2, <3>3 DEF IInv, TypeOK
  <2> QED BY <2>1 DEF IInv, GotOK, NeverMixed
<1> QED BY <1>1, LoopbackInvariant, PTL

(* SetOnce: the value is set "for one time": after the first return of a     *)
(* setter the variable is, for good, what the first of them was given.       *)
THEOREM SetOnceAlways == Spec => []SetOnce
<1>1. IInv => SetOnce
  BY DEF IInv, CellOK, SetOnce
<1> QED BY <1>1, LoopbackInvariant, PTL
=============================================================================
