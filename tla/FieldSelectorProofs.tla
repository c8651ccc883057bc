------------------------ MODULE FieldSelectorProofs ------------------------
(***************************************************************************)
(* Proofs about FieldSelector, for selectors of any length on any fields.  *)
(* The strengthening is the loop invariant: so far every requirement is    *)
(* supported and the filter is that of the last one alone.                 *)
(***************************************************************************)
EXTENDS FieldSelector, SequenceTheorems, TLAPS

(* The requirements of the selector.                                         *)
Reqs == fieldSelector.requirements

(* The filter after n requirements. *)
Loop(n) == IF n = 0 THEN {} ELSE {FilterOf(Reqs[n])}

(* What the end of the function makes of a filter. *)
Ended(f) == IF namespace.ok THEN WithNamespace(f, namespace.namespace) ELSE f

(* The loop invariant of the parser.                                         *)
LoopInv ==
  /\ status = "parsing" =>
       /\ next \in 1..(Len(Reqs) + 1)
       /\ filter = Loop(next - 1)
       /\ \A i \in 1..(next - 1) : ~Bad(Reqs[i])
  /\ status = "rejected" => \E i \in 1..Len(Reqs) : Bad(Reqs[i])
  /\ status = "accepted" =>
       /\ \A i \in 1..Len(Reqs) : ~Bad(Reqs[i])
       /\ filter = Ended(Loop(Len(Reqs)))

(* The strengthening.                                                        *)
IInv == TypeOK /\ LoopInv

(* The last element of a sequence. *)
LEMMA LastLemma ==
  ASSUME NEW S, NEW q \in Seq(S), Len(q) # 0
  PROVE  Len(q) \in 1..Len(q) /\ q[Len(q)] \in S
<1>1. Len(q) \in Nat
  BY LenProperties
<1>2. \A n \in Nat : n # 0 => n \in 1..n
  OBVIOUS
<1>3. Len(q) \in 1..Len(q)
  BY <1>1, <1>2
<1> QED BY <1>3, ElementOfSeq

(* What a selector is made of.                                               *)
LEMMA SelectorLemma ==
  ASSUME NEW s \in Selectors
  PROVE  /\ s.requirements \in Seq(Requirements)
         /\ Len(s.requirements) \in 0..MaxRequirements
         /\ Len(s.requirements) \in Nat
         /\ s.nil \in BOOLEAN
         /\ s.nil => s.requirements = << >>
<1>1. MaxRequirements \in Nat
  BY FieldSelectorAssumption
<1>2. ASSUME NEW n \in 0..MaxRequirements, NEW q \in [1..n -> Requirements]
      PROVE  q \in Seq(Requirements) /\ Len(q) = n
  <2>1. n \in Nat
    BY <1>1
  <2>2. q \in Seq(Requirements)
    BY <2>1, SeqDef
  <2>3. Len(q) \in Nat /\ 1..n = 1..Len(q)
    BY <2>2, LenProperties
  <2>4. Len(q) = n
    BY <2>1, <2>3
  <2> QED BY <2>2, <2>4
<1>3. CASE s = [nil |-> TRUE, requirements |-> << >>]
  BY <1>1, <1>3, EmptySeq
<1>4. CASE s # [nil |-> TRUE, requirements |-> << >>]
  <2>1. PICK n \in 0..MaxRequirements :
          \E q \in [1..n -> Requirements] : s = [nil |-> FALSE, requirements |-> q]
    BY <1>4 DEF Selectors
  <2>2. PICK q \in [1..n -> Requirements] : s = [nil |-> FALSE, requirements |-> q]
    BY <2>1
  <2>3. Len(q) \in Nat
    BY <1>1, <1>2
  <2> QED BY <1>2, <2>2, <2>3
<1> QED BY <1>3, <1>4

(* What the namespace of a request adds to a filter.                         *)
LEMMA NamespaceLemma ==
  ASSUME NEW ns \in Namespaces
  PROVE  ns.ok \in BOOLEAN /\ ns.namespace \in Strings
<1>1. CASE ns = [ok |-> FALSE, namespace |-> ""]
  BY <1>1, FieldSelectorAssumption
<1>2. CASE ns \in [ok : {TRUE}, namespace : Strings]
  <2>1. ns.ok = TRUE /\ ns.namespace \in Strings
    BY <1>2
  <2> QED BY <2>1
<1> QED BY <1>1, <1>2 DEF Namespaces

(* FilterOf of a requirement that is not bad asks for one of its two strings.*)
LEMMA FilterLemma ==
  ASSUME NEW r \in Requirements
  PROVE  /\ FilterOf(r) \in Filters
         /\ Supported(r) <=> ~Bad(r)
BY FieldSelectorAssumption DEF FilterOf, Filters, Requirements, Supported, Bad

(* What is known once the parser has returned.                               *)
LEMMA EndedLemma ==
  ASSUME NEW f, f = {} \/ \E g \in Filters : f = {g}, namespace \in Namespaces
  PROVE  /\ Ended(f) = {} \/ \E g \in Filters : Ended(f) = {g}
         /\ namespace.ok \in BOOLEAN
<1>1. namespace.namespace \in Strings /\ "" \in Strings
  BY NamespaceLemma, FieldSelectorAssumption
<1>2. namespace.ok \in BOOLEAN
  BY NamespaceLemma
<1>3. CASE f = {}
  <2>1. [name |-> "", namespace |-> namespace.namespace] \in Filters
    BY <1>1 DEF Filters
  <2>2. Ended(f) = {} \/ Ended(f) = {[name |-> "", namespace |-> namespace.namespace]}
    BY <1>3 DEF Ended, WithNamespace
  <2> QED BY <1>2, <2>1, <2>2
<1>4. ASSUME NEW g \in Filters, f = {g}
      PROVE  Ended(f) = {} \/ \E h \in Filters : Ended(f) = {h}
  <2>1. [g EXCEPT !.namespace = namespace.namespace] \in Filters
    BY <1>1 DEF Filters
  <2>2. Ended(f) = {g} \/ Ended(f) = {[g EXCEPT !.namespace = namespace.namespace]}
    BY <1>4 DEF Ended, WithNamespace
  <2> QED BY <2>1, <2>2
<1> QED BY <1>2, <1>3, <1>4

(* The strengthening holds at first.                                         *)
LEMMA ParseInit == Init => IInv
<1> SUFFICES ASSUME Init PROVE IInv
  OBVIOUS
<1>1. Len(Reqs) \in Nat
  BY SelectorLemma DEF Init, Reqs
<1>2. TypeOK
  <2>1. MaxRequirements \in Nat
    BY FieldSelectorAssumption
  <2>2. 1 \in 1..(MaxRequirements + 1) /\ 1..(1 - 1) = {}
    BY <2>1
  <2> QED BY <2>2 DEF Init, TypeOK
<1>3. LoopInv
  BY <1>1 DEF Init, LoopInv, Loop
<1> QED BY <1>2, <1>3 DEF IInv

(* Every step of the parser keeps it.                                        *)
LEMMA ParseStep == IInv /\ [Next]_vars => IInv'
<1> SUFFICES ASSUME IInv, [Next]_vars PROVE IInv'
  OBVIOUS
<1>1. /\ Reqs \in Seq(Requirements) /\ Len(Reqs) \in 0..MaxRequirements
      /\ MaxRequirements \in Nat
      /\ fieldSelector.nil \in BOOLEAN
      /\ fieldSelector.nil => Reqs = << >>
  BY SelectorLemma, FieldSelectorAssumption DEF IInv, TypeOK, Reqs
<1>2. /\ fieldSelector \in Selectors /\ namespace \in Namespaces
      /\ next \in 1..(MaxRequirements + 1)
      /\ filter = {} \/ \E g \in Filters : filter = {g}
  BY DEF IInv, TypeOK
<1>3. CASE ParseNil
  <2>1. /\ status = "parsing" /\ fieldSelector.nil /\ status' = "accepted"
        /\ UNCHANGED <<fieldSelector, namespace, next>>
    BY <1>3 DEF ParseNil, Return
  <2>2. filter' = Ended({})
    BY <1>3 DEF ParseNil, Return, Ended, WithNamespace
  <2>3. Len(Reqs) = 0
    BY <1>1, <2>1
  <2>4. LoopInv'
    BY <2>1, <2>2, <2>3 DEF LoopInv, Loop, Ended, Reqs
  <2>5. filter' = {} \/ \E g \in Filters : filter' = {g}
    BY <1>2, <2>2, EndedLemma
  <2>6. TypeOK'
    BY <1>2, <2>1, <2>5 DEF TypeOK
  <2> QED BY <2>4, <2>6 DEF IInv
<1>4. CASE ParseRequirement
  <2> DEFINE r == Reqs[next]
  <2>1. /\ status = "parsing" /\ ~fieldSelector.nil /\ next <= Len(Reqs)
        /\ next' = next + 1
        /\ UNCHANGED <<fieldSelector, namespace>>
    BY <1>4 DEF ParseRequirement, More, Reqs
  <2>2. r \in Requirements
    BY <1>1, <1>2, <2>1, ElementOfSeq
  <2>3. \A i \in 1..(next - 1) : ~Bad(Reqs[i])
    BY <2>1 DEF IInv, LoopInv
  <2>6. next' \in 1..(MaxRequirements + 1) /\ next \in 1..Len(Reqs)
    BY <1>1, <1>2, <2>1
  <2>4. CASE Supported(r)
    <3>1. filter' = {FilterOf(r)} /\ status' = "parsing"
      BY <1>4, <2>1, <2>4 DEF ParseRequirement, Return, Reqs
    <3>2. ~Bad(r) /\ FilterOf(r) \in Filters
      BY <2>2, <2>4, FilterLemma
    <3>3. \A i \in 1..next : ~Bad(Reqs[i])
      BY <1>2, <2>3, <3>2
    <3>4. LoopInv'
      BY <1>1, <1>2, <2>1, <3>1, <3>3 DEF LoopInv, Loop, Reqs
    <3>5. \A i \in 1..next : Reqs[i].value # ""
      BY <3>3 DEF Bad
    <3>6. TypeOK'
      <4>1. filter' \in {{}} \cup {{f} : f \in Filters}
        BY <3>1, <3>2
      <4>2. \A i \in 1..(next' - 1) : fieldSelector'.requirements[i].value # ""
        <5>1. next' - 1 = next
          BY <1>2, <2>1
        <5>2. fieldSelector'.requirements = Reqs
          BY <2>1 DEF Reqs
        <5> QED BY <3>5, <5>1, <5>2
      <4> QED BY <1>2, <2>1, <2>6, <3>1, <4>1, <4>2 DEF TypeOK
    <3> QED BY <3>4, <3>6 DEF IInv
  <2>5. CASE ~Supported(r)
    <3>1. filter' = {[name |-> "", namespace |-> ""]} /\ status' = "rejected"
      BY <1>4, <2>1, <2>5 DEF ParseRequirement, Return, Reqs
    <3>2. Bad(r)
      BY <2>2, <2>5, FilterLemma
    <3>3. LoopInv'
      BY <2>1, <2>6, <3>1, <3>2 DEF LoopInv, Reqs
    <3>4. [name |-> "", namespace |-> ""] \in Filters
      BY FieldSelectorAssumption DEF Filters
    <3>5. TypeOK'
      <4>1. filter' \in {{}} \cup {{f} : f \in Filters}
        BY <3>1, <3>4
      <4> QED BY <1>2, <2>1, <2>6, <3>1, <4>1 DEF TypeOK
    <3> QED BY <3>3, <3>5 DEF IInv
  <2> QED BY <2>4, <2>5
<1>5. CASE ParseEnd
  <2>1. /\ status = "parsing" /\ ~fieldSelector.nil /\ ~(next <= Len(Reqs))
        /\ status' = "accepted" /\ filter' = Ended(filter)
        /\ UNCHANGED <<fieldSelector, namespace, next>>
    BY <1>5 DEF ParseEnd, More, Return, Ended, Reqs
  <2>2. next - 1 = Len(Reqs)
    BY <1>1, <1>2, <2>1 DEF IInv, LoopInv
  <2>3. filter = Loop(Len(Reqs)) /\ \A i \in 1..Len(Reqs) : ~Bad(Reqs[i])
    BY <2>1, <2>2 DEF IInv, LoopInv
  <2>4. LoopInv'
    BY <2>1, <2>3 DEF LoopInv, Loop, Ended, Reqs
  <2>5. filter' = {} \/ \E g \in Filters : filter' = {g}
    BY <1>2, <2>1, EndedLemma
  <2>6. TypeOK'
    BY <1>2, <2>1, <2>5 DEF TypeOK
  <2> QED BY <2>4, <2>6 DEF IInv
<1>6. CASE UNCHANGED vars
  BY <1>6 DEF IInv, TypeOK, LoopInv, Loop, Ended, Reqs, vars
<1> QED BY <1>3, <1>4, <1>5, <1>6 DEF Next

(* The parser has, after any number of requirements, rejected or recorded    *)
(* what it has read.                                                         *)
THEOREM ParseInvariant == Spec => []IInv
BY ParseInit, ParseStep, PTL DEF Spec

(* The filter is nil or one filter with strings of the selector.             *)
THEOREM ParseTypeCorrect == Spec => []TypeOK
<1>1. IInv => TypeOK
  BY DEF IInv
<1> QED BY <1>1, ParseInvariant, PTL

(* RejectedExactly, for every selector.                                      *)
THEOREM RejectedExactlyAlways == Spec => []RejectedExactly
<1>1. IInv => RejectedExactly
  BY DEF IInv, TypeOK, LoopInv, RejectedExactly, Reqs
<1> QED BY <1>1, ParseInvariant, PTL

(* NilFilterExactly, for every selector.                                     *)
THEOREM NilFilterExactlyAlways == Spec => []NilFilterExactly
<1>1. IInv => NilFilterExactly
  <2> SUFFICES ASSUME IInv, status = "accepted"
               PROVE  filter = {} <=> Reqs = << >> /\ ~namespace.ok
    BY DEF NilFilterExactly, Reqs
  <2>1. Reqs \in Seq(Requirements)
    BY SelectorLemma DEF IInv, TypeOK, Reqs
  <2>2. filter = Ended(Loop(Len(Reqs)))
    BY DEF IInv, LoopInv
  <2>3. Loop(Len(Reqs)) = {} <=> Reqs = << >>
    BY <2>1, EmptySeq DEF Loop
  <2>4. \A f : Ended(f) = {} <=> f = {} /\ ~namespace.ok
    BY DEF Ended, WithNamespace
  <2> QED BY <2>2, <2>3, <2>4
<1> QED BY <1>1, ParseInvariant, PTL

(* NamespaceConfined: a list in a namespace shows that namespace only.       *)
THEOREM NamespaceConfinedAlways == Spec => []NamespaceConfined
<1>1. IInv => NamespaceConfined
  <2> SUFFICES ASSUME IInv, status = "accepted", namespace.ok, namespace.namespace # "",
                      NEW o \in StoredObjects, Kept(o)
               PROVE  o.namespace = namespace.namespace
    BY DEF NamespaceConfined
  <2> DEFINE f == Loop(Len(Reqs))
  <2>1. filter = WithNamespace(f, namespace.namespace)
    BY DEF IInv, LoopInv, Ended
  <2>2. f = {} \/ \E g \in Filters : f = {g}
    <3>1. Reqs \in Seq(Requirements) /\ Len(Reqs) \in Nat
      BY SelectorLemma DEF IInv, TypeOK, Reqs
    <3>2. Len(Reqs) # 0 => Reqs[Len(Reqs)] \in Requirements
      BY <3>1, LastLemma
    <3> QED BY <3>2, FilterLemma DEF Loop
  <2>3. \E g \in filter : g.namespace = namespace.namespace
    <3>1. CASE f = {}
      BY <2>1, <3>1 DEF WithNamespace
    <3>2. ASSUME NEW g \in Filters, f = {g}
          PROVE  \E h \in filter : h.namespace = namespace.namespace
      <4>1. [g EXCEPT !.namespace = namespace.namespace] \in filter
        BY <2>1, <3>2 DEF WithNamespace
      <4>2. [g EXCEPT !.namespace = namespace.namespace].namespace = namespace.namespace
        BY DEF Filters
      <4> QED BY <4>1, <4>2
    <3> QED BY <2>2, <3>1, <3>2
  <2> QED BY <2>3 DEF Kept, Filter
<1> QED BY <1>1, ParseInvariant, PTL

(* NoMatchDropped: a list shows every object that was asked for.             *)
THEOREM NoMatchDroppedAlways == Spec => []NoMatchDropped
<1>1. IInv => NoMatchDropped
  <2> SUFFICES ASSUME IInv, status = "accepted", NEW o \in StoredObjects, Asked(o),
                      NEW f \in filter
               PROVE  ~Filter(f, o)
    BY DEF NoMatchDropped, Kept
  <2>1. filter = Ended(Loop(Len(Reqs))) /\ \A i \in 1..Len(Reqs) : ~Bad(Reqs[i])
    BY DEF IInv, LoopInv
  <2>2. Reqs \in Seq(Requirements) /\ Len(Reqs) \in Nat
    BY SelectorLemma DEF IInv, TypeOK, Reqs
  <2>3. namespace.ok \in BOOLEAN
    BY NamespaceLemma DEF IInv, TypeOK
  <2>4. CASE Len(Reqs) = 0
    <3>1. namespace.ok /\ f = [name |-> "", namespace |-> namespace.namespace]
      BY <2>1, <2>3, <2>4 DEF Loop, Ended, WithNamespace
    <3> QED BY <3>1 DEF Filter, Asked
  <2>5. CASE Len(Reqs) # 0
    <3> DEFINE r == Reqs[Len(Reqs)]
    <3>0. r \in Requirements /\ Len(Reqs) \in 1..Len(Reqs)
      BY <2>2, <2>5, LastLemma
    <3>1. r \in Requirements /\ ~Bad(r) /\ Holds(r, o)
      BY <2>1, <3>0 DEF Asked, Reqs
    <3>2. FilterOf(r) \in Filters /\ ~Filter(FilterOf(r), o)
      BY <3>1, FilterLemma DEF FilterOf, Filter, Holds, Bad
    <3>3. CASE ~namespace.ok
      BY <2>1, <2>5, <3>2, <3>3 DEF Loop, Ended
    <3>4. CASE namespace.ok
      <4>1. f = [FilterOf(r) EXCEPT !.namespace = namespace.namespace]
        BY <2>1, <2>5, <3>4 DEF Loop, Ended, WithNamespace
      <4>2. f.name = FilterOf(r).name /\ f.namespace = namespace.namespace
        BY <3>2, <4>1 DEF Filters
      <4>3. f.name # "" => o.name = f.name
        BY <3>1, <4>2 DEF FilterOf, Holds
      <4> QED BY <3>4, <4>2, <4>3 DEF Filter, Asked
    <3> QED BY <2>3, <3>3, <3>4
  <2> QED BY <2>4, <2>5
<1> QED BY <1>1, ParseInvariant, PTL
=============================================================================
