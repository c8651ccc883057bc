------------------------- MODULE ServerOptionsProofs -------------------------
(***************************************************************************)
(* Lemmas about the functions that customize a server: what applying a list*)
(* of them, of any length, leaves in the object, and the references in the *)
(* OpenAPI definitions.  FoldLeft is unfolded once, into the sequence of   *)
(* the results of the calls; what is proved of the last result goes by     *)
(* induction over that sequence.                                           *)
(***************************************************************************)
EXTENDS ServerOptions, BuilderProofs

(* The maximum of FiniteSetsExt, a CHOOSE, exists on a set of indices.       *)
LEMMA MaxExists ==
  ASSUME NEW n \in Nat, NEW s \in SUBSET (1..n), s # {}
  PROVE  Max(s) \in s /\ \A y \in s : Max(s) >= y
<1> DEFINE HasMax(t) == \E x \in t : \A y \in t : x >= y
           T == {k \in Nat : \A t \in SUBSET (1..k) : t # {} => HasMax(t)}
<1>1. 0 \in T
  <2>1. \A t \in SUBSET (1..0) : t = {}
    OBVIOUS
  <2> HIDE DEF HasMax
  <2> QED BY <2>1
<1>2. ASSUME NEW k \in Nat, k \in T PROVE k + 1 \in T
  <2> SUFFICES ASSUME NEW t \in SUBSET (1..(k+1)), t # {} PROVE HasMax(t)
    OBVIOUS
  <2>1. CASE k + 1 \in t
    BY <2>1
  <2>2. CASE k + 1 \notin t
    <3>1. t \in SUBSET (1..k)
      BY <2>2
    <3> QED BY <1>2, <3>1
  <2> QED BY <2>1, <2>2
<1>3. n \in T
  <2> HIDE DEF T
  <2>1. Nat \subseteq T
    BY <1>1, <1>2, SetInduction
  <2> QED BY <2>1
<1>4. HasMax(s)
  BY <1>3
<1> QED BY <1>4 DEF Max

(* Applying a list is a sequence of calls, each on the result of the one     *)
(* before it.                                                                *)
LEMMA FoldSteps ==
  ASSUME NEW S, NEW fns \in Seq(S)
  PROVE  \E R : /\ R[0] = NothingApplied
                /\ \A k \in 1..Len(fns) : R[k] = Call1(R[k-1], fns[k])
                /\ ApplyFns(fns) = R[Len(fns)]
<1> DEFINE n == Len(fns)
           Step(f, s) == IF s = {} THEN NothingApplied
                         ELSE Call1(f[s \ {Max(s)}], fns[Max(s)])
           Fun(f, k) == f = [s \in SUBSET (1..k) |-> Step(f, s)]
           F == CHOOSE f : Fun(f, n)
           T == {k \in Nat : \E f : Fun(f, k)}
<1>1. n \in Nat /\ DOMAIN fns = 1..n
  BY LenProperties
<1>2. 0 \in T
  <2> DEFINE f == [s \in SUBSET (1..0) |-> NothingApplied]
  <2>1. f = [s \in SUBSET (1..0) |-> Step(f, s)]
    <3>1. \A s \in SUBSET (1..0) : s = {}
      OBVIOUS
    <3>2. \A s \in SUBSET (1..0) : Step(f, s) = NothingApplied
      BY <3>1
    <3> HIDE DEF Step
    <3> QED BY <3>2
  <2> HIDE DEF f, Step
  <2> QED BY <2>1
<1>3. ASSUME NEW k \in Nat, k \in T PROVE k + 1 \in T
  <2>1. PICK f : f = [s \in SUBSET (1..k) |-> Step(f, s)]
    BY <1>3
  <2> DEFINE h == [s \in SUBSET (1..(k+1)) |-> Step(f, s)]
  <2>2. \A s \in SUBSET (1..k) : h[s] = f[s]
    <3> HIDE DEF Step
    <3>1. \A s \in SUBSET (1..k) : f[s] = Step(f, s)
      BY <2>1, Zenon
    <3>2. \A s \in SUBSET (1..k) : s \in SUBSET (1..(k+1))
      OBVIOUS
    <3>3. \A s \in SUBSET (1..(k+1)) : h[s] = Step(f, s)
      OBVIOUS
    <3> HIDE DEF h
    <3> QED BY <3>1, <3>2, <3>3
  <2>3. ASSUME NEW s \in SUBSET (1..(k+1)) PROVE Step(f, s) = Step(h, s)
    <3> SUFFICES ASSUME s # {} PROVE f[s \ {Max(s)}] = h[s \ {Max(s)}]
      OBVIOUS
    <3>1. s \ {Max(s)} \in SUBSET (1..k)
      <4>1. Max(s) \in s /\ \A y \in s : Max(s) >= y
        <5>1. k + 1 \in Nat
          OBVIOUS
        <5> QED BY <5>1, MaxExists
      <4>2. PICK m : m = Max(s)
        OBVIOUS
      <4>3. m \in s /\ \A y \in s : m >= y
        BY <4>1, <4>2
      <4>4. \A y \in s : y \in 1..(k+1)
        OBVIOUS
      <4>5. s \ {m} \in SUBSET (1..k)
        BY ONLY <4>3, <4>4, k \in Nat
      <4> QED BY <4>2, <4>5
    <3> HIDE DEF h
    <3> QED BY <2>2, <3>1
  <2>4. h = [s \in SUBSET (1..(k+1)) |-> Step(h, s)]
    <3>1. h = [s \in SUBSET (1..(k+1)) |-> Step(f, s)]
      OBVIOUS
    <3> HIDE DEF h, Step
    <3> QED BY <2>3, <3>1
  <2>5. Fun(h, k+1)
    BY <2>4
  <2> HIDE DEF h, Fun
  <2> QED BY <2>5
<1>4. Fun(F, n)
  <2> HIDE DEF T
  <2>1. Nat \subseteq T
    BY <1>2, <1>3, SetInduction
  <2>2. \E f : Fun(f, n)
    BY <1>1, <2>1 DEF T
  <2> HIDE DEF Fun
  <2> QED BY <2>2
<1>5. ApplyFns(fns) = F[1..n]
  BY <1>1, Zenon DEF ApplyFns, FoldLeft, MapThenFoldSet
<1> DEFINE R == [k \in 0..n |-> F[1..k]]
<1> HIDE DEF F
<1>6. \A s \in SUBSET (1..n) : F[s] = Step(F, s)
  <2> HIDE DEF Step
  <2> QED BY <1>4, Zenon
<1>7. R[0] = NothingApplied
  <2>1. R[0] = F[{}] /\ {} \in SUBSET (1..n)
    BY <1>1
  <2> QED BY <1>6, <2>1
<1>8. ASSUME NEW k \in 1..n PROVE R[k] = Call1(R[k-1], fns[k])
  <2>1. 1..k \in SUBSET (1..n) /\ 1..k # {} /\ k \in Nat
    <3>1. n \in Nat /\ k \in 1..n
      BY <1>1
    <3>2. k \in 1..k /\ k \in Nat /\ \A i \in 1..k : i \in 1..n
      BY ONLY <3>1
    <3> QED BY ONLY <3>2
  <2>2. Max(1..k) = k
    <3>1. Max(1..k) \in 1..k /\ \A y \in 1..k : Max(1..k) >= y
      BY <2>1, MaxExists
    <3> QED BY <3>1
  <2>3. (1..k) \ {k} = 1..(k-1) /\ k - 1 \in 0..n /\ k \in 0..n
    <3>1. n \in Nat /\ k \in 1..n
      BY <1>1
    <3> QED BY ONLY <3>1
  <2>4. F[1..k] = Call1(F[1..(k-1)], fns[k])
    BY <1>6, <2>1, <2>2, <2>3
  <2>5. R[k] = F[1..k] /\ R[k-1] = F[1..(k-1)]
    BY <2>3
  <2> QED BY <2>4, <2>5
<1>9. ApplyFns(fns) = R[n]
  BY <1>1, <1>5
<1> HIDE DEF R
<1> QED BY <1>7, <1>8, <1>9
-----------------------------------------------------------------------------
(* Why a call may panic: an earlier function returned nil or removed a field *)
(* that it dereferences.                                                     *)
Cause(fns) ==
  \/ \E i \in DOMAIN fns : fns[i].does = "nil"
  \/ \E i, j \in DOMAIN fns : i < j /\ fns[i].field = "Authentication" /\ fns[j] = RemoteFn
  \/ \E i, j \in DOMAIN fns : fns[i].field = "SecureServing" /\ fns[j].field = "Authorization"

(* The last of the first k functions that sets the field of the ith one.     *)
LastSetter(fns, i, k, j) ==
  /\ i <= j /\ Sets(fns[j]) /\ fns[j].field = fns[i].field
  /\ \A m \in 1..k : Sets(fns[m]) /\ fns[m].field = fns[i].field => m <= j

(* A field and its value come from one of the first k functions.             *)
FromFns(object, fns, k) ==
  \A x \in DOMAIN object : \E i \in 1..k :
    Sets(fns[i]) /\ fns[i].field = x /\ fns[i].value = object[x]

(* The first k functions that set a field have, the last of each counting.   *)
LastOK(object, fns, k) ==
  \A i \in 1..k : Sets(fns[i]) =>
    \E j \in 1..k : /\ LastSetter(fns, i, k, j)
                   /\ fns[i].field \in DOMAIN object
                   /\ object[fns[i].field] = fns[j].value

(* The rest of what holds of the result c of the first k functions.          *)
ResultOK(c, fns, k) ==
  /\ DOMAIN c = {"object", "last", "same", "nil", "ok"}
  /\ c.same \in BOOLEAN /\ c.nil \in BOOLEAN /\ c.ok \in BOOLEAN
  /\ c.same => c.object = c.last
  /\ (\A i \in 1..k : fns[i].does \in {"set", "read"}) => c.same
  /\ c.nil => \E i \in 1..k : fns[i].does = "nil"
  /\ ~c.ok => Cause(fns)

(* What is claimed of every result in the sequence.                          *)
ApplyOK(c, fns, k) ==
  /\ c.ok => LastOK(c.last, fns, k)
  /\ FromFns(c.object, fns, k) /\ FromFns(c.last, fns, k)
  /\ ResultOK(c, fns, k)

(* What a function can do with its field.                                    *)
Does(f) == f.does \in {"set", "copy", "read", "nil"}

(* An assignment to a field of the object.                                   *)
LEMMA FromFnsPut ==
  ASSUME NEW fns, NEW k \in Nat, NEW object, FromFns(object, fns, k), Sets(fns[k + 1])
  PROVE  FromFns(Put(object, fns[k + 1].field, fns[k + 1].value), fns, k + 1)
<1> DEFINE f == fns[k + 1]
           new == Put(object, f.field, f.value)
<1> SUFFICES ASSUME NEW x \in DOMAIN new
             PROVE  \E i \in 1..(k + 1) :
                      Sets(fns[i]) /\ fns[i].field = x /\ fns[i].value = new[x]
  BY DEF FromFns
<1>1. CASE x = f.field
  <2>1. new[x] = f.value /\ k + 1 \in 1..(k + 1)
    BY <1>1 DEF Put
  <2> QED BY <1>1, <2>1
<1>2. CASE x # f.field
  <2>1. x \in DOMAIN object /\ new[x] = object[x]
    BY <1>2 DEF Put
  <2>2. PICK i \in 1..k : Sets(fns[i]) /\ fns[i].field = x /\ fns[i].value = object[x]
    BY <2>1 DEF FromFns
  <2>3. i \in 1..(k + 1)
    OBVIOUS
  <2> QED BY <2>1, <2>2, <2>3
<1> QED BY <1>1, <1>2

(* One call keeps it. *)
LEMMA Call1OK ==
  ASSUME NEW S, NEW fns \in Seq(S), NEW k \in Nat, k + 1 \in 1..Len(fns),
         \A i \in 1..Len(fns) : Does(fns[i]),
         NEW c, ApplyOK(c, fns, k)
  PROVE  ApplyOK(Call1(c, fns[k + 1]), fns, k + 1)
<1> DEFINE f == fns[k + 1]
           d == Call1(c, f)
           set == Put(c.last, f.field, f.value)
<1>1. /\ DOMAIN fns = 1..Len(fns) /\ Len(fns) \in Nat /\ k + 1 \in DOMAIN fns
      /\ \A i \in 1..k : i \in 1..(k + 1) /\ i \in DOMAIN fns /\ i < k + 1
      /\ \A i \in 1..(k + 1) : i \in 1..k \/ i = k + 1
      /\ k + 1 \in 1..(k + 1)
  BY LenProperties
<1>2. /\ DOMAIN c = {"object", "last", "same", "nil", "ok"}
      /\ c.same \in BOOLEAN /\ c.nil \in BOOLEAN /\ c.ok \in BOOLEAN
      /\ FromFns(c.object, fns, k) /\ FromFns(c.last, fns, k)
      /\ c.same => c.object = c.last
      /\ (\A i \in 1..k : fns[i].does \in {"set", "read"}) => c.same
      /\ c.nil => \E i \in 1..k : fns[i].does = "nil"
      /\ ~c.ok => Cause(fns)
  BY DEF ApplyOK, ResultOK
<1>3. ASSUME NEW object, FromFns(object, fns, k) PROVE FromFns(object, fns, k + 1)
  BY <1>1, <1>3 DEF FromFns
<1>4. (\A i \in 1..(k + 1) : fns[i].does \in {"set", "read"}) =>
        f.does \in {"set", "read"} /\ \A i \in 1..k : fns[i].does \in {"set", "read"}
  BY <1>1
<1>5. ASSUME c.ok, ~Sets(f)
      PROVE  LastOK(c.last, fns, k + 1)
  <2> SUFFICES ASSUME NEW i \in 1..k, Sets(fns[i])
               PROVE  \E j \in 1..(k + 1) : /\ LastSetter(fns, i, k + 1, j)
                                           /\ fns[i].field \in DOMAIN c.last
                                           /\ c.last[fns[i].field] = fns[j].value
    BY <1>1, <1>5 DEF LastOK
  <2>1. PICK j \in 1..k : /\ LastSetter(fns, i, k, j)
                          /\ fns[i].field \in DOMAIN c.last
                          /\ c.last[fns[i].field] = fns[j].value
    BY <1>5 DEF ApplyOK, LastOK
  <2>2. LastSetter(fns, i, k + 1, j)
    BY <1>1, <1>5, <2>1 DEF LastSetter
  <2> QED BY <1>1, <2>1, <2>2
<1>6. ASSUME c.ok, Sets(f)
      PROVE  LastOK(set, fns, k + 1)
  <2> SUFFICES ASSUME NEW i \in 1..(k + 1), Sets(fns[i])
               PROVE  \E j \in 1..(k + 1) : /\ LastSetter(fns, i, k + 1, j)
                                           /\ fns[i].field \in DOMAIN set
                                           /\ set[fns[i].field] = fns[j].value
    BY DEF LastOK
  <2>1. CASE fns[i].field = f.field
    <3>1. fns[i].field \in DOMAIN set /\ set[fns[i].field] = f.value
      BY <2>1 DEF Put
    <3>2. LastSetter(fns, i, k + 1, k + 1)
      BY <1>6, <2>1 DEF LastSetter
    <3> QED BY <1>1, <3>1, <3>2
  <2>2. CASE fns[i].field # f.field
    <3>1. i \in 1..k
      BY <1>1, <2>2
    <3>2. PICK j \in 1..k : /\ LastSetter(fns, i, k, j)
                            /\ fns[i].field \in DOMAIN c.last
                            /\ c.last[fns[i].field] = fns[j].value
      BY <1>6, <3>1 DEF ApplyOK, LastOK
    <3>3. LastSetter(fns, i, k + 1, j)
      BY <1>1, <2>2, <3>2 DEF LastSetter
    <3>4. fns[i].field \in DOMAIN set /\ set[fns[i].field] = c.last[fns[i].field]
      BY <2>2, <3>2 DEF Put
    <3> QED BY <1>1, <3>2, <3>3, <3>4
  <2> QED BY <2>1, <2>2
<1>7. ASSUME c.ok, Panics(c, f) PROVE Cause(fns)
  <2>1. CASE c.nil
    BY <1>1, <1>2, <2>1 DEF Cause
  <2>2. ASSUME NEW x, IsNil(c.last, x) PROVE \E i \in 1..k : fns[i].field = x
    BY <1>2, <2>2 DEF IsNil, FromFns
  <2>3. CASE f = RemoteFn /\ IsNil(c.last, "Authentication")
    BY <1>1, <2>2, <2>3 DEF Cause
  <2>4. CASE f.field = DebugFn.field /\ IsNil(c.last, "SecureServing")
    <3>1. f.field = "Authorization"
      BY <2>4 DEF DebugFn, Fn
    <3> QED BY <1>1, <2>2, <2>4, <3>1 DEF Cause
  <2> QED BY <1>7, <2>1, <2>3, <2>4 DEF Panics
<1>8. CASE ~c.ok
  <2>1. d = c
    BY <1>8 DEF Call1
  <2>2. ResultOK(c, fns, k + 1)
    BY <1>1, <1>2, <1>4 DEF ResultOK
  <2> QED BY <1>2, <1>3, <1>8, <2>1, <2>2 DEF ApplyOK
<1>9. CASE c.ok /\ Panics(c, f)
  <2>1. d = [c EXCEPT !.ok = FALSE]
    BY <1>9 DEF Call1
  <2>2. /\ DOMAIN d = DOMAIN c /\ d.object = c.object /\ d.last = c.last
        /\ d.same = c.same /\ d.nil = c.nil /\ d.ok = FALSE
    BY <1>2, <2>1
  <2> HIDE DEF d
  <2>3. ResultOK(d, fns, k + 1)
    BY <1>1, <1>2, <1>4, <1>7, <1>9, <2>2 DEF ResultOK
  <2> QED BY <1>2, <1>3, <2>2, <2>3 DEF ApplyOK, d
<1>10. CASE c.ok /\ ~Panics(c, f)
  <2>1. d = CASE f.does = "nil"  -> [c EXCEPT !.nil = TRUE]
              [] f.does = "read" -> c
              [] f.does = "copy" -> [c EXCEPT !.last = set, !.same = FALSE]
              [] f.does = "set"  -> [c EXCEPT !.last = set, !.object = IF c.same THEN set ELSE @]
    BY <1>10 DEF Call1
  <2>2. CASE f.does = "nil"
    <3>1. d = [c EXCEPT !.nil = TRUE]
      BY <2>1, <2>2
    <3>2. /\ DOMAIN d = DOMAIN c /\ d.object = c.object /\ d.last = c.last
          /\ d.same = c.same /\ d.nil = TRUE /\ d.ok = c.ok
      BY <1>2, <3>1
    <3>3. ~Sets(f)
      BY <2>2 DEF Sets
    <3> HIDE DEF d
    <3>4. ResultOK(d, fns, k + 1)
      BY <1>1, <1>2, <1>4, <2>2, <3>2 DEF ResultOK
    <3>5. FromFns(d.object, fns, k + 1) /\ FromFns(d.last, fns, k + 1)
      BY <1>2, <1>3, <3>2
    <3>6. LastOK(d.last, fns, k + 1)
      BY <1>5, <1>10, <3>2, <3>3
    <3>7. ApplyOK(d, fns, k + 1)
      BY <3>4, <3>5, <3>6 DEF ApplyOK
    <3> QED BY <3>7 DEF d
  <2>3. CASE f.does = "read"
    <3>1. d = c
      BY <2>1, <2>3
    <3>3. ~Sets(f)
      BY <2>3 DEF Sets
    <3> HIDE DEF d
    <3>4. ResultOK(d, fns, k + 1)
      BY <1>1, <1>2, <1>4, <2>3, <3>1 DEF ResultOK
    <3> QED BY <1>2, <1>3, <1>5, <1>10, <3>1, <3>3, <3>4 DEF ApplyOK, d
  <2>4. CASE f.does = "copy"
    <3>1. d = [c EXCEPT !.last = set, !.same = FALSE]
      BY <2>1, <2>4
    <3> HIDE DEF set
    <3>2. /\ DOMAIN d = DOMAIN c /\ d.object = c.object /\ d.last = set
          /\ d.same = FALSE /\ d.nil = c.nil /\ d.ok = c.ok
      BY <1>2, <3>1
    <3>3. Sets(f)
      BY <2>4 DEF Sets
    <3>4. FromFns(set, fns, k + 1)
      BY <1>2, <3>3, FromFnsPut DEF set
    <3> HIDE DEF d
    <3>5. ResultOK(d, fns, k + 1)
      BY <1>1, <1>2, <1>4, <2>4, <3>2 DEF ResultOK
    <3>6. FromFns(d.object, fns, k + 1) /\ FromFns(d.last, fns, k + 1)
      BY <1>2, <1>3, <3>2, <3>4
    <3>7. LastOK(d.last, fns, k + 1)
      BY <1>6, <1>10, <3>2, <3>3
    <3>8. ApplyOK(d, fns, k + 1)
      BY <3>5, <3>6, <3>7 DEF ApplyOK
    <3> QED BY <3>8 DEF d
  <2>5. CASE f.does = "set"
    <3>1. d = [c EXCEPT !.last = set, !.object = IF c.same THEN set ELSE @]
      BY <2>1, <2>5
    <3> HIDE DEF set
    <3>2. /\ DOMAIN d = DOMAIN c /\ d.object = (IF c.same THEN set ELSE c.object)
          /\ d.last = set /\ d.same = c.same /\ d.nil = c.nil /\ d.ok = c.ok
      BY <1>2, <3>1
    <3>3. Sets(f)
      BY <2>5 DEF Sets
    <3>4. FromFns(set, fns, k + 1)
      BY <1>2, <3>3, FromFnsPut DEF set
    <3> HIDE DEF d
    <3>5. ResultOK(d, fns, k + 1)
      BY <1>1, <1>2, <1>4, <2>5, <3>2 DEF ResultOK
    <3>6. FromFns(d.object, fns, k + 1)
      BY <1>2, <1>3, <3>2, <3>4
    <3>7. FromFns(d.last, fns, k + 1)
      BY <3>2, <3>4
    <3>8. LastOK(d.last, fns, k + 1)
      BY <1>6, <1>10, <3>2, <3>3
    <3>9. ApplyOK(d, fns, k + 1)
      BY <3>5, <3>6, <3>7, <3>8 DEF ApplyOK
    <3> QED BY <3>9 DEF d
  <2>6. Does(f)
    BY <1>1
  <2> QED BY <2>2, <2>3, <2>4, <2>5, <2>6 DEF Does
<1> QED BY <1>2, <1>8, <1>9, <1>10

(* Whatever the length of the list. *)
LEMMA ApplyLemma ==
  ASSUME NEW S, NEW fns \in Seq(S), \A i \in 1..Len(fns) : Does(fns[i])
  PROVE  ApplyOK(ApplyFns(fns), fns, Len(fns))
<1>1. PICK R : /\ R[0] = NothingApplied
               /\ \A k \in 1..Len(fns) : R[k] = Call1(R[k-1], fns[k])
               /\ ApplyFns(fns) = R[Len(fns)]
  BY FoldSteps
<1> DEFINE T == {k \in Nat : k \in 0..Len(fns) => ApplyOK(R[k], fns, k)}
<1>2. Len(fns) \in Nat
  BY LenProperties
<1>3. 0 \in T
  <2>1. ApplyOK(NothingApplied, fns, 0)
    BY DEF ApplyOK, ResultOK, LastOK, NothingApplied, FromFns, EmptyMap
  <2> QED BY <1>1, <2>1
<1>4. ASSUME NEW k \in Nat, k \in T PROVE k + 1 \in T
  <2> SUFFICES ASSUME k + 1 \in 0..Len(fns) PROVE ApplyOK(R[k + 1], fns, k + 1)
    OBVIOUS
  <2>1. k + 1 \in 1..Len(fns) /\ k \in 0..Len(fns) /\ (k + 1) - 1 = k
    BY <1>2
  <2>2. R[k + 1] = Call1(R[k], fns[k + 1]) /\ ApplyOK(R[k], fns, k)
    BY <1>1, <1>4, <2>1
  <2> DEFINE c == R[k]
  <2> HIDE DEF c
  <2>3. ApplyOK(Call1(c, fns[k + 1]), fns, k + 1)
    BY <2>1, <2>2, Call1OK DEF c
  <2> QED BY <2>2, <2>3 DEF c
<1>5. Len(fns) \in T
  <2> HIDE DEF T
  <2> QED BY <1>2, <1>3, <1>4, SetInduction
<1> QED BY <1>1, <1>2, <1>5

(* What a list of functions that has run to its end leaves, Has says.        *)
LEMMA AppliedHas ==
  ASSUME NEW S, NEW fns \in Seq(S), NEW object, LastOK(object, fns, Len(fns))
  PROVE  Has(object, fns)
<1>1. DOMAIN fns = 1..Len(fns) /\ Len(fns) \in Nat
  BY LenProperties
<1> SUFFICES ASSUME NEW i \in 1..Len(fns), Sets(fns[i])
             PROVE  fns[i].field \in DOMAIN object /\ object[fns[i].field] \in Asked(fns, fns[i].field)
  BY <1>1 DEF Has
<1>2. PICK j \in 1..Len(fns) : /\ LastSetter(fns, i, Len(fns), j)
                              /\ fns[i].field \in DOMAIN object
                              /\ object[fns[i].field] = fns[j].value
  BY DEF LastOK
<1>3. fns[j] \in Latest(fns, fns[i].field)
  BY <1>1, <1>2 DEF Latest, LastSetter
<1> QED BY <1>2, <1>3 DEF Asked

(* At most one function of a list is the last one that sets a field.         *)
LEMMA LatestUnique ==
  ASSUME NEW S, NEW fns \in Seq(S), NEW x, NEW f \in Latest(fns, x), NEW g \in Latest(fns, x)
  PROVE  f = g
<1>1. DOMAIN fns = 1..Len(fns) /\ Len(fns) \in Nat
  BY LenProperties
<1> DEFINE sets == {i \in DOMAIN fns : Sets(fns[i]) /\ fns[i].field = x}
<1>2. PICK i \in sets : f = fns[i] /\ \A k \in sets : k <= i
  BY DEF Latest
<1>3. PICK j \in sets : g = fns[j] /\ \A k \in sets : k <= j
  BY DEF Latest
<1>4. i = j
  <2>1. i <= j /\ j <= i
    BY <1>2, <1>3
  <2>2. i \in Nat /\ j \in Nat
    BY <1>1
  <2> HIDE DEF sets
  <2> QED BY <2>1, <2>2
<1> QED BY <1>2, <1>3, <1>4

(* The value that a list gives to a field is that of its last function.      *)
LEMMA HasLatest ==
  ASSUME NEW S, NEW fns \in Seq(S), NEW object, Has(object, fns), NEW x, NEW f \in Latest(fns, x)
  PROVE  x \in DOMAIN object /\ object[x] = f.value
<1>1. PICK i \in DOMAIN fns : Sets(fns[i]) /\ fns[i].field = x /\ f = fns[i]
  BY DEF Latest
<1>2. x \in DOMAIN object /\ object[x] \in Asked(fns, x)
  BY <1>1 DEF Has
<1>3. PICK g \in Latest(fns, x) : object[x] = g.value
  BY <1>2 DEF Asked
<1> QED BY <1>2, <1>3, LatestUnique

-----------------------------------------------------------------------------
(* The functions that the three lists hold. *)
OptionsKinds == OptionsFns \cup {WithoutEtcdFn, DebugFn, RemoteFn}
(* The functions that can be in the list of configuration functions.         *)
ConfigKinds == ConfigFns \cup {OpenAPIFn(defs) : defs \in OpenAPI}

(* Each list has functions of its own kind.                                  *)
ListsOK ==
  /\ ServerOptionsFns \in Seq(OptionsKinds)
  /\ RecommendedConfigFns \in Seq(ConfigKinds)
  /\ GenericAPIServerFns \in Seq(ServerFns)
  /\ DOMAIN applied = Servers

(* The fields of the functions that the builder itself appends.              *)
LEMMA FnFields ==
  /\ WithoutEtcdFn.field = "Etcd" /\ WithoutEtcdFn.does = "set"
  /\ DebugFn.field = "Authorization" /\ DebugFn.does = "set"
  /\ RemoteFn.field = "RemoteKubeConfigFileOptional" /\ RemoteFn.does = "set"
  /\ \A defs : /\ OpenAPIFn(defs).field = "OpenAPIConfig" /\ OpenAPIFn(defs).does = "set"
               /\ OpenAPIFn(defs).value = GetDefinitions(BuiltIn, defs)
BY DEF WithoutEtcdFn, DebugFn, RemoteFn, OpenAPIFn, Fn

(* The functions on the options do what a function can do.                   *)
LEMMA OptionsKindsLemma ==
  ASSUME NEW f \in OptionsKinds
  PROVE  Does(f) /\ (f.field = "Authorization" => f = DebugFn)
BY FnFields, OptionsAssumption DEF OptionsKinds, Does

(* Those on the configuration too.                                           *)
LEMMA ConfigKindsLemma ==
  ASSUME NEW f \in ConfigKinds \cup ServerFns
  PROVE  Does(f) /\ f # RemoteFn /\ f.field # "Authorization"
BY FnFields, OptionsAssumption DEF ConfigKinds, Does

(* The list that Complete applies. *)
LEMMA EffectiveLemma ==
  ASSUME ListsOK, NEW debug
  PROVE  LET fns == Effective(debug)
         IN  /\ \E S : fns \in Seq(S)
             /\ Len(fns) = Len(ServerOptionsFns) /\ DOMAIN fns = DOMAIN ServerOptionsFns
             /\ \A i \in DOMAIN fns :
                  /\ Does(fns[i])
                  /\ fns[i].field = ServerOptionsFns[i].field
                  /\ fns[i].does \in {ServerOptionsFns[i].does, "read"}
                  /\ fns[i] = RemoteFn => ServerOptionsFns[i] = RemoteFn
                  /\ fns[i].field = "Authorization" /\ Sets(fns[i])
                       => debug /\ ServerOptionsFns[i] = DebugFn
<1> DEFINE fns == Effective(debug)
           off == [DebugFn EXCEPT !.does = "read"]
           S == OptionsKinds \cup {off}
           n == Len(ServerOptionsFns)
<1>1. n \in Nat /\ DOMAIN ServerOptionsFns = 1..n /\ ServerOptionsFns \in [1..n -> OptionsKinds]
  BY LenProperties DEF ListsOK
<1>2. off.field = "Authorization" /\ off.does = "read"
  BY DEF DebugFn, Fn
<1> HIDE DEF off
<1>3. fns = [i \in 1..n |-> IF ServerOptionsFns[i] = DebugFn /\ ~debug THEN off ELSE ServerOptionsFns[i]]
  BY <1>1 DEF Effective, off
<1>4. fns \in [1..n -> S]
  BY <1>1, <1>3
<1>5. fns \in Seq(S)
  BY <1>1, <1>4, SeqDef
<1>6. Len(fns) = n /\ DOMAIN fns = 1..n
  BY <1>1, <1>4, <1>5, LenProperties
<1>7. ASSUME NEW i \in 1..n
      PROVE  /\ Does(fns[i])
             /\ fns[i].field = ServerOptionsFns[i].field
             /\ fns[i].does \in {ServerOptionsFns[i].does, "read"}
             /\ fns[i] = RemoteFn => ServerOptionsFns[i] = RemoteFn
             /\ fns[i].field = "Authorization" /\ Sets(fns[i])
                  => debug /\ ServerOptionsFns[i] = DebugFn
  <2>1. ServerOptionsFns[i] \in OptionsKinds
    BY <1>1
  <2>2. CASE ServerOptionsFns[i] = DebugFn /\ ~debug
    <3>1. fns[i] = off
      BY <1>3, <2>2
    <3> QED BY <1>2, <2>2, <3>1, FnFields DEF Does, Sets
  <2>3. CASE ~(ServerOptionsFns[i] = DebugFn /\ ~debug)
    <3>1. fns[i] = ServerOptionsFns[i]
      BY <1>3, <2>3
    <3>2. Does(fns[i]) /\ (fns[i].field = "Authorization" => fns[i] = DebugFn)
      BY <2>1, <3>1, OptionsKindsLemma
    <3> QED BY <2>3, <3>1, <3>2
  <2> QED BY <2>2, <2>3
<1> HIDE DEF fns
<1> QED BY <1>1, <1>5, <1>6, <1>7 DEF fns

(* What the three lists leave, when a server is started. *)
LEMMA CompleteLemma ==
  ASSUME ListsOK, NEW debug
  PROVE  LET o == Complete(debug)
             fns == Effective(debug)
         IN  /\ ApplyOK(o, fns, Len(ServerOptionsFns))
             /\ o.ok => LastOK(o.last, fns, Len(fns))
             /\ \A x \in DOMAIN o.object : \E i \in DOMAIN fns :
                  Sets(fns[i]) /\ fns[i].field = x
             /\ InPlace => o.object = o.last
<1> DEFINE o == Complete(debug)
           fns == Effective(debug)
<1>1. PICK S : fns \in Seq(S)
  BY EffectiveLemma
<1>2. /\ Len(fns) = Len(ServerOptionsFns) /\ DOMAIN fns = DOMAIN ServerOptionsFns
      /\ \A i \in DOMAIN fns : Does(fns[i]) /\ fns[i].does \in {ServerOptionsFns[i].does, "read"}
  BY EffectiveLemma
<1>3. DOMAIN fns = 1..Len(fns)
  BY <1>1, LenProperties
<1> HIDE DEF fns
<1>4. ApplyOK(ApplyFns(fns), fns, Len(fns))
  BY <1>1, <1>2, <1>3, ApplyLemma
<1>5. o = ApplyFns(fns)
  BY DEF Complete, fns
<1> HIDE DEF o
<1>6. InPlace => \A i \in 1..Len(fns) : fns[i].does \in {"set", "read"}
  BY <1>2, <1>3 DEF InPlace
<1>7. ApplyOK(o, fns, Len(fns))
  BY <1>4, <1>5
<1>8. InPlace => o.object = o.last
  BY <1>6, <1>7 DEF ApplyOK, ResultOK
<1>9. \A x \in DOMAIN o.object : \E i \in DOMAIN fns : Sets(fns[i]) /\ fns[i].field = x
  BY <1>3, <1>7 DEF ApplyOK, FromFns
<1>10. o.ok => LastOK(o.last, fns, Len(fns))
  BY <1>7 DEF ApplyOK
<1> QED BY <1>2, <1>7, <1>8, <1>9, <1>10 DEF o, fns

(* What applying the configuration functions gives.                          *)
LEMMA ConfigLemma ==
  ASSUME ListsOK
  PROVE  LET c == ApplyFns(RecommendedConfigFns)
         IN  /\ c.ok => Has(c.last, RecommendedConfigFns)
             /\ FromFns(c.last, RecommendedConfigFns, Len(RecommendedConfigFns))
             /\ ~(c.ok /\ ~c.nil) => \E i \in DOMAIN RecommendedConfigFns :
                                     RecommendedConfigFns[i].does = "nil"
<1> DEFINE fns == RecommendedConfigFns
           c == ApplyFns(fns)
<1>1. /\ fns \in Seq(ConfigKinds) /\ DOMAIN fns = 1..Len(fns)
      /\ \A i \in DOMAIN fns : fns[i] \in ConfigKinds
  BY LenProperties DEF ListsOK
<1>2. \A i \in DOMAIN fns : Does(fns[i]) /\ fns[i] # RemoteFn /\ fns[i].field # "Authorization"
  BY <1>1, ConfigKindsLemma
<1>3. ApplyOK(c, fns, Len(fns))
  BY <1>1, <1>2, ApplyLemma
<1> HIDE DEF c
<1>4. c.ok => Has(c.last, fns)
  BY <1>1, <1>3, AppliedHas DEF ApplyOK
<1>5. ~(c.ok /\ ~c.nil) => \E i \in DOMAIN fns : fns[i].does = "nil"
  BY <1>1, <1>2, <1>3 DEF ApplyOK, ResultOK, Cause
<1> QED BY <1>3, <1>4, <1>5 DEF c, ApplyOK

(* What applying the server functions gives.                                 *)
LEMMA ServerLemma ==
  ASSUME ListsOK
  PROVE  LET g == ApplyFns(GenericAPIServerFns)
         IN  /\ g.ok => Has(g.last, GenericAPIServerFns)
             /\ ~(g.ok /\ ~g.nil) => \E i \in DOMAIN GenericAPIServerFns :
                                     GenericAPIServerFns[i].does = "nil"
<1> DEFINE fns == GenericAPIServerFns
           g == ApplyFns(fns)
<1>1. /\ fns \in Seq(ServerFns) /\ DOMAIN fns = 1..Len(fns)
      /\ \A i \in DOMAIN fns : fns[i] \in ServerFns
  BY LenProperties DEF ListsOK
<1>2. \A i \in DOMAIN fns : Does(fns[i]) /\ fns[i] # RemoteFn /\ fns[i].field # "Authorization"
  BY <1>1, ConfigKindsLemma
<1>3. ApplyOK(g, fns, Len(fns))
  BY <1>1, <1>2, ApplyLemma
<1> HIDE DEF g
<1>4. g.ok => Has(g.last, fns)
  BY <1>1, <1>3, AppliedHas DEF ApplyOK
<1>5. ~(g.ok /\ ~g.nil) => \E i \in DOMAIN fns : fns[i].does = "nil"
  BY <1>1, <1>2, <1>3 DEF ApplyOK, ResultOK, Cause
<1> QED BY <1>4, <1>5 DEF g

-----------------------------------------------------------------------------
(* The builder methods append functions of the right kind. *)
LEMMA CustomizeStep ==
  ASSUME ListsOK, Customize, \E S : FlagsFns \in Seq(S)
  PROVE  /\ ListsOK' /\ (\E S : FlagsFns \in Seq(S))'
         /\ UNCHANGED <<applied, regVars, Scheme, phase, active, cursor, cmd, panicked>>
         /\ UNCHANGED <<Schemes, EtcdPath, serverEtcdPath>>
         /\ Idle
<1> DEFINE Good(options, configs, servers, flags) ==
             /\ options \in Seq(OptionsKinds) /\ configs \in Seq(ConfigKinds)
             /\ servers \in Seq(ServerFns) /\ flags \in Seq({DebugFlagFn})
<1>1. PICK options, configs, servers, flags :
        AppendFns(options, configs, servers, flags) /\ Good(options, configs, servers, flags)
  <2>1. ASSUME NEW f \in OptionsKinds, WithOptionsFns(f)
        PROVE  \E options, configs, servers, flags :
                 AppendFns(options, configs, servers, flags) /\ Good(options, configs, servers, flags)
    <3>1. Good(<<f>>, << >>, << >>, << >>)
      OBVIOUS
    <3> QED BY <2>1, <3>1 DEF WithOptionsFns
  <2>2. ASSUME NEW f \in ConfigKinds, WithConfigFns(f)
        PROVE  \E options, configs, servers, flags :
                 AppendFns(options, configs, servers, flags) /\ Good(options, configs, servers, flags)
    <3>1. Good(<< >>, <<f>>, << >>, << >>)
      OBVIOUS
    <3> QED BY <2>2, <3>1 DEF WithConfigFns
  <2>3. ASSUME NEW f \in ServerFns, WithServerFns(f)
        PROVE  \E options, configs, servers, flags :
                 AppendFns(options, configs, servers, flags) /\ Good(options, configs, servers, flags)
    <3>1. Good(<< >>, << >>, <<f>>, << >>)
      OBVIOUS
    <3> QED BY <2>3, <3>1 DEF WithServerFns
  <2>4. CASE WithLocalDebugExtension
    <3>1. DebugFn \in OptionsKinds /\ RemoteFn \in OptionsKinds
      BY DEF OptionsKinds
    <3>2. Good(<<DebugFn, RemoteFn>>, << >>, << >>, <<DebugFlagFn>>)
      BY <3>1
    <3> QED BY <2>4, <3>2 DEF WithLocalDebugExtension
  <2>5. \A f \in OptionsFns \cup {WithoutEtcdFn} : f \in OptionsKinds
    BY DEF OptionsKinds
  <2>6. /\ \A f \in ConfigFns : f \in ConfigKinds
        /\ \A defs \in OpenAPI : OpenAPIFn(defs) \in ConfigKinds
    BY DEF ConfigKinds
  <2> HIDE DEF Good
  <2>7. CASE WithoutEtcd
    BY <2>1, <2>5, <2>7 DEF WithoutEtcd
  <2>8. ASSUME NEW defs \in OpenAPI, WithOpenAPIDefinitions(defs)
        PROVE  \E options, configs, servers, flags :
                 AppendFns(options, configs, servers, flags) /\ Good(options, configs, servers, flags)
    BY <2>2, <2>6, <2>8 DEF WithOpenAPIDefinitions
  <2> QED BY <2>1, <2>2, <2>3, <2>4, <2>5, <2>6, <2>7, <2>8 DEF Customize
<1>2. /\ Idle
      /\ ServerOptionsFns' = ServerOptionsFns \o options
      /\ RecommendedConfigFns' = RecommendedConfigFns \o configs
      /\ GenericAPIServerFns' = GenericAPIServerFns \o servers
      /\ FlagsFns' = FlagsFns \o flags
      /\ UNCHANGED <<applied, regVars, Scheme, phase, active, cursor, cmd, panicked>>
      /\ UNCHANGED <<Schemes, EtcdPath, serverEtcdPath>>
  BY <1>1 DEF AppendFns
<1>3. /\ ServerOptionsFns' \in Seq(OptionsKinds)
      /\ RecommendedConfigFns' \in Seq(ConfigKinds)
      /\ GenericAPIServerFns' \in Seq(ServerFns)
  BY <1>1, <1>2, ConcatProperties DEF ListsOK
<1>4. (\E S : FlagsFns \in Seq(S))'
  <2>1. PICK S : FlagsFns \in Seq(S)
    OBVIOUS
  <2>2. FlagsFns \in Seq(S \cup {DebugFlagFn}) /\ flags \in Seq(S \cup {DebugFlagFn})
    BY <1>1, <2>1, SeqSubset
  <2>3. FlagsFns' \in Seq(S \cup {DebugFlagFn})
    BY <1>2, <2>2, ConcatProperties
  <2> QED BY <2>3
<1> QED BY <1>2, <1>3, <1>4 DEF ListsOK

(* What StartCommand may have panicked of. *)
StartCause ==
  \/ \E f \in ToSet(ServerOptionsFns \o RecommendedConfigFns \o GenericAPIServerFns) :
       f.does = "nil"
  \/ \E f \in ToSet(ServerOptionsFns) : f.field = "SecureServing"
  \/ \E i, j \in DOMAIN ServerOptionsFns :
       i < j /\ ServerOptionsFns[i].field = "Authentication" /\ ServerOptionsFns[j] = RemoteFn

(* The functions of the lists together.                                      *)
LEMMA AllLists ==
  ASSUME ListsOK
  PROVE  ToSet(ServerOptionsFns \o RecommendedConfigFns \o GenericAPIServerFns) =
           ToSet(ServerOptionsFns) \cup ToSet(RecommendedConfigFns) \cup ToSet(GenericAPIServerFns)
<1> DEFINE S == OptionsKinds \cup ConfigKinds \cup ServerFns
<1>1. /\ ServerOptionsFns \in Seq(S) /\ RecommendedConfigFns \in Seq(S)
      /\ GenericAPIServerFns \in Seq(S)
  <2>1. OptionsKinds \subseteq S /\ ConfigKinds \subseteq S /\ ServerFns \subseteq S
    OBVIOUS
  <2> HIDE DEF S
  <2> QED BY <2>1, SeqSubset DEF ListsOK
<1> HIDE DEF S
<1> DEFINE fns == ServerOptionsFns \o RecommendedConfigFns
<1>2. fns \in Seq(S) /\ ToSet(fns) = ToSet(ServerOptionsFns) \cup ToSet(RecommendedConfigFns)
  BY <1>1, ConcatProperties, ConcatElements
<1> HIDE DEF fns
<1>3. ToSet(fns \o GenericAPIServerFns) = ToSet(fns) \cup ToSet(GenericAPIServerFns)
  BY <1>1, <1>2, ConcatElements
<1> QED BY <1>2, <1>3 DEF fns

(* A command panics only because of such a function.                         *)
LEMMA StartPanics ==
  ASSUME ListsOK, ~panicked, NEW s \in Servers, StartCommand(s), panicked'
  PROVE  StartCause
<1>1. PICK debug : LET o == Complete(debug)
                       c == ApplyFns(RecommendedConfigFns)
                       g == ApplyFns(GenericAPIServerFns)
                   IN  ~(o.ok /\ ~IsNil(o.object, "SecureServing") /\ c.ok /\ ~c.nil /\ g.ok)
  BY DEF StartCommand
<1> DEFINE o == Complete(debug)
           c == ApplyFns(RecommendedConfigFns)
           g == ApplyFns(GenericAPIServerFns)
           fns == Effective(debug)
<1>2. /\ ToSet(ServerOptionsFns \o RecommendedConfigFns \o GenericAPIServerFns) =
             ToSet(ServerOptionsFns) \cup ToSet(RecommendedConfigFns) \cup ToSet(GenericAPIServerFns)
      /\ \A i \in DOMAIN ServerOptionsFns : ServerOptionsFns[i] \in ToSet(ServerOptionsFns)
      /\ \A i \in DOMAIN RecommendedConfigFns :
           RecommendedConfigFns[i] \in ToSet(RecommendedConfigFns)
      /\ \A i \in DOMAIN GenericAPIServerFns :
           GenericAPIServerFns[i] \in ToSet(GenericAPIServerFns)
  BY AllLists DEF ToSet
<1>3. CASE ~(c.ok /\ ~c.nil)
  <2>1. \E i \in DOMAIN RecommendedConfigFns : RecommendedConfigFns[i].does = "nil"
    BY <1>3, ConfigLemma
  <2> QED BY <1>2, <2>1 DEF StartCause
<1>4. /\ DOMAIN fns = DOMAIN ServerOptionsFns
      /\ \A i \in DOMAIN fns :
           /\ fns[i].field = ServerOptionsFns[i].field
           /\ fns[i].does \in {ServerOptionsFns[i].does, "read"}
           /\ fns[i] = RemoteFn => ServerOptionsFns[i] = RemoteFn
  BY EffectiveLemma
<1>5. CASE ~o.ok
  <2>1. Cause(fns)
    BY <1>5, CompleteLemma DEF ApplyOK, ResultOK
  <2> HIDE DEF fns
  <2>2. CASE \E i \in DOMAIN fns : fns[i].does = "nil"
    BY <1>2, <1>4, <2>2 DEF StartCause
  <2>3. CASE \E i, j \in DOMAIN fns : i < j /\ fns[i].field = "Authentication" /\ fns[j] = RemoteFn
    BY <1>4, <2>3 DEF StartCause
  <2>4. CASE \E i \in DOMAIN fns : fns[i].field = "SecureServing"
    BY <1>2, <1>4, <2>4 DEF StartCause
  <2> QED BY <2>1, <2>2, <2>3, <2>4 DEF Cause
<1>6. CASE IsNil(o.object, "SecureServing")
  <2>1. \E i \in DOMAIN fns : fns[i].field = "SecureServing"
    BY <1>6, CompleteLemma DEF IsNil
  <2> HIDE DEF fns
  <2> QED BY <1>2, <1>4, <2>1 DEF StartCause
<1>7. CASE ~g.ok
  <2>1. \E i \in DOMAIN GenericAPIServerFns : GenericAPIServerFns[i].does = "nil"
    BY <1>7, ServerLemma
  <2> QED BY <1>2, <2>1 DEF StartCause
<1> QED BY <1>1, <1>3, <1>5, <1>6, <1>7

(* What a server is started with, as FnsInEffect says. *)
InEffect(s) ==
  /\ Has(applied'[s].config, RecommendedConfigFns)
  /\ ~applied'[s].nilServer => Has(applied'[s].server, GenericAPIServerFns)
  /\ InPlace => Has(applied'[s].options, Effective(debugging'))
  /\ DebugFn.field \in DOMAIN applied'[s].options
       => debugging' /\ Contains(ServerOptionsFns, DebugFn)

(* A function of the generic server returns nil.                             *)
NilServerFn == \E i \in DOMAIN GenericAPIServerFns : GenericAPIServerFns[i].does = "nil"

(* A command that goes on has every function in effect, and a generic server *)
(* unless a function returned nil for it.                                    *)
LEMMA StartApplies ==
  ASSUME ListsOK, NEW s \in Servers, StartCommand(s), UNCHANGED <<ServerOptionsFns, RecommendedConfigFns, GenericAPIServerFns>>
  PROVE  /\ ListsOK'
         /\ phase'[s] = "grouping" /\ phase[s] = "built" /\ DOMAIN phase = Servers =>
              InEffect(s) /\ (applied'[s].nilServer => NilServerFn)
<1>1. PICK debug :
        LET o == Complete(debug)
            c == ApplyFns(RecommendedConfigFns)
            g == ApplyFns(GenericAPIServerFns)
        IN  /\ debugging' = debug
            /\ \/ UNCHANGED applied /\ phase' \in {phase, [phase EXCEPT ![s] = "failed"]}
               \/ /\ o.ok /\ c.ok /\ g.ok
                  /\ applied' = [applied EXCEPT ![s] = Customized(o, c, g)]
  BY DEF StartCommand
<1> DEFINE o == Complete(debug)
           c == ApplyFns(RecommendedConfigFns)
           g == ApplyFns(GenericAPIServerFns)
           new == Customized(o, c, g)
<1>2. CASE UNCHANGED applied /\ phase' \in {phase, [phase EXCEPT ![s] = "failed"]}
  BY <1>2 DEF ListsOK
<1>3. CASE o.ok /\ c.ok /\ g.ok /\ applied' = [applied EXCEPT ![s] = new]
  <2>1. /\ new.options = o.object /\ new.config = c.last /\ new.server = g.last
        /\ new.nilServer = g.nil
    BY DEF Customized
  <2>2. DOMAIN applied = Servers
    BY DEF ListsOK
  <2> HIDE DEF new
  <2>3. applied'[s] = new /\ DOMAIN applied' = Servers /\ \A t \in Servers \ {s} : applied'[t] = applied[t]
    BY <1>3, <2>2
  <2>4. ListsOK'
    BY <2>3 DEF ListsOK
  <2>5. Has(c.last, RecommendedConfigFns)
    BY <1>3, ConfigLemma
  <2>6. Has(g.last, GenericAPIServerFns)
    BY <1>3, ServerLemma
  <2>7. /\ LastOK(o.last, Effective(debug), Len(Effective(debug)))
        /\ InPlace => o.object = o.last
        /\ \A x \in DOMAIN o.object : \E i \in DOMAIN Effective(debug) :
             Sets(Effective(debug)[i]) /\ Effective(debug)[i].field = x
    BY <1>3, CompleteLemma
  <2>8. Has(o.last, Effective(debug))
    <3>1. PICK S : Effective(debug) \in Seq(S)
      BY EffectiveLemma
    <3> QED BY <2>7, <3>1, AppliedHas
  <2>9. DebugFn.field \in DOMAIN o.object => debug /\ Contains(ServerOptionsFns, DebugFn)
    <3> SUFFICES ASSUME "Authorization" \in DOMAIN o.object
                 PROVE  debug /\ Contains(ServerOptionsFns, DebugFn)
      BY FnFields
    <3>1. PICK i \in DOMAIN Effective(debug) :
            Sets(Effective(debug)[i]) /\ Effective(debug)[i].field = "Authorization"
      BY <2>7
    <3>2. debug /\ ServerOptionsFns[i] = DebugFn /\ i \in DOMAIN ServerOptionsFns
      BY <3>1, EffectiveLemma
    <3>3. DOMAIN ServerOptionsFns = 1..Len(ServerOptionsFns)
      BY LenProperties DEF ListsOK
    <3> QED BY <3>2, <3>3 DEF Contains
  <2>10. InEffect(s)
    BY <1>1, <2>1, <2>3, <2>5, <2>6, <2>7, <2>8, <2>9 DEF InEffect
  <2>11. applied'[s].nilServer => NilServerFn
    BY <2>1, <2>3, ServerLemma DEF NilServerFn
  <2> QED BY <2>4, <2>10, <2>11
<1> QED BY <1>1, <1>2, <1>3

-----------------------------------------------------------------------------
(* The definitions that one call of WithOpenAPIDefinitions makes: a type of  *)
(* github.com is the same definition under its path and under its alias, and *)
(* every reference to it is the alias.                                       *)
LEMMA RefsLemma ==
  ASSUME NEW defs \in OpenAPI
  PROVE  RefsResolve(GetDefinitions(BuiltIn, defs), BuiltIn, defs)
<1> DEFINE merged == Merge(Generated(BuiltIn), Generated(defs))
           github == {n \in DOMAIN merged : HasGithubPrefix(n)}
           aliases == Aliases(merged)
           result == GetDefinitions(BuiltIn, defs)
<1>1. /\ \A n \in DOMAIN BuiltIn : n \in Names /\ BuiltIn[n].refs \subseteq Names
      /\ \A n \in DOMAIN defs : n \in Names /\ defs[n].refs \subseteq Names
  <2>1. BuiltIn \in OpenAPI \cup {BuiltIn} /\ defs \in OpenAPI \cup {BuiltIn}
    OBVIOUS
  <2>2. ASSUME NEW d \in OpenAPI \cup {BuiltIn}, NEW n \in DOMAIN d
        PROVE  n \in Names /\ d[n].refs \subseteq Names
    BY DEF Names
  <2> QED BY <2>1, <2>2
<1>2. ASSUME NEW n \in Names
      PROVE  /\ n.form = "path" /\ Encoded(n).form = "~1" /\ Encoded(n).type = n.type
             /\ HasGithubPrefix(n) <=> n.github
  <2>1. n = [type |-> n.type, github |-> n.github, registered |-> n.registered, form |-> "path"]
    BY NamesAssumption
  <2> DEFINE r == [type |-> n.type, github |-> n.github, registered |-> n.registered, form |-> "path"]
  <2>2. r.form = "path" /\ [r EXCEPT !.form = "~1"].form = "~1" /\ [r EXCEPT !.form = "~1"].type = r.type
    OBVIOUS
  <2> HIDE DEF r
  <2>3. n = r
    BY <2>1 DEF r
  <2> QED BY <2>2, <2>3 DEF Encoded, HasGithubPrefix
<1>3. /\ DOMAIN merged = DOMAIN BuiltIn \cup DOMAIN defs
      /\ \A n \in DOMAIN defs : /\ merged[n].of = defs[n].of
                             /\ merged[n].refs = {GetDefinitionName(m) : m \in defs[n].refs}
      /\ \A n \in DOMAIN BuiltIn \ DOMAIN defs :
           merged[n].refs = {GetDefinitionName(m) : m \in BuiltIn[n].refs}
  BY DEF Merge, Generated
<1>4. /\ DOMAIN merged \subseteq Names
      /\ \A n \in DOMAIN merged : \A r \in merged[n].refs : \E m \in Names : r = GetDefinitionName(m)
      /\ \A n \in DOMAIN defs : n \in DOMAIN merged /\ merged[n].of = defs[n].of
  <2>1. DOMAIN merged \subseteq Names
    BY <1>1, <1>3
  <2>2. \A n \in DOMAIN defs : n \in DOMAIN merged /\ merged[n].of = defs[n].of
    BY <1>3
  <2>3. ASSUME NEW n \in DOMAIN merged, NEW r \in merged[n].refs
        PROVE  \E m \in Names : r = GetDefinitionName(m)
    <3>1. CASE n \in DOMAIN defs
      <4>1. r \in {GetDefinitionName(m) : m \in defs[n].refs}
        BY <1>3, <2>3, <3>1
      <4> QED BY <1>1, <3>1, <4>1
    <3>2. CASE n \in DOMAIN BuiltIn \ DOMAIN defs
      <4>1. r \in {GetDefinitionName(m) : m \in BuiltIn[n].refs}
        BY <1>3, <2>3, <3>2
      <4> QED BY <1>1, <3>2, <4>1
    <3> QED BY <1>3, <2>3, <3>1, <3>2
  <2> QED BY <2>1, <2>2, <2>3
<1> HIDE DEF merged
<1>5. /\ DOMAIN aliases = {Encoded(n) : n \in github}
      /\ \A a \in DOMAIN aliases : aliases[a] = merged[CHOOSE n \in github : Encoded(n) = a]
  BY DEF Aliases
<1>6. /\ result = Merge(merged, aliases)
      /\ DOMAIN result = DOMAIN merged \cup DOMAIN aliases
      /\ \A n \in DOMAIN result : result[n] = IF n \in DOMAIN aliases THEN aliases[n] ELSE merged[n]
  BY DEF GetDefinitions, merged, Merge
<1>7. \A m, n \in github : Encoded(m) = Encoded(n) => m = n
  BY <1>2, <1>4, NamesAssumption
<1>8. \A n \in github : Encoded(n) \in DOMAIN aliases /\ aliases[Encoded(n)] = merged[n]
  <2> SUFFICES ASSUME NEW n \in github
               PROVE  Encoded(n) \in DOMAIN aliases /\ aliases[Encoded(n)] = merged[n]
    OBVIOUS
  <2>1. Encoded(n) \in DOMAIN aliases
    BY <1>5
  <2> DEFINE m == CHOOSE x \in github : Encoded(x) = Encoded(n)
  <2>2. m \in github /\ Encoded(m) = Encoded(n)
    OBVIOUS
  <2>3. m = n
    BY <1>7, <2>2
  <2> QED BY <1>5, <2>1, <2>3
<1> HIDE DEF github, aliases, result
<1>9. \A n \in github : n \in DOMAIN merged /\ n \in Names /\ HasGithubPrefix(n)
  BY <1>4 DEF github
<1>10. \A n \in DOMAIN merged : n \notin DOMAIN aliases /\ n \in DOMAIN result /\ result[n] = merged[n]
  <2>1. ASSUME NEW n \in DOMAIN merged, n \in DOMAIN aliases PROVE FALSE
    <3>1. PICK m \in github : n = Encoded(m)
      BY <1>5, <2>1
    <3> QED BY <1>2, <1>4, <1>9, <3>1
  <2> QED BY <1>6, <2>1
<1>11. \A n \in github : /\ Encoded(n) \in DOMAIN result /\ result[Encoded(n)] = merged[n]
                        /\ result[n] = merged[n]
  BY <1>6, <1>8, <1>9, <1>10
<1>12. \A n \in DOMAIN result : n \in DOMAIN merged \/ \E m \in github : n = Encoded(m)
  BY <1>5, <1>6
<1>13. \A n \in DOMAIN defs : n \in DOMAIN result /\ result[n].of = defs[n].of
  BY <1>4, <1>10
<1>14. ASSUME NEW k \in DOMAIN result, NEW r \in result[k].refs,
              NEW n \in DOMAIN result, HasGithubPrefix(n), n.type = r.type
       PROVE  /\ r \in DOMAIN result
              /\ \A x \in DOMAIN result : x.type = r.type => result[x] = result[r]
  <2>1. PICK q \in DOMAIN merged : result[k] = merged[q]
    BY <1>9, <1>10, <1>11, <1>12
  <2>2. PICK m \in Names : r = GetDefinitionName(m)
    BY <1>4, <1>14, <2>1
  <2>3. r.type = m.type
    <3>1. CASE HasGithubPrefix(m)
      BY <1>2, <2>2, <3>1 DEF GetDefinitionName
    <3>2. CASE ~HasGithubPrefix(m)
      <4>1. m = [type |-> m.type, github |-> m.github, registered |-> m.registered, form |-> "path"]
        BY NamesAssumption
      <4> DEFINE a == [type |-> m.type, github |-> m.github, registered |-> m.registered, form |-> "path"]
      <4>2. [a EXCEPT !.form = "dns"].type = a.type
        OBVIOUS
      <4>3. m = a
        BY <4>1
      <4> HIDE DEF a
      <4>4. [m EXCEPT !.form = "dns"].type = m.type
        BY <4>2, <4>3
      <4> QED BY <2>2, <3>2, <4>4 DEF GetDefinitionName, NamerDefinitionName
    <3> QED BY <3>1, <3>2
  <2>4. n \in github
    <3>1. n.form = "path"
      BY <1>14 DEF HasGithubPrefix
    <3>2. n \in DOMAIN merged
      BY <1>2, <1>9, <1>12, <3>1
    <3> QED BY <1>14, <3>2 DEF github
  <2>5. n = m
    BY <1>9, <1>14, <2>3, <2>4, NamesAssumption
  <2>6. r = Encoded(n)
    BY <1>14, <2>2, <2>5 DEF GetDefinitionName
  <2>7. r \in DOMAIN result /\ result[r] = merged[n]
    BY <1>11, <2>4, <2>6
  <2>8. ASSUME NEW x \in DOMAIN result, x.type = r.type PROVE result[x] = merged[n]
    <3>1. CASE x \in DOMAIN merged
      <4>1. x = n
        BY <1>4, <1>9, <1>14, <2>4, <2>8, <3>1, NamesAssumption
      <4> QED BY <1>10, <3>1, <4>1
    <3>2. ASSUME NEW y \in github, x = Encoded(y) PROVE result[x] = merged[n]
      <4>1. y.type = n.type
        BY <1>2, <1>9, <1>14, <2>8, <3>2
      <4>2. y = n
        BY <1>9, <2>4, <4>1, NamesAssumption
      <4> QED BY <1>11, <3>2, <4>2
    <3> QED BY <1>12, <3>1, <3>2
  <2> QED BY <2>7, <2>8
<1>15. RefsResolve(result, BuiltIn, defs)
  BY <1>13, <1>14 DEF RefsResolve
<1> QED BY <1>15 DEF result

(* What a server is started with resolves.                                   *)
LEMMA OpenAPILemma ==
  ASSUME ListsOK, NEW s \in Servers, Has(applied'[s].config, RecommendedConfigFns),
         NEW defs \in OpenAPI, OpenAPIFn(defs) \in Latest(RecommendedConfigFns, "OpenAPIConfig")
  PROVE  /\ "OpenAPIConfig" \in DOMAIN applied'[s].config
         /\ RefsResolve(applied'[s].config["OpenAPIConfig"], BuiltIn, defs)
<1> DEFINE config == applied'[s].config
           f == OpenAPIFn(defs)
<1>1. Has(config, RecommendedConfigFns) /\ f \in Latest(RecommendedConfigFns, "OpenAPIConfig")
  OBVIOUS
<1>2. f.value = GetDefinitions(BuiltIn, defs)
  BY FnFields
<1> HIDE DEF config, f
<1>3. "OpenAPIConfig" \in DOMAIN config /\ config["OpenAPIConfig"] = f.value
  BY <1>1, HasLatest DEF ListsOK
<1>4. RefsResolve(config["OpenAPIConfig"], BuiltIn, defs)
  BY <1>2, <1>3, RefsLemma
<1> QED BY <1>3, <1>4 DEF config
=============================================================================
