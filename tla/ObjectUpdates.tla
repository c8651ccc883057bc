--------------------------- MODULE ObjectUpdates ---------------------------
(***************************************************************************)
(* Writers that update one stored object with the helpers the builder      *)
(* gives to a resource's storage: DeepCopy (pkg/builder/resource/util),    *)
(* UpdateResourceVersionAndGeneration and UpdateResourceVersion            *)
(* (pkg/builder/utils).  The store is outside the repository: it gives the *)
(* stored object to whoever reads it and replaces it when the version that *)
(* the writer has read is still the stored one.                            *)
(*                                                                         *)
(* An object is a record [type, rv, gen, from]: its Go type, the resource  *)
(* version, the generation and whose content it has.                       *)
(***************************************************************************)
EXTENDS Integers

CONSTANTS
  Writers,
  Types,       \* Go types of the objects
  WithMeta,    \* those for which meta.Accessor returns no error
  Methods,     \* type -> its method DeepCopyInto, or NoMethod
  NoMethod,
  Unset,       \* the resource version of an object that has none
  First,       \* the first writer of the stored object, not one of Writers
  MaxInt,      \* the largest int (and int64)
  Start,       \* resource version and generation of the object at first
  MaxWrites    \* bound: accepted writes, too few for the versions to come round

MinInt == -MaxInt - 1
Ints == MinInt..MaxInt

ASSUME UpdatesAssumption ==
  /\ WithMeta \subseteq Types
  /\ Methods \in [Types -> {NoMethod} \cup [args : Nat, param : Types, results : Nat]]
  /\ MaxInt \in Nat
  /\ Start \in Ints
  /\ Unset \notin Ints
  /\ MaxWrites \in 0..(2 * MaxInt + 1)

Objects == [type : Types, rv : Ints \cup {Unset}, gen : Ints, from : Writers \cup {First}]

VARIABLES
  stored,    \* the object in the store
  writes,    \* accepted writes
  pc,        \* per writer: where it is, one of Places
  old,       \* per writer: the object it has read
  readAt,    \* per writer: the number of writes accepted when it read
  obj,       \* per writer: the object it will write
  before     \* history, per writer: obj when it was read or a helper called

vars == <<stored, writes, pc, old, readAt, obj, before>>

(* "accessed" and "versioned" are inside UpdateResourceVersionAndGeneration;  *)
(* "rejected": a helper has returned an error; "refused": the store has.     *)
Places == {"idle", "read", "accessed", "versioned", "stamped", "rejected",
           "refused", "panicked"}

(* The program has died of a panic.                                          *)
Panicked == \E w \in Writers : pc[w] = "panicked"

At(w, places) == pc[w] \in places /\ ~Panicked
Goto(w, place) == pc' = [pc EXCEPT ![w] = place]

Init ==
  /\ stored \in [type : Types, rv : {Start, Unset}, gen : {Start}, from : {First}]
  /\ writes = 0
  /\ pc = [w \in Writers |-> "idle"]
  /\ old = [w \in Writers |-> stored]
  /\ readAt = [w \in Writers |-> 0]
  /\ obj = [w \in Writers |-> stored]
  /\ before = obj

-----------------------------------------------------------------------------
(* What a client sends: an object of any type, with a version or without.    *)
Sent(w) == [type : Types, rv : {Start, Unset}, gen : {0}, from : {w}]

(* A writer reads the stored object: to update it with what a client sent    *)
(* or, its last write refused, with the object it already has.               *)
Read(w) ==
  /\ At(w, {"idle", "rejected", "refused"})
  /\ old' = [old EXCEPT ![w] = stored]
  /\ readAt' = [readAt EXCEPT ![w] = writes]
  /\ \/ \E o \in Sent(w) : obj' = [obj EXCEPT ![w] = o]
     \/ pc[w] = "refused" /\ UNCHANGED obj
  /\ before' = [before EXCEPT ![w] = obj'[w]]
  /\ Goto(w, "read")
  /\ UNCHANGED <<stored, writes>>

-----------------------------------------------------------------------------
(* Mutant of checkSignature: the type of the argument is not checked.        *)
checkSignature_AnyArgument(t) == Methods[t].args = 1 /\ Methods[t].results = 0

checkSignature(t) ==
  /\ Methods[t].args = 1
  /\ Methods[t].param = t
  /\ Methods[t].results = 0

HasMethod(t) == Methods[t] # NoMethod /\ checkSignature(t)

(* DeepCopy(old, obj), as for an update of the status, and then the content  *)
(* of the writer.  Call panics on an obj that is no argument of the method.  *)
DeepCopy(w) ==
  /\ At(w, {"read"})
  /\ before' = [before EXCEPT ![w] = obj[w]]
  /\ LET method == HasMethod(old[w].type)
         fits   == method /\ obj[w].type = Methods[old[w].type].param
     IN  /\ obj' = IF fits THEN [obj EXCEPT ![w] = [old[w] EXCEPT !.from = w]] ELSE obj
         /\ pc' = CASE ~method         -> [pc EXCEPT ![w] = "rejected"]
                    [] method /\ fits  -> pc
                    [] method /\ ~fits -> [pc EXCEPT ![w] = "panicked"]
  /\ UNCHANGED <<stored, writes, old, readAt>>

-----------------------------------------------------------------------------
(* Mutant of Increment: a number that grows past the int it is kept in.      *)
Increment_Wider(n) == n + 1

(* resourceVersion++ and generation++, on int and on int64. *)
Increment(n) == IF n = MaxInt THEN MinInt ELSE n + 1

(* Mutant of updateResourceVersion: the version of the new object is taken.  *)
updateResourceVersion_OfNew(new, o) ==
  [new EXCEPT !.rv = Increment(IF new.rv = Unset THEN o.rv ELSE new.rv)]

updateResourceVersion(new, o) == [new EXCEPT !.rv = Increment(o.rv)]

(* Mutant of updateGeneration: the generation of the new object is taken.    *)
updateGeneration_OfNew(new, o) == [new EXCEPT !.gen = Increment(new.gen)]

updateGeneration(new, o) == [new EXCEPT !.gen = Increment(o.gen)]

Accessible(w) == obj[w].type \in WithMeta /\ old[w].type \in WithMeta

(* UpdateResourceVersionAndGeneration(obj, old), and UpdateResourceVersion,  *)
(* which does the same (the generation is set by both), step by step: the    *)
(* two accessors, the version, the generation.                               *)
Access(w) ==
  /\ At(w, {"read"})
  /\ before' = [before EXCEPT ![w] = obj[w]]
  /\ Goto(w, IF Accessible(w) THEN "accessed" ELSE "rejected")
  /\ UNCHANGED <<stored, writes, old, readAt, obj>>

(* Atoi returns an error on a version that is not set.                       *)
Rejects(w) ==
  /\ old[w].rv = Unset
  /\ Goto(w, "rejected")

(* Mutant of SetVersion: the generation is set before the version is parsed. *)
SetVersion_GenerationFirst(w) ==
  /\ At(w, {"accessed"})
  /\ LET generation == updateGeneration(obj[w], old[w])
     IN  \/ /\ Rejects(w)
            /\ obj' = [obj EXCEPT ![w] = generation]
         \/ /\ old[w].rv # Unset
            /\ obj' = [obj EXCEPT ![w] = updateResourceVersion(generation, old[w])]
            /\ Goto(w, "versioned")
  /\ UNCHANGED <<stored, writes, old, readAt, before>>

SetVersion(w) ==
  /\ At(w, {"accessed"})
  /\ \/ /\ Rejects(w)
        /\ UNCHANGED obj
     \/ /\ old[w].rv # Unset
        /\ obj' = [obj EXCEPT ![w] = updateResourceVersion(@, old[w])]
        /\ Goto(w, "versioned")
  /\ UNCHANGED <<stored, writes, old, readAt, before>>

SetGeneration(w) ==
  /\ At(w, {"versioned"})
  /\ obj' = [obj EXCEPT ![w] = updateGeneration(@, old[w])]
  /\ Goto(w, "stamped")
  /\ UNCHANGED <<stored, writes, old, readAt, before>>

Stamp(w) == Access(w) \/ SetVersion(w) \/ SetGeneration(w)

-----------------------------------------------------------------------------
(* External: the store takes the object, or refuses it as out of date.       *)
Write(w) ==
  /\ At(w, {"stamped"})
  /\ \/ /\ old[w].rv = stored.rv
        /\ writes < MaxWrites
        /\ stored' = obj[w]
        /\ writes' = writes + 1
        /\ Goto(w, "idle")
     \/ /\ old[w].rv # stored.rv
        /\ Goto(w, "refused")
        /\ UNCHANGED <<stored, writes>>
  /\ UNCHANGED <<old, readAt, obj, before>>

Next == \E w \in Writers : Read(w) \/ DeepCopy(w) \/ Stamp(w) \/ Write(w)

Spec == Init /\ [][Next]_vars

-----------------------------------------------------------------------------
(* Type invariant. *)
TypeOK ==
  /\ stored \in Objects
  /\ writes \in 0..MaxWrites
  /\ pc \in [Writers -> Places]
  /\ old \in [Writers -> Objects]
  /\ readAt \in [Writers -> 0..MaxWrites]
  /\ obj \in [Writers -> Objects]
  /\ before \in [Writers -> Objects]

(* The versions that the helpers make are enough for a store that compares   *)
(* versions only: as long as they do not come round, a writer that has the   *)
(* stored version has the stored object, however many updates by others,     *)
(* refused writes and repeated stamps of one object came between.            *)
VersionsIdentify ==
  \A w \in Writers : old[w].rv = stored.rv => old[w] = stored

(* No update is lost and the version and the generation count the updates:   *)
(* an object is replaced only by one made from it, whose version and         *)
(* generation are both the next ones, past the largest int too.              *)
WritesAreSerial ==
  [][stored' # stored =>
       /\ \E w \in Writers : old[w] = stored /\ stored'.from = w
       /\ stored'.rv = Increment(stored.rv)
       /\ stored'.gen = Increment(stored.gen)]_vars

(* An object that a helper has rejected is as it was when the call began,    *)
(* wherever in the call the error came up: never half stamped, never with    *)
(* the next generation and the old version.                                  *)
RejectedUntouched ==
  \A w \in Writers : pc[w] = "rejected" => obj[w] = before[w]

(* DeepCopy never panics on two objects of one type, whatever the type has   *)
(* for a method DeepCopyInto: one promoted from an embedded type, say.       *)
CopyPanicExplained ==
  \A w \in Writers : pc[w] = "panicked" => obj[w].type # old[w].type
=============================================================================
