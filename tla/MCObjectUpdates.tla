-------------------------- MODULE MCObjectUpdates --------------------------
(***************************************************************************)
(* Instance of ObjectUpdates: a type with its own DeepCopyInto, one that   *)
(* has it from the first by embedding, one without it, one with a result   *)
(* and one without metadata; versions of two bits, written three times, so *)
(* that they pass the largest int.                                         *)
(***************************************************************************)
EXTENDS ObjectUpdates, TLC

MCTypes == {"foo", "outer", "bare", "result", "nometa"}
MCWithMeta == MCTypes \ {"nometa"}

MCMethods ==
  [t \in {"foo", "nometa"} |-> [args |-> 1, param |-> t, results |-> 0]]
    @@ "outer" :> [args |-> 1, param |-> "foo", results |-> 0]
    @@ "result" :> [args |-> 1, param |-> "result", results |-> 1]
    @@ "bare" :> NoMethod

WriterSymmetry == Permutations(Writers)
=============================================================================
