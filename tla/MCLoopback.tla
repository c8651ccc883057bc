----------------------------- MODULE MCLoopback -----------------------------
(***************************************************************************)
(* Instance of Loopback: an interface of two words, three goroutines that  *)
(* set and get again and again, two values and nil.                        *)
(***************************************************************************)
EXTENDS Loopback
=============================================================================
