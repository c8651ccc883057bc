-------------------------- MODULE MCFieldSelector --------------------------
(***************************************************************************)
(* Instance of FieldSelector: every selector of up to two requirements on  *)
(* the two supported fields and one other, with the operators that         *)
(* fields.ParseSelector makes, and every namespace of the request.         *)
(***************************************************************************)
EXTENDS FieldSelector
=============================================================================
