------------------------ MODULE MCSingletonProvider ------------------------
(***************************************************************************)
(* Instance of SingletonProvider: three goroutines that call Get again and *)
(* again, a provider that may return either of two storages.               *)
(***************************************************************************)
EXTENDS SingletonProvider
=============================================================================
