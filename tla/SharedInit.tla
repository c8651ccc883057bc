----------------------------- MODULE SharedInit -----------------------------
(***************************************************************************)
(* What a SingletonProvider promises the goroutines that call its Get: the *)
(* result is decided once, by one of the callers, and every call returns   *)
(* that result from then on.  A caller whose attempt to decide panics sees *)
(* the panic, and the others the zero result.                              *)
(***************************************************************************)
CONSTANTS
  Procs,    \* the goroutines
  Results,  \* what a provider may return
  Zero,     \* the zero value of a result: no storage, no error
  Raised,   \* the answer of a call that panics
  NoAnswer, \* no call, or one that has not returned
  NoProc    \* not a goroutine

VARIABLES
  decided,  \* the result, if there is one: a set with at most one element
  waiting,  \* the goroutines in a call of Get
  raiser,   \* the goroutine that is to see the panic, or NoProc
  answer    \* what the last call of each goroutine returned

sharedVars == <<decided, waiting, raiser, answer>>

Init ==
  /\ decided = {}
  /\ waiting = {}
  /\ raiser = NoProc
  /\ answer = [p \in Procs |-> NoAnswer]

Ask(p) ==
  /\ p \notin waiting
  /\ waiting' = waiting \cup {p}
  /\ answer' = [answer EXCEPT ![p] = NoAnswer]
  /\ UNCHANGED <<decided, raiser>>

Decide(p) ==
  /\ p \in waiting
  /\ decided = {}
  /\ \/ \E r \in Results : decided' = {r} /\ UNCHANGED raiser
     \/ decided' = {Zero} /\ raiser' = p
  /\ UNCHANGED <<waiting, answer>>

Answer(p) ==
  /\ p \in waiting
  /\ p # raiser
  /\ \E r \in decided : answer' = [answer EXCEPT ![p] = r]
  /\ waiting' = waiting \ {p}
  /\ UNCHANGED <<decided, raiser>>

Raise(p) ==
  /\ p \in waiting
  /\ p = raiser
  /\ answer' = [answer EXCEPT ![p] = Raised]
  /\ waiting' = waiting \ {p}
  /\ raiser' = NoProc
  /\ UNCHANGED decided

Next == \E p \in Procs : Ask(p) \/ Decide(p) \/ Answer(p) \/ Raise(p)

Safety == Init /\ [][Next]_sharedVars

Spec == Safety /\ \A p \in Procs : WF_sharedVars(Decide(p) \/ Answer(p) \/ Raise(p))
=============================================================================
