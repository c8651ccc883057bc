------------------------- MODULE SingletonProvider -------------------------
(***************************************************************************)
(* SingletonProvider.Get (pkg/builder/storage_provider.go), called by any  *)
(* number of goroutines at a time: the first one runs the provider under   *)
(* the embedded sync.Once and stores what it returns in the fields Storage *)
(* and err; each call then reads the two fields without a lock.            *)
(*                                                                         *)
(* sync.Once is the standard library's: an atomic done flag, a mutex for   *)
(* the slow path, and deferred calls that set done and unlock on a panic   *)
(* too.  A panic of the provider (or of a nil Provider) unwinds Get; the   *)
(* goroutine is taken to recover, as a request handler does.               *)
(***************************************************************************)
EXTENDS Naturals

CONSTANTS
  Procs,       \* the goroutines
  NoProc,      \* not a goroutine: the mutex is free
  Storages,    \* the storages a provider can return
  NilStorage,  \* the nil rest.Storage
  Raised,      \* in SharedInit: the answer of a call that panics
  NoAnswer     \* in SharedInit: the answer of a call that has not returned

ASSUME SingletonAssumption ==
  /\ NoProc \notin Procs
  /\ NilStorage \notin Storages

VARIABLES
  pc,       \* where each goroutine is
  done,     \* sync.Once.done
  mutex,    \* the holder of sync.Once.m, or NoProc
  Storage,  \* the field Storage
  err,      \* the field err: an error is there
  local,    \* per goroutine: what it got from the provider, or has read
  raising,  \* per goroutine: a panic is unwinding it
  called,   \* history: how often the provider was called
  outcome   \* history: what its last call returned, Zero if it panicked

vars == <<pc, done, mutex, Storage, err, local, raising, called, outcome>>

Pair(s, e) == [storage |-> s, err |-> e]
Zero == Pair(NilStorage, FALSE)
Success == {Pair(s, FALSE) : s \in Storages}
Failure == {Pair(NilStorage, TRUE)}
Results == Success \cup Failure

Outside == {"idle", "returned", "raised"}
Labels == Outside \cup {"lock", "check", "call", "setStorage", "setErr", "setDone",
           "unlock", "readStorage", "readErr"}

Init ==
  /\ pc = [p \in Procs |-> "idle"]
  /\ done = FALSE
  /\ mutex = NoProc
  /\ Storage = NilStorage
  /\ err = FALSE
  /\ local = [p \in Procs |-> Zero]
  /\ raising = [p \in Procs |-> FALSE]
  /\ called = 0
  /\ outcome = Zero

Goto(p, l) == pc' = [pc EXCEPT ![p] = l]

-----------------------------------------------------------------------------
(* Mutant of Get: no sync.Once, the provider is called while Storage is nil. *)
Get_LazyInit(p) ==
  /\ pc[p] \in Outside
  /\ Goto(p, IF Storage # NilStorage THEN "readStorage" ELSE "call")
  /\ local' = [local EXCEPT ![p] = Zero]
  /\ raising' = [raising EXCEPT ![p] = FALSE]
  /\ UNCHANGED <<done, mutex, Storage, err, called, outcome>>

(* Mutant of Get: the fast path looks at the field instead of done.          *)
Get_StorageSet(p) ==
  /\ pc[p] \in Outside
  /\ Goto(p, IF Storage # NilStorage THEN "readStorage" ELSE "lock")
  /\ local' = [local EXCEPT ![p] = Zero]
  /\ raising' = [raising EXCEPT ![p] = FALSE]
  /\ UNCHANGED <<done, mutex, Storage, err, called, outcome>>

(* Once.Do: the fast path reads done without the mutex.                      *)
Get(p) ==
  /\ pc[p] \in Outside
  /\ Goto(p, IF done THEN "readStorage" ELSE "lock")
  /\ local' = [local EXCEPT ![p] = Zero]
  /\ raising' = [raising EXCEPT ![p] = FALSE]
  /\ UNCHANGED <<done, mutex, Storage, err, called, outcome>>

Lock(p) ==
  /\ pc[p] = "lock"
  /\ mutex = NoProc
  /\ mutex' = p
  /\ Goto(p, "check")
  /\ UNCHANGED <<done, Storage, err, local, raising, called, outcome>>

Check(p) ==
  /\ pc[p] = "check"
  /\ Goto(p, IF done THEN "unlock" ELSE "call")
  /\ UNCHANGED <<done, mutex, Storage, err, local, raising, called, outcome>>

(* The provider returns a storage or an error, or it panics. *)
CallProvider(p) ==
  /\ pc[p] = "call"
  /\ called' = called + 1
  /\ \/ /\ outcome' \in Results
        /\ local' = [local EXCEPT ![p] = outcome']
        /\ Goto(p, "setStorage")
        /\ UNCHANGED raising
     \/ /\ outcome' = Zero
        /\ raising' = [raising EXCEPT ![p] = TRUE]
        /\ Goto(p, "setDone")
        /\ UNCHANGED local
  /\ UNCHANGED <<done, mutex, Storage, err>>

(* s.Storage, s.err = ...: two writes.                                       *)
SetStorage(p) ==
  /\ pc[p] = "setStorage"
  /\ Storage' = local[p].storage
  /\ Goto(p, "setErr")
  /\ UNCHANGED <<done, mutex, err, local, raising, called, outcome>>

SetErr(p) ==
  /\ pc[p] = "setErr"
  /\ err' = local[p].err
  /\ Goto(p, "setDone")
  /\ UNCHANGED <<done, mutex, Storage, local, raising, called, outcome>>

(* The deferred calls: done is set, then the mutex is released.              *)
SetDone(p) ==
  /\ pc[p] = "setDone"
  /\ done' = TRUE
  /\ Goto(p, "unlock")
  /\ UNCHANGED <<mutex, Storage, err, local, raising, called, outcome>>

(* Mutant of Unlock: no deferred unlock, a panic leaves the mutex locked.    *)
Unlock_NotOnPanic(p) ==
  /\ pc[p] = "unlock"
  /\ mutex' = IF raising[p] THEN mutex ELSE NoProc
  /\ Goto(p, IF raising[p] THEN "raised" ELSE "readStorage")
  /\ UNCHANGED <<done, Storage, err, local, raising, called, outcome>>

Unlock(p) ==
  /\ pc[p] = "unlock"
  /\ mutex' = NoProc
  /\ Goto(p, IF raising[p] THEN "raised" ELSE "readStorage")
  /\ UNCHANGED <<done, Storage, err, local, raising, called, outcome>>

(* return s.Storage, s.err: two reads.                                       *)
ReadStorage(p) ==
  /\ pc[p] = "readStorage"
  /\ local' = [local EXCEPT ![p] = Pair(Storage, FALSE)]
  /\ Goto(p, "readErr")
  /\ UNCHANGED <<done, mutex, Storage, err, raising, called, outcome>>

ReadErr(p) ==
  /\ pc[p] = "readErr"
  /\ local' = [local EXCEPT ![p] = Pair(local[p].storage, err)]
  /\ Goto(p, "returned")
  /\ UNCHANGED <<done, mutex, Storage, err, raising, called, outcome>>

(* The rest of a call of Get, once it has begun. *)
Continue(p) ==
  \/ Lock(p) \/ Check(p) \/ CallProvider(p) \/ SetStorage(p) \/ SetErr(p)
  \/ SetDone(p) \/ Unlock(p) \/ ReadStorage(p) \/ ReadErr(p)

Next == \E p \in Procs : Get(p) \/ Continue(p)

Safety == Init /\ [][Next]_vars

(* A goroutine is scheduled for ever, and the provider returns.              *)
Spec == Safety /\ \A p \in Procs : WF_vars(Continue(p))

-----------------------------------------------------------------------------
(* Type invariant; a storage and an error are never held together.           *)
TypeOK ==
  /\ pc \in [Procs -> Labels]
  /\ done \in BOOLEAN
  /\ mutex \in Procs \cup {NoProc}
  /\ Storage \in Storages \cup {NilStorage}
  /\ err \in BOOLEAN
  /\ local \in [Procs -> Results \cup {Zero}]
  /\ raising \in [Procs -> BOOLEAN]
  /\ called \in Nat
  /\ outcome \in Results \cup {Zero}

(* However many goroutines call Get at once, and whatever the provider does, *)
(* it is called at most once in the life of the SingletonProvider.           *)
AtMostOneCall == called <= 1

(* Every call of Get returns what that one call of the provider returned,    *)
(* storage and error together, never a half written pair: a failed or        *)
(* panicked attempt is never repeated, and no caller returns before it ended.*)
AnswersAreTheOutcome ==
  \A p \in Procs : pc[p] = "returned" => called = 1 /\ local[p] = outcome

(* Once done is set the two fields, which Get reads without the mutex, do    *)
(* not change.                                                               *)
FieldsFrozen == [][done => UNCHANGED <<Storage, err>>]_vars

(* Every call of Get returns or panics: no failure or panic of the provider  *)
(* leaves the other goroutines waiting.                                      *)
GetReturns == \A p \in Procs : pc[p] = "lock" ~> pc[p] \in {"returned", "raised"}

-----------------------------------------------------------------------------
(* Get implements SharedInit: the result is decided when done is set.        *)
answerBar ==
  [p \in Procs |-> CASE pc[p] = "returned" -> local[p]
                     [] pc[p] = "raised" -> Raised
                     [] OTHER -> NoAnswer]

Shared == INSTANCE SharedInit WITH
  decided <- IF done THEN {Pair(Storage, err)} ELSE {},
  waiting <- {p \in Procs : pc[p] \notin Outside},
  raiser <- IF mutex # NoProc /\ raising[mutex] /\ pc[mutex] = "unlock"
            THEN mutex ELSE NoProc,
  answer <- answerBar

(* Get keeps the promises of SharedInit, the liveness ones included. *)
ImplementsSharedInit == Shared!Spec
=============================================================================
