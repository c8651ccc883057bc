------------------------------ MODULE Loopback ------------------------------
(***************************************************************************)
(* A loopback value of the program (pkg/util/loopback): a package variable *)
(* that is set "for one time", under a sync.Once, and read without one.    *)
(* There are three of them, independent of each other: authz is an         *)
(* interface, two words, the client configurations are pointers, one word. *)
(*                                                                         *)
(* The words of a value are read and written one by one.  A read that no   *)
(* Set orders after the write may return the word as it was before: the    *)
(* program is built with a data race, whose outcomes the Go memory model   *)
(* limits, for a word, to a value written to it and not overwritten.       *)
(***************************************************************************)
CONSTANTS
  Procs,   \* the goroutines
  NoProc,
  Words,   \* the words of the variable
  Args,    \* what the setters are given
  Nil      \* the zero value, which a setter may be given, too

ASSUME LoopbackAssumption == NoProc \notin Procs

VARIABLES
  runner,  \* the goroutine that executes the function of the Once, or NoProc
  done,    \* the Once is done
  cell,    \* the variable: word -> the value the word is of
  pc,      \* per goroutine: "idle", "setting", "running", "getting"
  arg,     \* per goroutine: the argument of the Set it executes
  wrote,   \* words that the runner has written
  synced,  \* per goroutine: a Set of its own has returned
  first,   \* history: what the first Set to run was given, {} before it
  got      \* per goroutine: the words its last Get has read

vars == <<runner, done, cell, pc, arg, wrote, synced, first, got>>

Values == Args \cup {Nil}
Zero == [j \in Words |-> Nil]
NothingRead == [j \in {} |-> Nil]

Init ==
  /\ runner = NoProc
  /\ done = FALSE
  /\ cell = Zero
  /\ pc = [g \in Procs |-> "idle"]
  /\ arg = [g \in Procs |-> Nil]
  /\ wrote = {}
  /\ synced = [g \in Procs |-> FALSE]
  /\ first = {}
  /\ got = [g \in Procs |-> NothingRead]

Goto(g, p) == pc' = [pc EXCEPT ![g] = p]

-----------------------------------------------------------------------------
(* SetAuthorizer, SetLoopbackClientConfig, SetLoopbackMasterClientConfig.    *)
Set(g) ==
  /\ pc[g] = "idle"
  /\ \E c \in Values : arg' = [arg EXCEPT ![g] = c]
  /\ Goto(g, "setting")
  /\ UNCHANGED <<runner, done, cell, wrote, synced, first, got>>

(* Mutant of MayRun: a flag instead of a Once, tested without a lock.        *)
MayRun_Flag == ~done

(* External: Do calls its function if no other goroutine does or has done.   *)
MayRun == ~done /\ runner = NoProc

Enter(g) ==
  /\ pc[g] = "setting"
  /\ MayRun
  /\ runner' = g
  /\ wrote' = {}
  /\ first' = IF first = {} THEN {arg[g]} ELSE first
  /\ Goto(g, "running")
  /\ UNCHANGED <<done, cell, arg, synced, got>>

(* The assignment. *)
WriteWord(g) ==
  /\ pc[g] = "running"
  /\ \E j \in Words \ wrote :
       /\ cell' = [cell EXCEPT ![j] = arg[g]]
       /\ wrote' = wrote \cup {j}
  /\ UNCHANGED <<runner, done, pc, arg, synced, first, got>>

(* Do returns: the write is ordered before all that g does from now on.      *)
SetEnds(g) ==
  /\ synced' = [synced EXCEPT ![g] = TRUE]
  /\ arg' = [arg EXCEPT ![g] = Nil]
  /\ Goto(g, "idle")

(* Mutant of Leave: the Once is never done.                                  *)
Leave_NotDone(g) ==
  /\ pc[g] = "running" /\ wrote = Words
  /\ runner' = NoProc
  /\ SetEnds(g)
  /\ UNCHANGED <<done, cell, wrote, first, got>>

Leave(g) ==
  /\ pc[g] = "running" /\ wrote = Words
  /\ done' = TRUE
  /\ runner' = NoProc
  /\ SetEnds(g)
  /\ UNCHANGED <<cell, wrote, first, got>>

(* Mutant of Waits: a Set returns at once while another one runs.            *)
Waits_Not == done \/ runner # NoProc

(* External: Do returns, having waited for a call of the function that runs. *)
Waits == done

Skip(g) ==
  /\ pc[g] = "setting"
  /\ Waits
  /\ SetEnds(g)
  /\ UNCHANGED <<runner, done, cell, wrote, first, got>>

-----------------------------------------------------------------------------
(* GetAuthorizer, GetLoopbackClientConfig, GetLoopbackMasterClientConfig.    *)
Get(g) ==
  /\ pc[g] = "idle"
  /\ got' = [got EXCEPT ![g] = NothingRead]
  /\ Goto(g, "getting")
  /\ UNCHANGED <<runner, done, cell, arg, wrote, synced, first>>

Visible(g, j) == IF synced[g] THEN {cell[j]} ELSE {cell[j], Nil}

ReadWord(g) ==
  /\ pc[g] = "getting"
  /\ \E j \in Words \ DOMAIN got[g] : \E v \in Visible(g, j) :
       got' = [got EXCEPT ![g] =
                 [k \in DOMAIN @ \cup {j} |-> IF k = j THEN v ELSE @[k]]]
  /\ UNCHANGED <<runner, done, cell, pc, arg, wrote, synced, first>>

Return(g) ==
  /\ pc[g] = "getting" /\ DOMAIN got[g] = Words
  /\ Goto(g, "idle")
  /\ UNCHANGED <<runner, done, cell, arg, wrote, synced, first, got>>

SetStep(g) == Enter(g) \/ WriteWord(g) \/ Leave(g) \/ Skip(g)

Next == \E g \in Procs : Set(g) \/ SetStep(g) \/ Get(g) \/ ReadWord(g) \/ Return(g)

(* A goroutine that has called a setter keeps running. *)
Spec ==
  /\ Init
  /\ [][Next]_vars
  /\ \A g \in Procs : WF_vars(SetStep(g))

-----------------------------------------------------------------------------
(* Type invariant; one goroutine runs the function, and not once it is done. *)
TypeOK ==
  /\ runner \in Procs \cup {NoProc}
  /\ done \in BOOLEAN
  /\ cell \in [Words -> Values]
  /\ pc \in [Procs -> {"idle", "setting", "running", "getting"}]
  /\ arg \in [Procs -> Values]
  /\ wrote \subseteq Words
  /\ synced \in [Procs -> BOOLEAN]
  /\ first \subseteq Values
  /\ got \in [Procs -> UNION {[D -> Values] : D \in SUBSET Words}]
  /\ \A g \in Procs : pc[g] = "running" <=> runner = g
  /\ done => runner = NoProc

(* "For one time": the Set whose function ran first determines the variable, *)
(* no matter what others are given (nothing, even), once and for all: from   *)
(* the time that any setter has returned, to anyone, every word is that      *)
(* first Set's argument.                                                     *)
SetOnce ==
  (\E g \in Procs : synced[g]) => \A j \in Words : first = {cell[j]}

(* A goroutine that has set the value itself, first or not, gets all words   *)
(* of one value, the variable's: it is ordered after the write even though   *)
(* the getter takes no lock.                                                 *)
SettersGetIt ==
  \A g \in Procs : synced[g] =>
    /\ \E c \in Values : \A j \in Words : cell[j] = c
    /\ \A j \in DOMAIN got[g] : pc[g] = "getting" => got[g][j] = cell[j]

(* What the others get may be torn, but never between two setters' values:   *)
(* each word is that of the one value that was set, or still zero.           *)
NeverMixed ==
  \E c \in Values : \A g \in Procs : \A j \in DOMAIN got[g] : got[g][j] \in {c, Nil}

(* A setter returns: nobody waits for ever for the one that runs.            *)
SetReturns == \A g \in Procs : pc[g] = "setting" ~> pc[g] = "idle"
=============================================================================
