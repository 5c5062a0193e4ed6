------------------------------ MODULE MagusSignals ------------------------------
(***************************************************************************)
(* The slave daemon of one machine (Tools/magus/slave/magus.pl) down to    *)
(* its signals: SIGCHLD, the handler that reaps, the bookkeeping it shares *)
(* with main, and the move to a new run.  MagusSlave abstracts from this:  *)
(* there a worker that has exited is known to be dead at once.             *)
(*                                                                         *)
(* Perl runs a handler between two operations of the program, never inside *)
(* one: a signal that arrives while an operation runs is pending until its *)
(* end, and an operation that blocks (sleep) is interrupted only by a      *)
(* signal that arrives while it blocks.  A child that exits while the      *)
(* disposition of SIGCHLD is DEFAULT leaves no signal behind.              *)
(***************************************************************************)
EXTENDS Integers, FiniteSets

CONSTANTS Kids,      \* lock rows, each with the worker forked for it
          Slots,     \* workers, the -j option
          Faults,    \* what else may happen
          NoKid      \* no lock at hand

FaultKinds == {"newrun",   \* a new run is started
               "fork",     \* a fork fails
               "commit"}   \* a statement is committed and reported as failed

ASSUME SignalsAssumption ==
  /\ IsFiniteSet(Kids) /\ NoKid \notin Kids
  /\ Slots \in Nat /\ Faults \subseteq FaultKinds

VARIABLES
  rows,      \* the locks this machine has in the database
  proc,      \* the worker of each lock: none, running, or exited and not reaped
  Children,  \* the keys of %Children
  Count,     \* $Children
  Dead,      \* @DeadChildren (their order is abstracted)
  Ids,       \* how many keys %WorkerIDs has
  leaked,    \* how many ids failed forks have taken with them
  pending,   \* a SIGCHLD waits for its handler
  chld,      \* what SIGCHLD does: "handler", "blocked" or "default"
  at,        \* where the daemon is
  lock,      \* the lock main has got and start_child works for
  newrun     \* the latest run is not the one this machine has

database == <<rows, newrun>>
books == <<Children, Count, Dead, Ids, leaked>>
vars == <<database, proc, books, pending, chld, at, lock>>

Places == {"down", "top", "process", "loop", "switch", "reload", "claim", "fork",
           "forked", "nap", "sleep", "paused", "woken"}

TypeOK ==
  /\ rows \subseteq Kids
  /\ proc \in [Kids -> {"none", "running", "zombie"}]
  /\ Children \subseteq Kids
  /\ Count \in Nat
  /\ Dead \subseteq Kids
  /\ Ids \in Nat
  /\ leaked \in Nat
  /\ pending \in BOOLEAN
  /\ chld \in {"handler", "blocked", "default"}
  /\ at \in Places
  /\ lock \in Kids \cup {NoKid}
  /\ newrun \in BOOLEAN

(* The daemon's next operation: signals that have arrived come first. *)
Step(from, to) == at = from /\ at' = to /\ ~(pending /\ chld = "handler")
-----------------------------------------------------------------------------
(* Signals. *)

(* A worker exits. *)
ChildExit(k) ==
  /\ proc[k] = "running"
  /\ proc' = [proc EXCEPT ![k] = "zombie"]
  /\ pending' = (pending \/ chld # "default")
  /\ at' = IF at = "paused" THEN "woken" ELSE at
  /\ UNCHANGED <<database, books, chld, lock>>

Zombies == {k \in Kids : proc[k] = "zombie"}

(* Mutant of Reap: the worker ids are not given back. *)
ReapKeepsIds ==
  /\ pending /\ chld = "handler" /\ at # "paused"
  /\ pending' = FALSE
  /\ proc' = [k \in Kids |-> IF proc[k] = "zombie" THEN "none" ELSE proc[k]]
  /\ Children' = Children \ Zombies
  /\ Dead' = Dead \cup (Children \cap Zombies)
  /\ Count' = Count - Cardinality(Children \cap Zombies)
  /\ UNCHANGED <<database, chld, at, lock, Ids, leaked>>

(* The handler reaps every child there is; one that main has not recorded   *)
(* is none of its business.                                                *)
Reap ==
  /\ pending /\ chld = "handler" /\ at # "paused"
  /\ pending' = FALSE
  /\ proc' = [k \in Kids |-> IF proc[k] = "zombie" THEN "none" ELSE proc[k]]
  /\ Children' = Children \ Zombies
  /\ Dead' = Dead \cup (Children \cap Zombies)
  /\ Count' = Count - Cardinality(Children \cap Zombies)
  /\ Ids' = Ids + Cardinality(Children \cap Zombies)
  /\ UNCHANGED <<database, chld, at, lock, leaked>>
-----------------------------------------------------------------------------
(* main and process_dead_children. *)

Start ==
  /\ Step("down", "top")
  /\ Children' = {} /\ Count' = 0 /\ Dead' = {} /\ Ids' = Slots /\ leaked' = 0
  /\ chld' = "handler"
  /\ UNCHANGED <<database, proc, pending, lock>>

Top ==
  /\ Step("top", IF Dead = {} THEN "loop" ELSE "process")
  /\ UNCHANGED <<database, proc, books, pending, chld, lock>>

(* The lock of a corpse is deleted, then the corpse is forgotten. *)
Process(k) ==
  /\ k \in Dead
  /\ Step("process", "process")
  /\ rows' = rows \ {k}
  /\ Dead' = Dead \ {k}
  /\ UNCHANGED <<newrun, proc, Children, Count, Ids, leaked, pending, chld, lock>>

Processed ==
  /\ Dead = {}
  /\ Step("process", "loop")
  /\ UNCHANGED <<database, proc, books, pending, chld, lock>>

(* A lock nobody has, and that had no worker yet. *)
Fresh(k) == k \notin rows \cup Children \cup Dead /\ proc[k] = "none"

(* A statement fails before it has an effect: main dies, is entered again   *)
(* when the database is back, and the corpse is still there.               *)
LostDB ==
  /\ \/ at = "process" /\ Dead # {}
     \/ at = "loop" /\ Count < Slots
     \/ at = "claim"
  /\ Step(at, "top")
  /\ UNCHANGED <<database, proc, books, pending, chld, lock>>

(* The statement had its effect, but the answer was lost: the lock of a     *)
(* corpse is gone already, or there is a lock the daemon knows nothing of. *)
LostAnswer(k) ==
  /\ "commit" \in Faults
  /\ Step(at, "top")
  /\ \/ at = "process" /\ k \in Dead /\ rows' = rows \ {k}
     \/ at = "claim" /\ Fresh(k) /\ rows' = rows \cup {k}
  /\ UNCHANGED <<newrun, proc, books, pending, chld, lock>>

(* A slot is free: get_current_run; if not, sleep until a signal comes. *)
Loop ==
  /\ \/ Count < Slots /\ ~newrun /\ Step("loop", "claim") /\ UNCHANGED chld
     \/ Count < Slots /\ newrun /\ Step("loop", "switch") /\ chld' = "default"
     \/ Count >= Slots /\ Step("loop", "sleep") /\ UNCHANGED chld
  /\ UNCHANGED <<database, proc, books, pending, lock>>

(* The signal may have come just before the process stops running. *)
Pause ==
  /\ at = "sleep"
  /\ at' = "paused"
  /\ UNCHANGED <<database, proc, books, pending, chld, lock>>

Wake ==
  /\ at \in {"nap", "woken"}
  /\ Step(at, "top")
  /\ UNCHANGED <<database, proc, books, pending, chld, lock>>

(* get_ready_lock finds nothing to do, or a lock. *)
NoWork ==
  /\ Step("claim", "nap")
  /\ UNCHANGED <<database, proc, books, pending, chld, lock>>

Claim(k) ==
  /\ Step("claim", "fork")
  /\ Fresh(k)
  /\ rows' = rows \cup {k}
  /\ lock' = k
  /\ UNCHANGED <<newrun, proc, books, pending, chld>>
-----------------------------------------------------------------------------
(* start_child. *)

(* Mutant of Fork: SIGCHLD is not blocked. *)
ForkUnblocked ==
  /\ Ids > 0
  /\ Step("fork", "forked")
  /\ Ids' = Ids - 1
  /\ proc' = [proc EXCEPT ![lock] = "running"]
  /\ UNCHANGED <<database, Children, Count, Dead, leaked, pending, chld, lock>>

(* A worker id is taken, SIGCHLD is blocked and the worker forked. *)
Fork ==
  /\ Ids > 0
  /\ Step("fork", "forked")
  /\ Ids' = Ids - 1
  /\ proc' = [proc EXCEPT ![lock] = "running"]
  /\ chld' = "blocked"
  /\ UNCHANGED <<database, Children, Count, Dead, leaked, pending, lock>>

(* The fork fails: start_child dies, main logs that and goes on.  The id    *)
(* taken is not given back, and nobody has the lock any more.              *)
ForkFails ==
  /\ "fork" \in Faults
  /\ Ids > 0
  /\ Step("fork", "loop")
  /\ Ids' = Ids - 1
  /\ leaked' = leaked + 1
  /\ lock' = NoKid
  /\ UNCHANGED <<database, proc, Children, Count, Dead, pending, chld>>

(* "No worker IDs": the same, without an id. *)
NoIds ==
  /\ Ids = 0
  /\ Step("fork", "loop")
  /\ lock' = NoKid
  /\ UNCHANGED <<database, proc, books, pending, chld>>

(* Mutant of Record: the child is not counted. *)
RecordUncounted ==
  /\ Step("forked", "loop")
  /\ Children' = Children \cup {lock}
  /\ chld' = "handler"
  /\ lock' = NoKid
  /\ UNCHANGED <<database, proc, Count, Dead, Ids, leaked, pending>>

(* The child is recorded and SIGCHLD delivered again. *)
Record ==
  /\ Step("forked", "loop")
  /\ Children' = Children \cup {lock}
  /\ Count' = Count + 1
  /\ chld' = "handler"
  /\ lock' = NoKid
  /\ UNCHANGED <<database, proc, Dead, Ids, leaked, pending>>
-----------------------------------------------------------------------------
(* get_current_run. *)

NewRun ==
  /\ "newrun" \in Faults
  /\ ~newrun
  /\ newrun' = TRUE
  /\ UNCHANGED <<rows, proc, books, pending, chld, at, lock>>

(* Workers are active: not yet. *)
NotYet ==
  /\ Count > 0
  /\ Step("switch", "nap")
  /\ chld' = "handler"
  /\ UNCHANGED <<database, proc, books, pending, lock>>

(* The old tree is deleted and the new one fetched. *)
Switch ==
  /\ Count = 0
  /\ Step("switch", "reload")
  /\ UNCHANGED <<database, proc, books, pending, chld, lock>>

(* The daemon executes itself, with the new tree. *)
Reload ==
  /\ Step("reload", "down")
  /\ newrun' = FALSE
  /\ UNCHANGED <<rows, proc, books, pending, chld, lock>>

(* The tree cannot be fetched: the daemon dies, and tries again once it has *)
(* been started.                                                           *)
FetchFails ==
  /\ Step("reload", "down")
  /\ UNCHANGED <<database, proc, books, pending, chld, lock>>
-----------------------------------------------------------------------------
Init ==
  /\ rows = {}
  /\ proc = [k \in Kids |-> "none"]
  /\ Children = {} /\ Count = 0 /\ Dead = {} /\ Ids = Slots /\ leaked = 0
  /\ pending = FALSE
  /\ chld = "handler"
  /\ at = "top"
  /\ lock = NoKid
  /\ newrun = FALSE

Daemon ==
  \/ Start \/ Top \/ Processed \/ Loop \/ Pause \/ Wake \/ NoWork
  \/ \E k \in Kids : Claim(k) \/ Process(k)
  \/ Fork \/ NoIds \/ Record \/ NotYet \/ Switch

Next ==
  \/ Daemon \/ Reap \/ LostDB \/ ForkFails \/ NewRun \/ Reload \/ FetchFails
  \/ \E k \in Kids : ChildExit(k) \/ LostAnswer(k)

Spec == Init /\ [][Next]_vars

(* The daemon runs when it can and is started when it is down, its handler  *)
(* runs, every worker ends, and the database answers in the end.           *)
Fairness ==
  /\ WF_vars(Daemon) /\ WF_vars(Reap) /\ SF_vars(Loop)
  /\ \A k \in Kids : WF_vars(ChildExit(k)) /\ SF_vars(Process(k))

FairSpec == Spec /\ Fairness
-----------------------------------------------------------------------------
(* The daemon knows of the lock: its worker is in %Children, or it is a     *)
(* corpse whose lock will be deleted, or start_child is busy with it.      *)
Known(k) == \/ k \in Children /\ proc[k] # "none"
            \/ k \in Dead \cup {lock}

(* No lock is forgotten.                                                   *)
LocksKnown == \A k \in rows : Known(k)

(* A lock the daemon knows of is handed on, from start_child to %Children   *)
(* to @DeadChildren, until its row is deleted, wherever the SIGCHLD handler *)
(* interrupts main.  There are two ways to forget it: the daemon is started *)
(* anew, or start_child dies with the lock in its hands (magus.pl:216, 249).*)
LocksPassedOn ==
  [][\A k \in rows : Known(k) /\ ~Known(k)' =>
       k \notin rows' \/ Start \/ (k = lock /\ (ForkFails \/ NoIds))]_vars

(* start_child runs out of worker ids only when failed forks have taken the *)
(* ids of all the free slots: the handler gives an id back exactly when it  *)
(* counts a worker out, and nothing else loses one.                        *)
IdForEverySlot == at = "fork" => Ids > 0 \/ leaked = Slots - Count

(* The tree is replaced and the daemon executes itself only when no worker  *)
(* process uses it, whatever arrives in between.                           *)
ReloadsIdle == at = "reload" => \A k \in Kids : proc[k] = "none"

(* A worker that has exited gets its lock removed.                          *)
CorpsesBuried == \A k \in Kids : proc[k] = "zombie" ~> k \notin rows
-----------------------------------------------------------------------------
(* The inductive invariant behind the theorems of SignalsProofs. *)

(* Every worker id is free, or its worker counted, or being forked, or it   *)
(* went with a failed fork.                                                *)
BooksBalance ==
  /\ Count = Cardinality(Children)
  /\ Ids + Count + leaked + (IF at = "forked" THEN 1 ELSE 0) = Slots
  /\ at \in {"claim", "fork"} => Count < Slots

(* SIGCHLD is blocked or ignored only in start_child and get_current_run. *)
SignalMask ==
  chld = CASE at = "forked" -> "blocked"
           [] at \in {"switch", "reload", "down"} -> "default"
           [] OTHER -> "handler"

(* A lock at hand is of no recorded worker, and after the fork it has one. *)
LockAtHand ==
  /\ at \in {"fork", "forked"} => lock \in Kids \ (Children \cup Dead)
  /\ at \notin {"fork", "forked"} => lock = NoKid
  /\ at = "forked" => proc[lock] # "none"

(* %Children has exactly the processes there are, but for the one that is   *)
(* being forked; none is left once the tree has been replaced.             *)
ChildrenExist ==
  /\ \A k \in Kids : k \in Children <=> proc[k] # "none" /\ ~(at = "forked" /\ k = lock)
  /\ at \in {"reload", "down"} => Children = {}

SignalsInv == TypeOK /\ BooksBalance /\ SignalMask /\ LockAtHand /\ ChildrenExist

(* Without faults the daemon never replaces itself and no id is lost. *)
SameRun == leaked = 0 /\ ~newrun /\ at \notin {"switch", "reload", "down"}
=============================================================================
