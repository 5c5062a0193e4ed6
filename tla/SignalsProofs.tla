----------------------------- MODULE SignalsProofs -----------------------------
(***************************************************************************)
(* Theorems about the daemon's bookkeeping of its children, for any number *)
(* of workers and lock rows.                                               *)
(***************************************************************************)
EXTENDS MagusSignals, FiniteSetTheorems, TLAPS

(* What the handler counts out is what it takes out of %Children. *)
LEMMA ReapCounts ==
  ASSUME TypeOK, NEW Z
  PROVE  /\ Cardinality(Children) \in Nat
         /\ Cardinality(Children \cap Z) \in Nat
         /\ Cardinality(Children \ Z) \in Nat
         /\ Cardinality(Children \ Z) = Cardinality(Children) - Cardinality(Children \cap Z)
<1>1. IsFiniteSet(Children)
  BY SignalsAssumption, FS_Subset DEF TypeOK
<1>2. IsFiniteSet(Children \cap Z) /\ IsFiniteSet(Children \ Z)
  BY <1>1, FS_Subset, FS_Difference
<1>3. QED
  BY <1>1, <1>2, FS_CardinalityType, FS_Difference

(* What start_child counts in is what it puts into %Children. *)
LEMMA RecordCounts ==
  ASSUME TypeOK, NEW k, k \notin Children
  PROVE  Cardinality(Children \cup {k}) = Cardinality(Children) + 1
<1>1. IsFiniteSet(Children)
  BY SignalsAssumption, FS_Subset DEF TypeOK
<1>2. QED
  BY <1>1, FS_AddElement

(* No child is left when the count is zero. *)
LEMMA IdleCount ==
  ASSUME TypeOK, BooksBalance, Count = 0
  PROVE  Children = {}
<1>1. IsFiniteSet(Children)
  BY SignalsAssumption, FS_Subset DEF TypeOK
<1>2. QED
  BY <1>1, FS_EmptySet DEF BooksBalance

LEMMA SignalsInvInit == Init => SignalsInv
<1> SUFFICES ASSUME Init PROVE SignalsInv
  OBVIOUS
<1>1. TypeOK
  BY SignalsAssumption DEF Init, TypeOK, Places
<1>2. BooksBalance
  BY SignalsAssumption, FS_EmptySet DEF Init, BooksBalance
<1>3. SignalMask /\ LockAtHand /\ ChildrenExist
  BY DEF Init, SignalMask, LockAtHand, ChildrenExist
<1>4. QED
  BY <1>1, <1>2, <1>3 DEF SignalsInv

(* The SIGCHLD handler keeps the books. *)
LEMMA ReapInv ==
  ASSUME SignalsInv, Reap
  PROVE  SignalsInv'
<1> USE DEF SignalsInv, Reap, database
<1>1. at \notin {"forked", "switch", "reload", "down"}
  BY DEF SignalMask
<1>2. /\ Cardinality(Children) \in Nat
      /\ Cardinality(Children \cap Zombies) \in Nat
      /\ Cardinality(Children \ Zombies) \in Nat
      /\ Cardinality(Children \ Zombies)
           = Cardinality(Children) - Cardinality(Children \cap Zombies)
  BY ReapCounts
<1>3. Count' = Cardinality(Children') /\ Count' \in Nat /\ Count' <= Count
  BY <1>2 DEF BooksBalance
<1>4. Ids' \in Nat /\ Ids' + Count' = Ids + Count
  BY <1>2 DEF BooksBalance, TypeOK
<1>5. TypeOK'
  BY <1>3, <1>4 DEF TypeOK
<1>6. BooksBalance'
  BY <1>1, <1>3, <1>4, SignalsAssumption DEF BooksBalance, TypeOK
<1>7. SignalMask'
  BY DEF SignalMask
<1>8. LockAtHand'
  BY <1>1 DEF LockAtHand, TypeOK, Zombies
<1>9. ChildrenExist'
  BY <1>1 DEF ChildrenExist, TypeOK, Zombies
<1>10. QED
  BY <1>5, <1>6, <1>7, <1>8, <1>9

(* start_child keeps them: SIGCHLD waits until the child is recorded. *)
LEMMA StartChildInv ==
  ASSUME SignalsInv, Fork \/ Record \/ ForkFails \/ NoIds
  PROVE  SignalsInv'
<1> USE DEF SignalsInv, Step, database
<1>1. CASE Fork
  <2> USE <1>1 DEF Fork
  <2>1. TypeOK'
    <3>1. lock \in Kids /\ Ids' \in Nat
      BY DEF LockAtHand, TypeOK
    <3>2. QED
      BY <3>1 DEF TypeOK, Places
  <2>2. BooksBalance'
    BY SignalsAssumption DEF BooksBalance, TypeOK
  <2>3. SignalMask'
    BY DEF SignalMask
  <2>4. LockAtHand'
    BY DEF LockAtHand, TypeOK
  <2>5. ChildrenExist'
    BY DEF ChildrenExist, LockAtHand, TypeOK
  <2>6. QED
    BY <2>1, <2>2, <2>3, <2>4, <2>5
<1>2. CASE Record
  <2> USE <1>2 DEF Record
  <2>1. lock \in Kids /\ lock \notin Children
    BY DEF LockAtHand
  <2>2. Count' = Cardinality(Children')
    BY <2>1, RecordCounts DEF BooksBalance
  <2>3. TypeOK'
    BY <2>1 DEF TypeOK, Places
  <2>4. BooksBalance'
    BY <2>2, SignalsAssumption DEF BooksBalance, TypeOK
  <2>5. SignalMask'
    BY DEF SignalMask
  <2>6. LockAtHand'
    BY DEF LockAtHand
  <2>7. ChildrenExist'
    BY <2>1, SignalsAssumption DEF ChildrenExist, LockAtHand, TypeOK
  <2>8. QED
    BY <2>3, <2>4, <2>5, <2>6, <2>7
<1>3. CASE ForkFails \/ NoIds
  <2> USE <1>3 DEF ForkFails, NoIds, books
  <2>1. TypeOK'
    BY DEF TypeOK, Places
  <2>2. BooksBalance'
    BY SignalsAssumption DEF BooksBalance, TypeOK
  <2>3. SignalMask'
    BY DEF SignalMask
  <2>4. LockAtHand'
    BY DEF LockAtHand
  <2>5. ChildrenExist'
    BY DEF ChildrenExist
  <2>6. QED
    BY <2>1, <2>2, <2>3, <2>4, <2>5
<1>4. QED
  BY <1>1, <1>2, <1>3

(* So do the steps of get_current_run, and the start of the daemon. *)
LEMMA CurrentRunInv ==
  ASSUME SignalsInv, Start \/ NewRun \/ NotYet \/ Switch \/ Reload \/ FetchFails
  PROVE  SignalsInv'
<1> USE DEF SignalsInv, Step, database, books
<1>1. CASE Start
  BY <1>1, SignalsAssumption, FS_EmptySet
  DEF Start, TypeOK, BooksBalance, SignalMask, LockAtHand, ChildrenExist, Places
<1>2. CASE NewRun \/ NotYet \/ Reload \/ FetchFails
  <2>1. TypeOK'
    BY <1>2 DEF NewRun, NotYet, Reload, FetchFails, TypeOK, Places
  <2>2. BooksBalance'
    BY <1>2 DEF NewRun, NotYet, Reload, FetchFails, BooksBalance
  <2>3. SignalMask'
    BY <1>2 DEF NewRun, NotYet, Reload, FetchFails, SignalMask
  <2>4. LockAtHand'
    BY <1>2 DEF NewRun, NotYet, Reload, FetchFails, LockAtHand
  <2>5. ChildrenExist'
    BY <1>2 DEF NewRun, NotYet, Reload, FetchFails, ChildrenExist
  <2>6. QED
    BY <2>1, <2>2, <2>3, <2>4, <2>5
<1>3. CASE Switch
  <2>1. Children = {}
    BY <1>3, IdleCount DEF Switch
  <2>2. QED
    BY <1>3, <2>1
    DEF Switch, TypeOK, BooksBalance, SignalMask, LockAtHand, ChildrenExist, Places
<1>4. QED
  BY <1>1, <1>2, <1>3

(* And the rest of main, and the workers. *)
LEMMA MainInv ==
  ASSUME SignalsInv,
         \/ Top \/ Processed \/ LostDB \/ Loop \/ Pause \/ Wake \/ NoWork
         \/ \E k \in Kids : Claim(k) \/ Process(k) \/ ChildExit(k) \/ LostAnswer(k)
  PROVE  SignalsInv'
<1> USE DEF SignalsInv, Step, database, books
<1>1. CASE Top \/ Processed \/ LostDB \/ Loop \/ Pause \/ Wake \/ NoWork
  <2> USE <1>1 DEF Top, Processed, LostDB, Loop, Pause, Wake, NoWork
  <2>1. TypeOK'
    BY DEF TypeOK, Places
  <2>2. BooksBalance'
    BY SignalsAssumption DEF BooksBalance
  <2>3. SignalMask'
    BY DEF SignalMask
  <2>4. LockAtHand'
    BY DEF LockAtHand
  <2>5. ChildrenExist'
    BY DEF ChildrenExist
  <2>6. QED
    BY <2>1, <2>2, <2>3, <2>4, <2>5
<1>2. ASSUME NEW k \in Kids, Claim(k) PROVE SignalsInv'
  BY <1>2 DEF Claim, Fresh, TypeOK, BooksBalance, SignalMask, LockAtHand, ChildrenExist, Places
<1>3. ASSUME NEW k \in Kids, Process(k) PROVE SignalsInv'
  BY <1>3 DEF Process, TypeOK, BooksBalance, SignalMask, LockAtHand, ChildrenExist, Places
<1>4. ASSUME NEW k \in Kids, ChildExit(k) PROVE SignalsInv'
  <2> USE <1>4 DEF ChildExit
  <2>1. TypeOK'
    BY DEF TypeOK, Places
  <2>2. BooksBalance'
    BY DEF BooksBalance
  <2>3. SignalMask'
    BY DEF SignalMask
  <2>4. LockAtHand'
    BY DEF LockAtHand, TypeOK
  <2>5. ChildrenExist'
    BY DEF ChildrenExist, TypeOK
  <2>6. QED
    BY <2>1, <2>2, <2>3, <2>4, <2>5
<1>5. ASSUME NEW k \in Kids, LostAnswer(k) PROVE SignalsInv'
  <2>1. /\ at \in {"process", "claim"} /\ at' = "top" /\ rows' \in SUBSET Kids
        /\ UNCHANGED <<newrun, proc, books, pending, chld, lock>>
    BY <1>5 DEF LostAnswer, TypeOK
  <2>2. QED
    BY <2>1 DEF TypeOK, BooksBalance, SignalMask, LockAtHand, ChildrenExist, Places
<1>6. QED
  BY <1>1, <1>2, <1>3, <1>4, <1>5

LEMMA SignalsInvStep == SignalsInv /\ [Next]_vars => SignalsInv'
<1> SUFFICES ASSUME SignalsInv, [Next]_vars PROVE SignalsInv'
  OBVIOUS
<1>1. CASE UNCHANGED vars
  BY <1>1 DEF vars, database, books, SignalsInv, TypeOK, BooksBalance, SignalMask,
              LockAtHand, ChildrenExist
<1>2. CASE Next
  BY <1>2, ReapInv, StartChildInv, CurrentRunInv, MainInv DEF Next, Daemon
<1>3. QED
  BY <1>1, <1>2

(* The invariant of main, the SIGCHLD handler and the workers' exits. *)
THEOREM SignalsInvariant == Spec => []SignalsInv
  BY SignalsInvInit, SignalsInvStep, PTL DEF Spec

(* The daemon's books have their types: $Children and the number of free    *)
(* worker ids never fall below zero, whatever the handler interrupts.      *)
THEOREM SignalsTypes == Spec => []TypeOK
  BY SignalsInvariant, PTL DEF SignalsInv
-----------------------------------------------------------------------------
(* With any number of workers, and whatever the SIGCHLD handler interrupts, *)
(* start_child finds a worker id unless failed forks have taken the ids of  *)
(* all the free slots (magus.pl:216, 249).                                 *)
THEOREM EverySlotHasId == Spec => []IdForEverySlot
<1>1. SignalsInv => IdForEverySlot
  BY SignalsAssumption DEF SignalsInv, TypeOK, BooksBalance, IdForEverySlot
<1>2. QED
  BY <1>1, SignalsInvariant, PTL

(* get_current_run replaces the tree only when no worker process exists,    *)
(* although it decides by a counter the signal handler changes.            *)
THEOREM TreeIsIdle == Spec => []ReloadsIdle
<1>1. SignalsInv => ReloadsIdle
  BY DEF SignalsInv, TypeOK, ChildrenExist, ReloadsIdle
<1>2. QED
  BY <1>1, SignalsInvariant, PTL

(* One step hands a lock on. *)
LEMMA KnownStep ==
  ASSUME SignalsInv, NEW k \in rows, Known(k), Next, ~Start,
         k = lock => ~ForkFails /\ ~NoIds
  PROVE  Known(k)' \/ k \notin rows'
<1> USE DEF Known, Step, database, books, SignalsInv, TypeOK
<1>1. CASE \/ Top \/ Processed \/ LostDB \/ Loop \/ Pause \/ Wake \/ NoWork
           \/ NewRun \/ NotYet \/ Switch \/ Reload \/ FetchFails
  BY <1>1 DEF Top, Processed, LostDB, Loop, Pause, Wake, NoWork, NewRun, NotYet, Switch,
              Reload, FetchFails
<1>2. CASE Reap
  BY <1>2 DEF Reap, Zombies
<1>3. CASE Fork
  BY <1>3 DEF Fork
<1>4. CASE Record
  BY <1>4 DEF Record, LockAtHand
<1>5. ASSUME NEW c \in Kids, Claim(c) \/ Process(c) \/ ChildExit(c) \/ LostAnswer(c)
      PROVE  Known(k)' \/ k \notin rows'
  BY <1>5, SignalsAssumption DEF Claim, Process, ChildExit, LostAnswer, LockAtHand
<1>6. CASE ForkFails \/ NoIds
  BY <1>6 DEF ForkFails, NoIds
<1>7. QED
  BY <1>1, <1>2, <1>3, <1>4, <1>5, <1>6 DEF Next, Daemon

(* With any number of workers, every lock a daemon knows of is handed on    *)
(* until its row is deleted, whichever steps of main the SIGCHLD handler    *)
(* falls between.  A daemon that is started anew forgets its locks, and a   *)
(* start_child that dies the one in its hands; nothing else does.          *)
THEOREM LocksAreHandedOn == Spec => LocksPassedOn
<1>1. SignalsInv /\ [Next]_vars
        => [\A k \in rows : Known(k) /\ ~Known(k)' =>
              k \notin rows' \/ Start \/ (k = lock /\ (ForkFails \/ NoIds))]_vars
  BY KnownStep
<1>2. QED
  BY <1>1, SignalsInvariant, PTL DEF Spec, LocksPassedOn

(* Without faults the daemon never replaces itself and no id is lost. *)
LEMMA SameRunStep ==
  ASSUME Faults = {}
  PROVE  SameRun /\ [Next]_vars => SameRun'
<1> SUFFICES ASSUME SameRun, [Next]_vars PROVE SameRun'
  OBVIOUS
<1> USE DEF SameRun, Step, vars, database, books
<1>1. CASE UNCHANGED vars
  BY <1>1
<1>2. CASE Daemon
  BY <1>2 DEF Daemon, Start, Top, Processed, Loop, Pause, Wake, NoWork, Claim, Process,
              Fork, NoIds, Record, NotYet, Switch
<1>3. CASE \/ Reap \/ LostDB \/ ForkFails \/ NewRun \/ Reload \/ FetchFails
           \/ \E k \in Kids : ChildExit(k) \/ LostAnswer(k)
  BY <1>3 DEF Reap, LostDB, ForkFails, NewRun, Reload, FetchFails, ChildExit, LostAnswer
<1>4. QED
  BY <1>1, <1>2, <1>3 DEF Next

LEMMA LocksKnownStep ==
  ASSUME Faults = {}
  PROVE  SignalsInv /\ SameRun /\ LocksKnown /\ [Next]_vars => LocksKnown'
<1> SUFFICES ASSUME SignalsInv, SameRun, LocksKnown, [Next]_vars,
                    NEW k \in rows'
             PROVE  Known(k)'
  BY DEF LocksKnown
<1>1. CASE UNCHANGED vars
  BY <1>1 DEF vars, database, books, LocksKnown, Known
<1>2. CASE Next /\ k \in rows
  <2>1. ~Start /\ ~ForkFails
    BY DEF SameRun, Start, Step, ForkFails
  <2>2. ~NoIds
    BY SignalsAssumption DEF NoIds, Step, SameRun, SignalsInv, TypeOK, BooksBalance
  <2>3. QED
    BY <1>2, <2>1, <2>2, KnownStep DEF LocksKnown
<1>3. CASE Next /\ k \notin rows
  <2>1. \E c \in Kids : Claim(c)
    BY <1>3 DEF Next, Daemon, Start, Top, Processed, Loop, Pause, Wake, NoWork, Process,
                Fork, NoIds, Record, NotYet, Switch, Reap, LostDB, ForkFails, NewRun,
                Reload, FetchFails, ChildExit, LostAnswer, database
  <2>2. QED
    BY <1>3, <2>1 DEF Claim, Known
<1>4. QED
  BY <1>1, <1>2, <1>3

(* So as long as no new run starts, no fork fails and no committed          *)
(* statement is reported as failed, the daemon knows of every lock of its   *)
(* machine, though its statements may fail (magus.pl:148) and its workers   *)
(* exit at any moment.                                                     *)
THEOREM NoLockForgotten == ASSUME Faults = {} PROVE Spec => []LocksKnown
<1>1. Init => SameRun /\ LocksKnown
  BY DEF Init, SameRun, LocksKnown
<1>2. Spec => []SignalsInv
  BY SignalsInvariant
<1>3. SameRun /\ [Next]_vars => SameRun'
  BY SameRunStep
<1>4. SignalsInv /\ SameRun /\ LocksKnown /\ [Next]_vars => LocksKnown'
  BY LocksKnownStep
<1>5. QED
  BY <1>1, <1>2, <1>3, <1>4, PTL DEF Spec
=============================================================================
