------------------------------ MODULE MagusProofs ------------------------------
(***************************************************************************)
(* Theorems about the build cluster, for any ports, dependencies, machines *)
(* and numbers of workers.                                                 *)
(***************************************************************************)
EXTENDS MagusInv, FiniteSetTheorems, TLAPS

USE DEF Phase, Passed, Status, Making, Busy, Stopping, Alive, Dead, WorkerPC,
        Claiming, Asleep, Reaping, Killing, Sweeping, DaemonPC, Row, NoRow

(* The verdicts are statuses, and the absent value is none of the others. *)
LEMMA Constants ==
  /\ \A r \in Verdicts \cup {"internal"} : r \in Status
  /\ None \notin Status /\ None \notin Phase
  /\ None \notin Ports /\ None \notin Machines /\ None \notin Jobs
  /\ None \notin Ports \X Phase
  BY MagusAssumption

LEMMA SelectsPhase == \A i \in DOMAIN WorkerPhases : WorkerPhases[i] \in Phase
<1>1. WorkerPhases \in Seq(Phase)
  BY MagusAssumption
<1>2. QED
  BY <1>1

(* What Exit does to the worker that exits, and that it leaves the others   *)
(* alone (run, exit and the daemon's SIGCHLD handler).                     *)
LEMMA ExitEffect ==
  ASSUME TypeOK, NEW j \in Jobs, NEW code \in Dead, Exit(j, code)
  PROVE  /\ pc' \in [Jobs -> WorkerPC]
         /\ job' \in [Jobs -> Row \cup {NoRow}]
         /\ sig' \subseteq sig
         /\ \A k \in Jobs : k # j => pc'[k] = pc[k] /\ job'[k] = job[k]
         /\ pc'[j] \in {code, "orphan", "free"}
         /\ pc'[j] \in {code, "orphan"} => job'[j] = job[j]
         /\ pc'[j] = code => j \in children
         /\ pc'[j] = "orphan" => j \in locks \ children
         /\ pc'[j] = "free" => j \notin locks \cup children /\ job'[j] = NoRow
         /\ j \notin sig'
<1> USE DEF TypeOK
<1>1. sig' = sig \ {j}
  BY DEF Exit
<1>2. CASE j \in children
  BY <1>1, <1>2 DEF Exit, Go
<1>3. CASE j \notin children
  <2>1. Abandon({j})
    BY <1>3 DEF Exit
  <2>2. /\ pc'[j] = IF j \in locks THEN "orphan" ELSE "free"
        /\ job'[j] = IF j \in locks THEN job[j] ELSE NoRow
        /\ \A k \in Jobs : k # j => pc'[k] = pc[k] /\ job'[k] = job[k]
        /\ pc' \in [Jobs -> WorkerPC] /\ job' \in [Jobs -> Row \cup {NoRow}]
    BY <2>1 DEF Abandon
  <2>3. QED
    BY <1>1, <1>3, <2>2
<1>4. QED
  BY <1>2, <1>3

(* A step that moves a live worker on and leaves ports.status alone. *)
LEMMA MoveFrame ==
  ASSUME TypeInv, NEW j \in Jobs, pc[j] \in Alive, NEW to \in Alive,
         pc' = [pc EXCEPT ![j] = to],
         to \in Stopping => pc[j] \in Stopping \/ j \in sig,
         UNCHANGED <<status, locks, job, daemons, admin>>,
         sig' \subseteq sig, pkg \subseteq pkg'
  PROVE  WorkerFrame(j)
  BY DEF TypeInv, TypeOK, WorkerFrame

(* Every step of a worker, the failing ones and its signal handler          *)
(* included, stays within WorkerFrame.                                     *)
LEMMA WorkerFrameHolds ==
  ASSUME TypeInv, NEW j \in Jobs,
         WorkStep(j) \/ SignalStep(j) \/ WorkerFault(j)
  PROVE  WorkerFrame(j)
<1> USE Constants DEF TypeInv, TypeOK, WorkerFrame, Go, WStep, Port, PhaseOf,
        ClearVerdict, SetStatus, db, daemons
<1>1. CASE Start(j) \/ PrepChroot(j) \/ Inject(j)
  <2>1. /\ pc[j] \in Busy
        /\ \E to \in Alive \ Stopping : pc' = [pc EXCEPT ![j] = to]
        /\ UNCHANGED <<status, pkg, locks, job, sig, daemons, admin>>
    BY <1>1 DEF Start, PrepChroot, Inject
  <2> HIDE DEF WorkerFrame, TypeInv, daemons
  <2>2. QED
    BY <2>1, MoveFrame
<1>2. CASE RecordPhase(j) \/ AfterMake(j) \/ UploadPkgfile(j) \/ UploadDistfiles(j)
  <2>1. /\ pc[j] \in Alive
        /\ \E to \in Alive \ Stopping : pc' = [pc EXCEPT ![j] = to]
        /\ UNCHANGED <<status, locks, job, sig, daemons, admin>>
        /\ pkg \subseteq pkg'
    BY <1>2 DEF RecordPhase, AfterMake, UploadPkgfile, UploadDistfiles
  <2> HIDE DEF WorkerFrame, TypeInv, daemons
  <2>2. QED
    BY <2>1, MoveFrame
<1>3. ASSUME NEW r \in Verdicts \cup {"internal"}, InsertResults(j, r)
      PROVE  WorkerFrame(j)
  <2>1. CASE PhaseOf(j) = "build"
    <3>1. /\ r \in Status /\ status' = [status EXCEPT ![Port(j)] = r]
          /\ WStep(j, "make", "record")
          /\ UNCHANGED <<pkg, locks, job, sig, daemons, admin>>
      BY <1>3, <2>1 DEF InsertResults
    <3>2. QED
      BY <2>1, <3>1
  <2>2. CASE PhaseOf(j) # "build"
    <3>1. /\ WStep(j, "make", "made")
          /\ UNCHANGED <<status, pkg, locks, job, sig, daemons, admin>>
      BY <1>3, <2>2 DEF InsertResults
    <3>2. QED
      BY <3>1
  <2>3. QED
    BY <2>1, <2>2
<1>4. ASSUME NEW r \in {"pass", "warn", "fail", "internal"}, RunScan(j, r)
      PROVE  WorkerFrame(j)
  BY <1>4 DEF RunScan
<1>5. CASE InnerLostDB(j) \/ InnerKilled(j) \/ Throw(j)
  <2>1. /\ pc[j] \in Alive
        /\ \E to \in Alive \ Stopping : pc' = [pc EXCEPT ![j] = to]
        /\ UNCHANGED <<status, pkg, locks, job, sig, daemons, admin>>
    BY <1>5 DEF InnerLostDB, InnerKilled, Throw
  <2> HIDE DEF WorkerFrame, TypeInv, daemons
  <2>2. QED
    BY <2>1, MoveFrame
<1>6. CASE Done(j) \/ LostDB(j) \/ Killed(j)
  BY <1>6, ExitEffect DEF Done, LostDB, Killed
<1>7. CASE SetInternal(j)
  <2>1. CASE PhaseOf(j) = "build"
    <3>1. /\ status' = [status EXCEPT ![Port(j)] = "internal"]
          /\ WStep(j, "except", "exceptRecord")
          /\ UNCHANGED <<pkg, locks, job, sig, daemons, admin>>
      BY <1>7, <2>1 DEF SetInternal
    <3>2. QED
      BY <2>1, <3>1
  <2>2. CASE PhaseOf(j) # "build"
    BY <1>7, <2>2, ExitEffect DEF SetInternal
  <2>3. QED
    BY <2>1, <2>2
<1>8. CASE RecordInternal(j)
  BY <1>8, ExitEffect DEF RecordInternal
<1>9. CASE Interrupt(j)
  <2>1. CASE pc[j] \in Making
    <3>1. /\ j \in sig /\ pc' = [pc EXCEPT ![j] = "intReset"]
          /\ sig' \subseteq sig
          /\ UNCHANGED <<status, pkg, locks, job, daemons, admin>>
      BY <1>9, <2>1 DEF Interrupt
    <3> HIDE DEF WorkerFrame, TypeInv, daemons
    <3>2. QED
      BY <2>1, <3>1, MoveFrame
  <2>2. CASE pc[j] \in Busy
    BY <1>9, <2>2, ExitEffect DEF Interrupt
  <2>3. QED
    BY <1>9, <2>1, <2>2 DEF Interrupt
<1>10. CASE InterruptReset(j)
  BY <1>10 DEF InterruptReset
<1>11. CASE InterruptStatus(j)
  BY <1>11, ExitEffect DEF InterruptStatus
<1>12. QED
  BY <1>1, <1>2, <1>3, <1>4, <1>5, <1>6, <1>7, <1>8, <1>9, <1>10, <1>11
     DEF WorkStep, SignalStep, WorkerFault

(* The two writes of a phase row keep the table well-typed (set_status and  *)
(* reset of Magus::PhaseResult and Magus::Port).                           *)
LEMMA PhaseWritten ==
  ASSUME TypeOK, NEW p, NEW ph, NEW s \in Status \cup {"running"},
         SetPhase(p, ph, s)
  PROVE  phase' \in [Ports -> [Phase -> Status \cup {"running"}]]
  BY DEF TypeOK, SetPhase

LEMMA PhasesReset ==
  ASSUME TypeOK, NEW p, ResetPhases(p)
  PROVE  phase' \in [Ports -> [Phase -> Status \cup {"running"}]]
  BY DEF TypeOK, ResetPhases

(* The worker's writes keep phases, verdicts and packages well-typed, and a *)
(* verdict is there whenever an inner child is about to record it.         *)
WorkerTables ==
  /\ phase' \in [Ports -> [Phase -> Status \cup {"running"}]]
  /\ verdict' \in [Jobs -> Status \cup {None}]
  /\ pkg' \subseteq Ports
  /\ \A k \in Jobs : pc'[k] = "record" => verdict'[k] # None

LEMMA WorkerTablesHold ==
  ASSUME TypeInv, NEW j \in Jobs,
         WorkStep(j) \/ SignalStep(j) \/ WorkerFault(j)
  PROVE  WorkerTables
<1> USE Constants DEF TypeInv, TypeOK, RefsOK, WorkerTables, Go, WStep, Port,
        ClearVerdict, db
<1>1. CASE Start(j)
  BY <1>1, PhaseWritten DEF Start
<1>2. CASE PrepChroot(j) \/ Inject(j) \/ AfterMake(j) \/ UploadPkgfile(j)
           \/ UploadDistfiles(j)
  BY <1>2 DEF PrepChroot, Inject, AfterMake, UploadPkgfile, UploadDistfiles
<1>3. CASE RecordPhase(j)
  BY <1>3, PhaseWritten DEF RecordPhase
<1>4. ASSUME NEW r \in Verdicts \cup {"internal"}, InsertResults(j, r)
      PROVE  WorkerTables
  <2>1. CASE PhaseOf(j) = "build"
    <3>1. /\ r \in Status /\ verdict' = [verdict EXCEPT ![j] = r]
          /\ WStep(j, "make", "record")
          /\ UNCHANGED <<phase, pkg>>
      BY <1>4, <2>1 DEF InsertResults
    <3>2. QED
      BY <3>1
  <2>2. CASE PhaseOf(j) # "build"
    <3>1. /\ r \in Status /\ SetPhase(Port(j), PhaseOf(j), r)
          /\ WStep(j, "make", "made")
          /\ UNCHANGED <<verdict, pkg>>
      BY <1>4, <2>2 DEF InsertResults
    <3>2. QED
      BY <3>1, PhaseWritten
  <2>3. QED
    BY <2>1, <2>2
<1>5. ASSUME NEW r \in {"pass", "warn", "fail", "internal"}, RunScan(j, r)
      PROVE  WorkerTables
  BY <1>5, PhaseWritten DEF RunScan
<1>6. CASE InnerLostDB(j) \/ InnerKilled(j) \/ Throw(j)
  <2>1. /\ UNCHANGED <<phase, pkg>>
        /\ verdict' \in {verdict, [verdict EXCEPT ![j] = None]}
        /\ \E to \in {"made", "except"} : pc' = [pc EXCEPT ![j] = to]
    BY <1>6 DEF InnerLostDB, InnerKilled, Throw
  <2>2. QED
    BY <2>1
<1>7. CASE Done(j) \/ LostDB(j) \/ Killed(j)
  <2>1. UNCHANGED <<phase, verdict, pkg>>
    BY <1>7 DEF Done, LostDB, Killed
  <2>2. \E code \in Dead : Exit(j, code)
    BY <1>7 DEF Done, LostDB, Killed
  <2>3. QED
    BY <2>1, <2>2, ExitEffect
<1>8. CASE SetInternal(j)
  <2>1. CASE PhaseOf(j) = "build"
    BY <1>8, <2>1 DEF SetInternal
  <2>2. CASE PhaseOf(j) # "build"
    <3>1. /\ Exit(j, "dead0") /\ SetPhase(Port(j), PhaseOf(j), "internal")
          /\ UNCHANGED <<verdict, pkg>>
      BY <1>8, <2>2 DEF SetInternal
    <3>2. phase' \in [Ports -> [Phase -> Status \cup {"running"}]]
      BY <3>1, PhaseWritten
    <3>3. QED
      BY <3>1, <3>2, ExitEffect
  <2>3. QED
    BY <2>1, <2>2
<1>9. CASE RecordInternal(j)
  BY <1>9, ExitEffect, PhaseWritten DEF RecordInternal
<1>10. CASE Interrupt(j)
  <2>1. CASE pc[j] \in Making
    BY <1>10, <2>1 DEF Interrupt
  <2>2. CASE pc[j] \in Busy
    BY <1>10, <2>2, ExitEffect DEF Interrupt
  <2>3. QED
    BY <1>10, <2>1, <2>2 DEF Interrupt
<1>11. CASE InterruptReset(j)
  BY <1>11, PhasesReset DEF InterruptReset
<1>12. CASE InterruptStatus(j)
  BY <1>12, ExitEffect DEF InterruptStatus
<1>13. QED
  BY <1>1, <1>2, <1>3, <1>4, <1>5, <1>6, <1>7, <1>8, <1>9, <1>10, <1>11, <1>12
     DEF WorkStep, SignalStep, WorkerFault

(* A daemon that looks, naps, sleeps or wakes changes nothing else. *)
Idle == {"top", "fill"} \cup Asleep
IdleStep(m) ==
  MainTop(m) \/ Nap(m) \/ Sleep(m) \/ Wake(m) \/ WakeLate(m) \/ Oversleep(m)

LEMMA IdleEffect ==
  ASSUME NEW m \in Machines, IdleStep(m)
  PROVE  /\ at[m] \in Idle
         /\ \E to \in Idle : at' = [at EXCEPT ![m] = to]
         /\ UNCHANGED <<db, workers, children, cand, cur, lost, admin>>
  BY DEF Idle, IdleStep, MainTop, Nap, Sleep, Wake, WakeLate, Oversleep, Step

(* Every step of a daemon keeps the type invariant. *)
LEMMA DaemonTypeInv ==
  ASSUME TypeInv, NEW m \in Machines,
         MainStep(m) \/ KillStep(m) \/ DaemonFault(m)
  PROVE  TypeInv'
<1> USE Constants DEF TypeInv, TypeOK, RefsOK, CurOK, db, workers, daemons, Step, Go
<1>1. CASE IdleStep(m)
  BY <1>1, IdleEffect DEF Idle
<1>2. CASE Record(m)
  BY <1>2 DEF Record
<1>3. CASE InsertDuplicate(m)
  BY <1>3 DEF InsertDuplicate
<1>4. CASE Fork(m)
  BY <1>4 DEF Fork
<1>5. CASE NoWorkerIds(m)
  BY <1>5 DEF NoWorkerIds, LoseLock, Abandon
<1>6. CASE ProcessReset(m)
  BY <1>6, PhasesReset DEF ProcessReset
<1>7. CASE ProcessResetStatus(m)
  BY <1>7 DEF ProcessResetStatus, SetStatus
<1>8. CASE Unlock(m)
  BY <1>8 DEF Unlock, Forget
<1>9. CASE KillWait(m)
  BY <1>9 DEF KillWait, Abandon, ChildrenOf, Corpses
<1>10. CASE SweepUnlock(m)
  BY <1>10 DEF SweepUnlock, Forget
<1>11. CASE SweepDone(m)
  <2>1. /\ at[m] = "sweep" /\ at' = [at EXCEPT ![m] = "down"]
        /\ lost' = [lost EXCEPT ![m] = 0]
        /\ UNCHANGED <<db, workers, children, cand, cur, admin>>
    BY <1>11 DEF SweepDone
  <2>2. TypeOK'
    BY <2>1
  <2>3. RefsOK'
    BY <2>1
  <2>4. CurOK'
    BY <2>1
  <2>5. QED
    BY <2>2, <2>3, <2>4
<1>12. CASE ForkFail(m)
  BY <1>12 DEF ForkFail, LoseLock, Abandon
<1>13. CASE DaemonLostDB(m)
  BY <1>13 DEF DaemonLostDB
<1>14. CASE Crash(m)
  BY <1>14 DEF Crash, Abandon
<1>15. CASE Restart(m)
  BY <1>15 DEF Restart
<1>16. CASE Select(m)
  <2>1. /\ at[m] = "fill" /\ at' = [at EXCEPT ![m] = "insert"]
        /\ UNCHANGED <<db, workers, children, cur, lost, admin>>
    BY <1>16 DEF Select
  <2>2. PICK i \in DOMAIN WorkerPhases : \E p \in ReadyPorts(WorkerPhases[i]) :
          cand' = [cand EXCEPT ![m] = <<p, WorkerPhases[i]>>]
    BY <1>16 DEF Select
  <2>3. ReadyPorts(WorkerPhases[i]) \subseteq Ports /\ WorkerPhases[i] \in Phase
    BY <2>2, SelectsPhase DEF ReadyPorts
  <2>4. PICK c \in Ports \X Phase : cand' = [cand EXCEPT ![m] = c]
    BY <2>2, <2>3
  <2>5. c # None
    BY <2>4
  <2>6. TypeOK'
    BY <2>1, <2>4
  <2>7. RefsOK'
    BY <2>1, <2>4, <2>5
  <2>8. CurOK'
    BY <2>1
  <2>9. QED
    BY <2>6, <2>7, <2>8
<1>17. CASE SweepReset(m)
  <2>1. TypeOK'
    BY <1>17, PhasesReset DEF SweepReset
  <2>2. RefsOK'
    BY <1>17 DEF SweepReset
  <2>3. CurOK'
    BY <1>17 DEF SweepReset
  <2>4. QED
    BY <2>1, <2>2, <2>3
<1>18. CASE SweepStatus(m)
  <2>1. TypeOK'
    BY <1>18 DEF SweepStatus, SetStatus
  <2>2. RefsOK'
    BY <1>18 DEF SweepStatus, SetStatus
  <2>3. CurOK'
    BY <1>18 DEF SweepStatus, SetStatus
  <2>4. QED
    BY <2>1, <2>2, <2>3
<1>19. CASE Term(m)
  <2>1. /\ at[m] \notin Sweeping \cup Killing \cup {"down"}
        /\ \E to \in {"sweep", "told"} : at' = [at EXCEPT ![m] = to]
        /\ children' \subseteq children
        /\ Abandon(Corpses(m) \cup {k \in {cur[m]} : at[m] = "fork"})
        /\ cand' = [cand EXCEPT ![m] = None] /\ cur' = [cur EXCEPT ![m] = None]
        /\ UNCHANGED <<db, verdict, sig, lost, admin>>
    BY <1>19 DEF Term
  <2>2. TypeOK'
    BY <2>1 DEF Abandon
  <2>3. RefsOK'
    BY <2>1 DEF Abandon
  <2>4. CurOK'
    BY <2>1 DEF Abandon, ChildrenOf, Corpses
  <2>5. QED
    BY <2>2, <2>3, <2>4
<1>20. ASSUME NEW j \in Jobs, InsertLock(m, j) PROVE TypeInv'
  BY <1>20 DEF InsertLock, InsertRow
<1>21. ASSUME NEW j \in Jobs, SweepNext(m, j) PROVE TypeInv'
  BY <1>21 DEF SweepNext
<1>22. ASSUME NEW j \in Jobs, DaemonLostInsert(m, j) PROVE TypeInv'
  BY <1>22 DEF DaemonLostInsert, InsertRow
<1>23. ASSUME NEW j \in Jobs, Process(m, j) PROVE TypeInv'
  <2>1. /\ at[m] = "top" /\ cur' = [cur EXCEPT ![m] = j]
        /\ pc[j] \in Dead /\ job[j].machine = m
        /\ \E to \in {"reset", "unlock"} : at' = [at EXCEPT ![m] = to]
        /\ UNCHANGED <<status, pkg, locks, workers, children, cand, lost, admin>>
    BY <1>23 DEF Process, Corpses, ChildrenOf
  <2>2. phase' \in [Ports -> [Phase -> Status \cup {"running"}]]
    BY <1>23, PhaseWritten DEF Process
  <2>3. TypeOK'
    BY <2>1, <2>2
  <2>4. RefsOK'
    BY <2>1
  <2>5. CurOK'
    BY <2>1
  <2>6. QED
    BY <2>3, <2>4, <2>5
<1>24. CASE Signal(m)
  <2>1. PICK reaped \in SUBSET Corpses(m) :
          children' = children \ reaped /\ Abandon(reaped)
    BY <1>24 DEF Signal
  <2>2. /\ at[m] = "told" /\ at' = [at EXCEPT ![m] = "kill"]
        /\ sig' = sig \cup LiveChildren(m)
        /\ UNCHANGED <<db, verdict, cand, cur, lost, admin>>
    BY <1>24 DEF Signal
  <2>3. TypeOK'
    BY <2>1, <2>2 DEF Abandon, LiveChildren, ChildrenOf
  <2>4. RefsOK'
    BY <2>1, <2>2 DEF Abandon
  <2>5. \A k \in Jobs : job[k].machine # m => pc'[k] = pc[k] /\ job'[k] = job[k]
    BY <2>1 DEF Abandon, Corpses, ChildrenOf
  <2>6. CurOK'
    <3>1. cur[m] = None /\ at'[m] = "kill" /\ cur' = cur
      BY <2>2
    <3>2. \A n \in Machines : n # m => at'[n] = at[n]
      BY <2>2
    <3>3. QED
      BY <2>5, <3>1, <3>2
  <2>7. QED
    BY <2>3, <2>4, <2>6
<1>25. CASE WaitForever(m)
  BY <1>25 DEF WaitForever, vars
<1>26. QED
  BY <1>1, <1>2, <1>3, <1>4, <1>5, <1>6, <1>7, <1>8, <1>9, <1>10, <1>11, <1>12, <1>13, <1>14, <1>15, <1>16, <1>17, <1>18, <1>19, <1>20, <1>21, <1>22, <1>23, <1>24, <1>25
     DEF MainStep, KillStep, DaemonFault, IdleStep

(* So does an administrator. *)
LEMMA AdminTypeInv ==
  ASSUME TypeInv,
         \/ \E j \in Jobs : DeleteLock(j)
         \/ \E p \in Ports : ResetPort(p)
         \/ ResetPortStatus
  PROVE  TypeInv'
<1> USE Constants DEF TypeInv, TypeOK, RefsOK, CurOK, db, workers, daemons
<1>1. ASSUME NEW j \in Jobs, DeleteLock(j) PROVE TypeInv'
  BY <1>1 DEF DeleteLock, Forget
<1>2. ASSUME NEW p \in Ports, ResetPort(p) PROVE TypeInv'
  BY <1>2, PhasesReset DEF ResetPort
<1>3. CASE ResetPortStatus
  BY <1>3 DEF ResetPortStatus, SetStatus
<1>4. QED
  BY <1>1, <1>2, <1>3

(* And so does a worker. *)
LEMMA WorkerTypeInv ==
  ASSUME TypeInv, NEW j \in Jobs,
         WorkStep(j) \/ SignalStep(j) \/ WorkerFault(j)
  PROVE  TypeInv'
<1>1. WorkerFrame(j) /\ WorkerTables
  BY WorkerFrameHolds, WorkerTablesHold
<1>2. TypeOK'
  <2>1. status' \in [Ports -> Status]
    BY <1>1 DEF TypeInv, TypeOK, WorkerFrame
  <2>2. sig' \subseteq Jobs
    BY <1>1 DEF TypeInv, TypeOK, WorkerFrame
  <2>3. /\ UNCHANGED <<locks, children, at, cand, cur, lost, admin>>
        /\ pc' \in [Jobs -> WorkerPC] /\ job' \in [Jobs -> Row \cup {NoRow}]
    BY <1>1 DEF WorkerFrame, daemons
  <2>4. QED
    BY <1>1, <2>1, <2>2, <2>3 DEF TypeInv, TypeOK, WorkerTables
<1>3. RefsOK'
  <2>1. \A m \in Machines : at'[m] = "insert" => cand'[m] # None
    BY <1>1 DEF TypeInv, RefsOK, WorkerFrame, daemons
  <2>2. \A k \in Jobs : pc'[k] \in Alive \cup Dead \cup {"new"} => job'[k] # NoRow
    BY <1>1 DEF TypeInv, RefsOK, WorkerFrame
  <2>3. QED
    BY <1>1, <2>1, <2>2 DEF RefsOK, WorkerTables
<1>4. CurOK'
  BY <1>1 DEF TypeInv, TypeOK, CurOK, WorkerFrame, daemons
<1>5. QED
  BY <1>2, <1>3, <1>4 DEF TypeInv

LEMMA TypeInvStep == TypeInv /\ [Next]_vars => TypeInv'
<1> SUFFICES ASSUME TypeInv, [Next]_vars PROVE TypeInv'
  OBVIOUS
<1>1. CASE UNCHANGED vars
  BY <1>1 DEF TypeInv, TypeOK, RefsOK, CurOK, vars, db, workers, daemons
<1>2. CASE Next
  BY <1>2, DaemonTypeInv, WorkerTypeInv, AdminTypeInv DEF Next, FaultStep
<1>3. QED
  BY <1>1, <1>2

LEMMA TypeInvInit == Init => TypeInv
  BY Constants DEF Init, TypeInv, TypeOK, RefsOK, CurOK

(* The tables, the daemons and the workers always hold values of their      *)
(* types, whatever faults happen.                                          *)
THEOREM TypeCorrect == Spec => []TypeOK
<1>1. Spec => []TypeInv
  BY TypeInvInit, TypeInvStep, PTL DEF Spec
<1>2. TypeInv => TypeOK
  BY DEF TypeInv
<1>3. QED
  BY <1>1, <1>2, PTL
-----------------------------------------------------------------------------
(* Mutual exclusion of workers. *)

(* Steps that leave the rows alone keep the lock invariant as long as no    *)
(* process comes to life without a row.                                    *)
LEMMA WorkerLockInv ==
  ASSUME LockInv, NEW j \in Jobs,
         WorkStep(j) \/ SignalStep(j) \/ WorkerFault(j)
  PROVE  NeverTold' /\ RowsKept' /\ UniqueRows'
<1>1. TypeInv /\ WorkerFrame(j)
  BY WorkerFrameHolds DEF LockInv
<1>2. /\ j \in locks /\ locks' = locks
      /\ pc'[j] \notin Stopping \cup {"free"}
      /\ \A k \in Jobs : job'[k] = job[k]
      /\ \A k \in Jobs : k # j => pc'[k] = pc[k]
  BY <1>1 DEF LockInv, NeverTold, RowsKept, WorkerFrame
<1>3. NeverTold'
  BY <1>1, <1>2 DEF LockInv, NeverTold, WorkerFrame, daemons
<1>4. RowsKept'
  BY <1>1, <1>2 DEF LockInv, RowsKept, TypeInv, TypeOK
<1>5. UniqueRows'
  BY <1>1, <1>2 DEF LockInv, UniqueRows, TypeInv, TypeOK
<1>6. QED
  BY <1>3, <1>4, <1>5

(* A daemon that is not told to stop keeps it: it inserts a row only where  *)
(* the table has none for that port and phase, and deletes one only when    *)
(* its worker is dead (_get_lock, process_dead_children).                  *)
LEMMA DaemonLockInv ==
  ASSUME LocksRespected, LockInv, NEW m \in Machines,
         MainStep(m) \/ KillStep(m) \/ DaemonFault(m)
  PROVE  NeverTold' /\ RowsKept' /\ UniqueRows'
<1> USE DEF LockInv, TypeInv, TypeOK, RefsOK, CurOK, NeverTold, RowsKept, UniqueRows,
        db, workers, daemons, Step, Go
<1>1. CASE IdleStep(m) \/ Select(m) \/ InsertDuplicate(m) \/ Restart(m) \/ Record(m)
           \/ ProcessReset(m) \/ ProcessResetStatus(m)
  <2> DEFINE Effect == /\ UNCHANGED <<locks, workers>>
                       /\ \E to \in DaemonPC \ (Sweeping \cup Killing) :
                            at' = [at EXCEPT ![m] = to]
  <2>1. ASSUME IdleStep(m) PROVE Effect
    <3>1. PICK to \in Idle : at' = [at EXCEPT ![m] = to]
      BY <2>1, IdleEffect
    <3>2. to \in DaemonPC \ (Sweeping \cup Killing)
      BY DEF Idle
    <3>3. QED
      BY <2>1, <3>1, <3>2, IdleEffect
  <2>2. ASSUME Select(m) \/ InsertDuplicate(m) \/ Restart(m) \/ Record(m)
               \/ ProcessReset(m) \/ ProcessResetStatus(m)
        PROVE  Effect
    BY <2>2 DEF Select, InsertDuplicate, Restart, Record, ProcessReset, ProcessResetStatus
  <2>3. Effect
    BY <1>1, <2>1, <2>2
  <2>4. NeverTold'
    BY <2>3
  <2>5. RowsKept' /\ UniqueRows'
    BY <2>3
  <2>6. QED
    BY <2>4, <2>5
<1>2. CASE Fork(m)
  BY <1>2 DEF Fork
<1>3. CASE NoWorkerIds(m) \/ ForkFail(m)
  <2>1. /\ at[m] = "fork" /\ at' = [at EXCEPT ![m] = "fill"]
        /\ Abandon({cur[m]}) /\ UNCHANGED <<locks, sig>>
    BY <1>3 DEF NoWorkerIds, ForkFail, LoseLock
  <2>2. cur[m] \in locks /\ job' = job
    BY <2>1 DEF Abandon
  <2>3. \A k \in Jobs : pc'[k] = IF k = cur[m] THEN "orphan" ELSE pc[k]
    BY <2>1, <2>2 DEF Abandon
  <2>4. QED
    BY <2>1, <2>2, <2>3
<1>4. CASE Unlock(m)
  BY <1>4 DEF Unlock, Forget
<1>5. CASE KillStep(m)
  BY <1>5 DEF KillStep, Signal, KillWait, WaitForever, SweepNext, SweepReset, SweepStatus, SweepUnlock, SweepDone
<1>6. CASE DaemonLostDB(m)
  BY <1>6 DEF DaemonLostDB
<1>7. CASE Term(m)
  BY <1>7 DEF Term, LocksRespected
<1>8. CASE Crash(m)
  BY <1>8 DEF Crash, Abandon
<1>9. ASSUME NEW j \in Jobs, InsertLock(m, j) \/ DaemonLostInsert(m, j)
      PROVE  NeverTold' /\ RowsKept' /\ UniqueRows'
  <2>1. /\ j \notin locks /\ locks' = locks \cup {j}
        /\ ~Locked(cand[m][1], cand[m][2])
        /\ job' = [job EXCEPT ![j] = [port |-> cand[m][1], phase |-> cand[m][2],
                                      machine |-> m]]
        /\ \E to \in {"new", "orphan"} : pc' = [pc EXCEPT ![j] = to]
        /\ \E to \in {"fork", "top"} : at' = [at EXCEPT ![m] = to]
        /\ sig' = sig
    BY <1>9 DEF InsertLock, DaemonLostInsert, InsertRow
  <2>2. NeverTold' /\ RowsKept'
    BY <2>1
  <2>3. UniqueRows'
    BY <2>1 DEF Locked
  <2>4. QED
    BY <2>2, <2>3
<1>10. ASSUME NEW j \in Jobs, Process(m, j)
       PROVE  NeverTold' /\ RowsKept' /\ UniqueRows'
  BY <1>10 DEF Process
<1>11. QED
  BY <1>1, <1>2, <1>3, <1>4, <1>5, <1>6, <1>7, <1>8, <1>9, <1>10
     DEF MainStep, DaemonFault, IdleStep

LEMMA LockInvStep ==
  ASSUME LocksRespected
  PROVE  LockInv /\ [Next]_vars => LockInv'
<1> SUFFICES ASSUME LockInv, [Next]_vars PROVE LockInv'
  OBVIOUS
<1>1. TypeInv'
  BY TypeInvStep DEF LockInv
<1>2. NeverTold' /\ RowsKept' /\ UniqueRows'
  <2>1. CASE UNCHANGED vars
    BY <2>1 DEF LockInv, NeverTold, RowsKept, UniqueRows, vars, db, workers, daemons
  <2>2. ASSUME NEW m \in Machines, MainStep(m) \/ KillStep(m) \/ DaemonFault(m)
        PROVE  NeverTold' /\ RowsKept' /\ UniqueRows'
    BY <2>2, DaemonLockInv
  <2>3. ASSUME NEW j \in Jobs, WorkStep(j) \/ SignalStep(j) \/ WorkerFault(j)
        PROVE  NeverTold' /\ RowsKept' /\ UniqueRows'
    BY <2>3, WorkerLockInv
  <2>4. CASE (\E p \in Ports : ResetPort(p)) \/ ResetPortStatus
    <3>1. UNCHANGED <<locks, workers, daemons>>
      BY <2>4 DEF ResetPort, ResetPortStatus
    <3>2. QED
      BY <3>1 DEF LockInv, NeverTold, RowsKept, UniqueRows, workers, daemons
  <2>5. CASE \E j \in Jobs : DeleteLock(j)
    BY <2>5 DEF DeleteLock, LocksRespected
  <2>6. QED
    BY <2>1, <2>2, <2>3, <2>4, <2>5 DEF Next, FaultStep
<1>3. QED
  BY <1>1, <1>2 DEF LockInv

LEMMA LockInvInit == Init => LockInv
<1> SUFFICES ASSUME Init PROVE LockInv
  OBVIOUS
<1>1. TypeInv
  BY TypeInvInit
<1>2. NeverTold /\ RowsKept /\ UniqueRows
  BY DEF Init, NeverTold, RowsKept, UniqueRows
<1>3. QED
  BY <1>1, <1>2 DEF LockInv

LEMMA LockInvExcludes == LockInv => MutualExclusion
  BY DEF LockInv, RowsKept, UniqueRows, MutualExclusion

(* On any cluster, with any mix of failing statements, processes and        *)
(* machines, two workers never work on the same phase of the same port, as  *)
(* long as no daemon is told to stop and no lock is deleted by hand.       *)
THEOREM WorkersExclude ==
  ASSUME LocksRespected
  PROVE  Spec => []MutualExclusion
<1>1. LockInv /\ [Next]_vars => LockInv'
  BY LockInvStep
<1>2. QED
  BY <1>1, LockInvInit, LockInvExcludes, PTL DEF Spec
-----------------------------------------------------------------------------
(* Daemons that are told to stop. *)

(* A machine with one slot and a worker id to spare has no live worker. *)
LEMMA NoneAlive ==
  ASSUME OneWorker, TypeInv, IsFiniteSet(children), NEW m \in Machines, FreeIds(m) > 0
  PROVE  LiveChildren(m) = {}
<1>1. IsFiniteSet(LiveChildren(m))
  <2>1. LiveChildren(m) \in SUBSET children
    BY DEF LiveChildren, ChildrenOf
  <2>2. QED
    BY <2>1, FS_Subset
<1>2. Cardinality(LiveChildren(m)) \in Nat
  BY <1>1, FS_CardinalityType
<1>3. lost[m] \in Nat
  BY DEF TypeInv, TypeOK
<1>4. Cardinality(LiveChildren(m)) = 0
  BY <1>2, <1>3 DEF FreeIds, OneWorker
<1>5. QED
  BY <1>1, <1>4, FS_EmptySet

(* A step of one daemon does not disturb the jobs of another one. *)
Same(k) ==
  /\ pc'[k] = pc[k] /\ job'[k] = job[k]
  /\ k \in locks' <=> k \in locks
  /\ k \in children' <=> k \in children
  /\ k \in sig' <=> k \in sig

OthersAlone(m) ==
  /\ \A n \in Machines : n # m => at'[n] = at[n] /\ cur'[n] = cur[n]
  /\ \A k \in Jobs : \/ Same(k)
                     \/ job[k].machine \in {m, None} /\ job'[k].machine \in {m, None}

LEMMA OthersStop ==
  ASSUME TypeInv, TypeInv', JobsOK, NoneLeft, NEW m \in Machines, OthersAlone(m),
         StopOK(m)', \A k \in Jobs : job'[k].machine \in {m, None} => JobOK(k)'
  PROVE  JobsOK' /\ NoneLeft'
<1>1. \A k \in Jobs : job'[k].machine \in Machines \cup {None}
  BY DEF TypeInv, TypeOK
<1>2. ASSUME NEW k \in Jobs, NEW n \in Machines, n # m,
             job'[k].machine = n \/ job[k].machine = n
      PROVE  Same(k) /\ job[k].machine = n /\ job'[k].machine = n
             /\ at'[n] = at[n] /\ cur'[n] = cur[n]
  BY <1>2, Constants DEF OthersAlone, Same
<1>3. JobsOK'
  <2>1. ASSUME NEW k \in Jobs, job'[k].machine \notin {m, None} PROVE JobOK(k)'
    <3>1. PICK n \in Machines : n # m /\ job'[k].machine = n
      BY <1>1, <2>1
    <3>2. JobOK(k)
      BY DEF JobsOK
    <3>3. QED
      BY <1>2, <3>1, <3>2 DEF Same, JobOK, Told
  <2>2. QED
    BY <2>1 DEF JobsOK
<1>4. ASSUME NEW n \in Machines, n # m PROVE StopOK(n)'
  <2>1. ChildrenOf(n)' = ChildrenOf(n)
    BY <1>2, <1>4 DEF ChildrenOf, Same, TypeInv, TypeOK
  <2>2. LiveChildren(n)' = LiveChildren(n)
    BY <1>2, <1>4, <2>1 DEF LiveChildren, ChildrenOf, Same, TypeInv, TypeOK
  <2>3. at'[n] = at[n] /\ cur'[n] = cur[n]
    BY <1>4 DEF OthersAlone
  <2>4. StopOK(n)
    BY DEF NoneLeft
  <2>5. ASSUME cur[n] \in locks, job[cur[n]].machine = n
        PROVE  cur[n] \in locks' /\ job'[cur[n]].machine = n
    BY <1>2, <1>4, <2>5 DEF Same, TypeInv, TypeOK
  <2>6. QED
    BY <2>1, <2>2, <2>3, <2>4, <2>5 DEF StopOK
<1>5. QED
  BY <1>3, <1>4 DEF NoneLeft

(* Rows stay unique, and machines with one worker, while nobody comes to    *)
(* life and no row is added.                                               *)
LEMMA FewerStay ==
  ASSUME UniqueRows, OneAlive, locks' \subseteq locks, children' \subseteq children,
         \A k \in locks' \cup children' :
           job'[k] = job[k] /\ (pc'[k] \in Alive => pc[k] \in Alive)
  PROVE  UniqueRows' /\ OneAlive'
<1>1. UniqueRows'
  BY DEF UniqueRows
<1>2. OneAlive'
  BY DEF OneAlive
<1>3. QED
  BY <1>1, <1>2

(* A daemon that moves on, without touching rows, processes or signals. *)
LEMMA PlaceStop ==
  ASSUME StopInv, TypeInv', NEW m \in Machines, at[m] \notin {"fork", "kill"},
         UNCHANGED <<locks, job, pc, sig, children>>,
         \A n \in Machines : n # m => at'[n] = at[n] /\ cur'[n] = cur[n],
         StopOK(m)'
  PROVE  StopParts'
<1> USE DEF StopInv, StopParts
<1>1. OthersAlone(m)
  BY DEF OthersAlone, Same
<1>2. ASSUME NEW k \in Jobs, job'[k].machine \in {m, None} PROVE JobOK(k)'
  <2>1. JobOK(k)
    BY DEF JobsOK
  <2>2. pc[k] \in Alive \cup {"new"} => job[k].machine # None
    BY Constants DEF TypeInv, TypeOK, RefsOK
  <2>3. pc[k] # "new" /\ ~Told(k)
    BY <1>2, <2>1, <2>2 DEF JobOK
  <2>4. QED
    BY <2>1, <2>3 DEF JobOK, Told
<1>3. JobsOK' /\ NoneLeft'
  BY <1>1, <1>2, OthersStop
<1>4. UniqueRows' /\ OneAlive'
  BY DEF UniqueRows, OneAlive
<1>5. QED
  BY <1>3, <1>4

(* What a worker does keeps the rows unique and its daemon's view of it. *)
LEMMA WorkerStopInv ==
  ASSUME StopInv, NEW j \in Jobs,
         WorkStep(j) \/ SignalStep(j) \/ WorkerFault(j)
  PROVE  StopParts'
<1> USE DEF StopInv, StopParts
<1>1. TypeInv /\ WorkerFrame(j) /\ JobOK(j)
  BY WorkerFrameHolds DEF JobsOK
<1>2. /\ UNCHANGED <<locks, children, at, cur>> /\ sig' \subseteq sig
      /\ pc[j] \in Alive /\ pc'[j] \in Alive \cup Dead \cup {"orphan", "free"}
      /\ \A k \in Jobs : k # j => pc'[k] = pc[k] /\ job'[k] = job[k]
      /\ j \in locks \cup children => job'[j] = job[j]
  BY <1>1 DEF WorkerFrame, daemons
<1>3. JobOK(j)'
  BY <1>1, <1>2 DEF JobOK, Told, WorkerFrame
<1>4. ASSUME NEW k \in Jobs, k # j PROVE JobOK(k)'
  BY <1>2, <1>4 DEF JobsOK, JobOK, Told
<1>5. UniqueRows' /\ OneAlive'
  <2>1. \A k \in locks \cup children :
          job'[k] = job[k] /\ (pc'[k] \in Alive => pc[k] \in Alive)
    BY <1>1, <1>2 DEF TypeInv, TypeOK
  <2>2. QED
    BY <1>2, <2>1, FewerStay
<1>6. ASSUME NEW m \in Machines PROVE StopOK(m)'
  <2>1. ChildrenOf(m)' = ChildrenOf(m)
    BY <1>1, <1>2 DEF ChildrenOf, TypeInv, TypeOK
  <2>2. LiveChildren(m)' \subseteq LiveChildren(m)
    BY <1>1, <1>2, <2>1 DEF LiveChildren, ChildrenOf, TypeInv, TypeOK
  <2>3. cur[m] \in locks => job'[cur[m]] = job[cur[m]]
    BY <1>1, <1>2 DEF TypeInv, TypeOK
  <2>4. StopOK(m)
    BY DEF NoneLeft
  <2>5. QED
    BY <1>2, <2>1, <2>2, <2>3, <2>4 DEF StopOK
<1>7. QED
  BY <1>2, <1>3, <1>4, <1>5, <1>6 DEF JobsOK, NoneLeft

(* A daemon that could not start a worker gives up its lock. *)
LEMMA LoseLockStop ==
  ASSUME StopInv, TypeInv', NEW m \in Machines, LoseLock(m)
  PROVE  StopParts'
<1> USE DEF StopInv, StopParts
<1>1. /\ at[m] = "fork" /\ at' = [at EXCEPT ![m] = "fill"]
      /\ cur' = [cur EXCEPT ![m] = None]
      /\ Abandon({cur[m]}) /\ UNCHANGED <<locks, sig, children>>
  BY DEF LoseLock, Step, db
<1>2. /\ cur[m] \in locks /\ pc[cur[m]] = "new" /\ job[cur[m]].machine = m
      /\ cur[m] \in Jobs
  BY <1>1 DEF TypeInv, CurOK, JobsOK, JobOK
<1>3. /\ \A k \in Jobs : job'[k] = job[k]
      /\ \A k \in Jobs : pc'[k] = IF k = cur[m] THEN "orphan" ELSE pc[k]
  BY <1>1, <1>2 DEF Abandon
<1>4. OthersAlone(m)
  BY <1>1, <1>2, <1>3 DEF OthersAlone, Same, TypeInv, TypeOK
<1>5. ASSUME NEW k \in Jobs, job'[k].machine \in {m, None} PROVE JobOK(k)'
  <2>1. JobOK(k) /\ (pc[k] \in Alive \cup {"new"} => job[k].machine # None)
    BY Constants DEF JobsOK, TypeInv, TypeOK, RefsOK
  <2>2. ~Told(k) /\ (pc[k] = "new" => k = cur[m])
    BY <1>1, <1>3, <1>5, <2>1 DEF JobOK
  <2>3. QED
    BY <1>1, <1>2, <1>3, <2>1, <2>2 DEF JobOK, Told
<1>6. StopOK(m)'
  BY <1>1 DEF StopOK, TypeInv, TypeOK
<1>7. JobsOK' /\ NoneLeft'
  BY <1>4, <1>5, <1>6, OthersStop
<1>8. UniqueRows' /\ OneAlive'
  <2>1. \A k \in locks \cup children :
          job'[k] = job[k] /\ (pc'[k] \in Alive => pc[k] \in Alive)
    BY <1>3 DEF TypeInv, TypeOK
  <2>2. QED
    BY <1>1, <2>1, FewerStay
<1>9. QED
  BY <1>1, <1>7, <1>8

(* A row is inserted, whether the daemon gets to know of it or not. *)
LEMMA InsertStop ==
  ASSUME StopInv, TypeInv', NEW m \in Machines, NEW j \in Jobs, at[m] = "insert",
         NEW to, InsertRow(m, j, to),
         \/ to = "new" /\ Step(m, "insert", "fork") /\ cur' = [cur EXCEPT ![m] = j]
         \/ to = "orphan" /\ Step(m, "insert", "top") /\ cur' = cur
  PROVE  StopParts'
<1> USE DEF StopInv, StopParts
<1>1. /\ locks' = locks \cup {j} /\ pc[j] = "free"
      /\ ~Locked(cand[m][1], cand[m][2])
      /\ job' = [job EXCEPT ![j] = [port |-> cand[m][1], phase |-> cand[m][2],
                                    machine |-> m]]
      /\ pc' = [pc EXCEPT ![j] = to] /\ UNCHANGED <<sig, children>>
      /\ \A n \in Machines : n # m => at'[n] = at[n] /\ cur'[n] = cur[n]
  BY DEF InsertRow, Go, Step, TypeInv, TypeOK
<1>2. /\ job'[j].machine = m /\ job'[j].port = cand[m][1] /\ job'[j].phase = cand[m][2]
      /\ pc'[j] = to
      /\ \A k \in Jobs : k # j => pc'[k] = pc[k] /\ job'[k] = job[k]
  BY <1>1 DEF TypeInv, TypeOK
<1>3. job[j].machine = None /\ j \notin locks \cup children /\ ~Told(j)
  BY <1>1 DEF JobsOK, JobOK
<1>4. OthersAlone(m)
  BY <1>1, <1>2, <1>3 DEF OthersAlone, Same
<1>5. ASSUME NEW k \in Jobs, job'[k].machine \in {m, None} PROVE JobOK(k)'
  <2>1. CASE k = j
    BY <1>1, <1>2, <1>3, <2>1 DEF JobOK, Told, Step, TypeInv, TypeOK
  <2>2. CASE k # j
    <3>1. JobOK(k) /\ (pc[k] \in Alive \cup {"new"} => job[k].machine # None)
      BY Constants DEF JobsOK, TypeInv, TypeOK, RefsOK
    <3>2. ~Told(k) /\ pc[k] # "new"
      BY <1>2, <1>5, <2>2, <3>1 DEF JobOK
    <3>3. QED
      BY <1>1, <1>2, <2>2, <3>1, <3>2 DEF JobOK, Told
  <2>3. QED
    BY <2>1, <2>2
<1>6. StopOK(m)'
  BY DEF StopOK, Step, TypeInv, TypeOK
<1>7. JobsOK' /\ NoneLeft'
  BY <1>4, <1>5, <1>6, OthersStop
<1>8. OneAlive'
  BY <1>1, <1>2, <1>3 DEF OneAlive, TypeInv, TypeOK
<1>9. UniqueRows'
  BY <1>1, <1>2, <1>3 DEF UniqueRows, Locked, TypeInv, TypeOK
<1>10. QED
  BY <1>1, <1>7, <1>8, <1>9

(* The daemon's ordinary work. *)
LEMMA MainStopInv ==
  ASSUME OneWorker, StopInv, TypeInv', NEW m \in Machines, MainStep(m) \/ Oversleep(m)
  PROVE  StopParts'
<1> USE DEF StopInv, StopParts, Step, db, workers
<1>1. CASE IdleStep(m)
  <2>1. /\ at[m] \in Idle /\ at'[m] \in Idle
        /\ \A n \in Machines : n # m => at'[n] = at[n]
        /\ UNCHANGED <<locks, job, pc, sig, children, cur>>
    BY <1>1, IdleEffect DEF TypeInv, TypeOK
  <2>2. QED
    BY <2>1, PlaceStop DEF StopOK, Idle
<1>2. CASE Select(m) \/ InsertDuplicate(m) \/ ProcessReset(m) \/ ProcessResetStatus(m)
           \/ Record(m)
  <2>1. /\ at[m] \in {"fill", "insert", "forked"} \cup Reaping
        /\ at'[m] \in {"fill", "insert"} \cup Reaping
        /\ \A n \in Machines : n # m => at'[n] = at[n] /\ cur'[n] = cur[n]
        /\ UNCHANGED <<locks, job, pc, sig, children>>
    BY <1>2 DEF Select, InsertDuplicate, ProcessReset, ProcessResetStatus, Record,
                TypeInv, TypeOK
  <2>2. QED
    BY <2>1, PlaceStop DEF StopOK
<1>3. ASSUME NEW j \in Jobs, Process(m, j) PROVE StopParts'
  <2>1. /\ at[m] = "top" /\ at'[m] \in Reaping
        /\ \A n \in Machines : n # m => at'[n] = at[n] /\ cur'[n] = cur[n]
        /\ UNCHANGED <<locks, job, pc, sig, children>>
    BY <1>3 DEF Process, TypeInv, TypeOK
  <2>2. QED
    BY <2>1, PlaceStop DEF StopOK
<1>4. CASE Fork(m)
  <2>1. /\ at[m] = "fork" /\ at' = [at EXCEPT ![m] = "forked"]
        /\ UNCHANGED <<locks, job, sig, cur>>
        /\ children' = children \cup {cur[m]} /\ pc' = [pc EXCEPT ![cur[m]] = "start"]
        /\ LiveChildren(m) = {}
    BY <1>4, NoneAlive DEF Fork, Go
  <2>2. /\ cur[m] \in Jobs /\ pc[cur[m]] = "new" /\ job[cur[m]].machine = m
        /\ pc'[cur[m]] = "start" /\ \A k \in Jobs : k # cur[m] => pc'[k] = pc[k]
        /\ cur[m] \in locks
    BY <2>1 DEF TypeInv, TypeOK, CurOK, JobsOK, JobOK
  <2>3. OthersAlone(m)
    BY <2>1, <2>2 DEF OthersAlone, Same, TypeInv, TypeOK
  <2>4. ASSUME NEW k \in Jobs, job'[k].machine \in {m, None} PROVE JobOK(k)'
    <3>1. JobOK(k) /\ (pc[k] \in Alive \cup {"new"} => job[k].machine # None)
      BY Constants DEF JobsOK, TypeInv, TypeOK, RefsOK
    <3>2. ~Told(k)
      BY <2>1, <2>4, <3>1 DEF JobOK
    <3>3. pc[k] = "new" => k = cur[m]
      BY <2>1, <2>4, <3>1 DEF JobOK
    <3>4. QED
      BY <2>1, <2>2, <3>1, <3>2, <3>3 DEF JobOK, Told
  <2>5. LiveChildren(m)' \subseteq {cur[m]}
    BY <2>1, <2>2 DEF LiveChildren, ChildrenOf, TypeInv, TypeOK
  <2>6. StopOK(m)'
    BY <2>1, <2>5 DEF StopOK, TypeInv, TypeOK
  <2>7. JobsOK' /\ NoneLeft'
    BY <2>3, <2>4, <2>6, OthersStop
  <2>8. UniqueRows' /\ OneAlive'
    BY <2>1, <2>2 DEF UniqueRows, OneAlive, LiveChildren, ChildrenOf, TypeInv, TypeOK
  <2>9. IsFiniteSet(children')
    BY <2>1, FS_AddElement
  <2>10. QED
    BY <2>7, <2>8, <2>9
<1>5. CASE NoWorkerIds(m)
  BY <1>5, LoseLockStop DEF NoWorkerIds
<1>6. CASE Unlock(m)
  <2>1. /\ at[m] = "unlock" /\ at' = [at EXCEPT ![m] = "top"]
        /\ locks' = locks \ {cur[m]} /\ children' = children \ {cur[m]}
        /\ cur' = [cur EXCEPT ![m] = None] /\ sig' = sig
        /\ cur[m] \in Jobs /\ pc[cur[m]] \in Dead /\ job[cur[m]].machine = m
        /\ \A k \in Jobs : k # cur[m] => pc'[k] = pc[k] /\ job'[k] = job[k]
        /\ pc'[cur[m]] = "free" /\ job'[cur[m]] = NoRow
    BY <1>6 DEF Unlock, Forget, TypeInv, TypeOK, CurOK
  <2>2. OthersAlone(m)
    BY <2>1 DEF OthersAlone, Same, TypeInv, TypeOK
  <2>3. ASSUME NEW k \in Jobs, job'[k].machine \in {m, None} PROVE JobOK(k)'
    <3>1. JobOK(k) /\ (pc[k] \in Alive \cup {"new"} => job[k].machine # None)
      BY Constants DEF JobsOK, TypeInv, TypeOK, RefsOK
    <3>2. ~Told(k) /\ pc[k] # "new"
      BY <2>1, <2>3, <3>1 DEF JobOK
    <3>3. QED
      BY <2>1, <3>1, <3>2 DEF JobOK, Told
  <2>4. StopOK(m)'
    BY <2>1 DEF StopOK, TypeInv, TypeOK
  <2>5. JobsOK' /\ NoneLeft'
    BY <2>2, <2>3, <2>4, OthersStop
  <2>6. UniqueRows' /\ OneAlive'
    <3>1. \A k \in locks' \cup children' :
            job'[k] = job[k] /\ (pc'[k] \in Alive => pc[k] \in Alive)
      BY <2>1 DEF TypeInv, TypeOK
    <3>2. QED
      BY <2>1, <3>1, FewerStay
  <2>7. IsFiniteSet(children')
    BY <2>1, FS_RemoveElement
  <2>8. QED
    BY <2>5, <2>6, <2>7
<1>7. ASSUME NEW j \in Jobs, InsertLock(m, j) PROVE StopParts'
  BY <1>7, InsertStop DEF InsertLock
<1>8. QED
  BY <1>1, <1>2, <1>3, <1>4, <1>5, <1>6, <1>7 DEF MainStep, IdleStep

(* A daemon that is told to stop abandons what it was doing; whoever it has *)
(* just forked and not recorded is no child of anybody any more.           *)
LEMMA TermStopInv ==
  ASSUME StopInv, TypeInv', NEW m \in Machines, Term(m)
  PROVE  StopParts'
<1> DEFINE gone == Corpses(m) \cup {k \in {cur[m]} : at[m] = "fork"}
<1> USE DEF StopInv, StopParts
<1>1. /\ at[m] \notin Sweeping \cup Killing \cup {"down"}
      /\ \/ /\ Counted(m) = {} /\ at' = [at EXCEPT ![m] = "sweep"]
            /\ children' = children \ ChildrenOf(m)
         \/ /\ Counted(m) # {} /\ at' = [at EXCEPT ![m] = "told"]
            /\ children' = children \ Corpses(m)
      /\ cur' = [cur EXCEPT ![m] = None] /\ locks' = locks /\ sig' = sig
      /\ Abandon(gone)
  BY DEF Term, db
<1>2. /\ \A k \in gone : k \in Jobs /\ job[k].machine = m
                         /\ pc[k] \in Dead \cup {"new"}
      /\ \A k \in Jobs : job[k].machine = m /\ pc[k] \in Dead \cup {"new"} => k \in gone
  BY <1>1 DEF Corpses, ChildrenOf, TypeInv, TypeOK, CurOK, JobsOK, JobOK
<1> HIDE DEF gone
<1>3. /\ \A k \in Jobs : k \notin gone => pc'[k] = pc[k] /\ job'[k] = job[k]
      /\ \A k \in gone : k \in locks => pc'[k] = "orphan" /\ job'[k] = job[k]
      /\ \A k \in gone : k \notin locks => pc'[k] = "free" /\ job'[k] = NoRow
  BY <1>1, <1>2 DEF Abandon
<1>4. /\ children' \subseteq children
      /\ \A k \in children' : k \notin gone
      /\ \A k \in children : job[k].machine # m => k \in children'
  BY <1>1, <1>2 DEF Corpses, ChildrenOf, JobsOK, JobOK, TypeInv, TypeOK
<1>5. OthersAlone(m)
  <2>1. \A n \in Machines : n # m => at'[n] = at[n] /\ cur'[n] = cur[n]
    BY <1>1 DEF TypeInv, TypeOK
  <2>2. ASSUME NEW k \in Jobs, job[k].machine \notin {m, None} PROVE Same(k)
    BY <1>1, <1>2, <1>3, <1>4, <2>2 DEF Same
  <2>3. ASSUME NEW k \in Jobs, job[k].machine \in {m, None}
        PROVE  job'[k].machine \in {m, None}
    BY <1>2, <1>3, <2>3
  <2>4. QED
    BY <2>1, <2>2, <2>3 DEF OthersAlone
<1>6. ASSUME NEW k \in Jobs, job'[k].machine \in {m, None} PROVE JobOK(k)'
  <2>1. JobOK(k) /\ (pc[k] \in Alive \cup Dead \cup {"new"} => job[k].machine # None)
    BY Constants DEF JobsOK, TypeInv, TypeOK, RefsOK
  <2>2. job[k].machine \in {m, None}
    BY <1>2, <1>3, <1>6
  <2>3. ~Told(k) /\ (k \notin gone => pc[k] \notin {"new"} \cup Dead)
    BY <1>1, <1>2, <2>1, <2>2 DEF JobOK
  <2>4. QED
    BY <1>1, <1>2, <1>3, <1>4, <2>1, <2>3 DEF JobOK, Told
<1>7. StopOK(m)'
  <2>1. CASE Counted(m) = {}
    <3>1. at'[m] = "sweep" /\ children' = children \ ChildrenOf(m)
      BY <1>1, <2>1 DEF TypeInv, TypeOK
    <3>2. ChildrenOf(m)' = {}
      BY <1>3, <1>4, <3>1 DEF ChildrenOf, TypeInv, TypeOK
    <3>3. QED
      BY <3>1, <3>2 DEF StopOK
  <2>2. CASE Counted(m) # {}
    <3>1. at'[m] = "told" /\ children' = children \ Corpses(m)
      BY <1>1, <2>2 DEF TypeInv, TypeOK
    <3>2. ChildrenOf(m)' \subseteq LiveChildren(m)
      BY <1>3, <1>4, <3>1 DEF ChildrenOf, LiveChildren, Corpses, JobsOK, JobOK, TypeInv, TypeOK
    <3>3. \A j, k \in LiveChildren(m) : j = k
      BY DEF OneAlive, LiveChildren, ChildrenOf
    <3>4. QED
      BY <3>1, <3>2, <3>3 DEF StopOK
  <2>3. QED
    BY <2>1, <2>2
<1>8. JobsOK' /\ NoneLeft'
  BY <1>5, <1>6, <1>7, OthersStop
<1>9. UniqueRows' /\ OneAlive'
  <2>1. \A k \in locks' \cup children' :
          job'[k] = job[k] /\ (pc'[k] \in Alive => pc[k] \in Alive)
    BY <1>1, <1>2, <1>3, <1>4 DEF TypeInv, TypeOK
  <2>2. QED
    BY <1>1, <1>4, <2>1, FewerStay
<1>10. IsFiniteSet(children')
  BY <1>4, FS_Subset
<1>11. QED
  BY <1>8, <1>9, <1>10

(* SIGINT, the wait for the one child there is, and the sweep. *)
LEMMA KillStopInv ==
  ASSUME StopInv, TypeInv', NEW m \in Machines, KillStep(m)
  PROVE  StopParts'
<1> USE DEF StopInv, StopParts, Step, db, workers
<1>0. StopOK(m) /\ \A k \in Jobs : JobOK(k)
  BY DEF NoneLeft, JobsOK
<1>1. CASE SweepReset(m) \/ SweepStatus(m) \/ SweepDone(m)
  <2>1. /\ at[m] \in Sweeping /\ at'[m] \in Sweeping \cup {"down"}
        /\ at'[m] \in Sweeping \ {"sweep"} => at[m] \in Sweeping \ {"sweep"}
        /\ \A n \in Machines : at'[n] = at[n] \/ n = m
        /\ UNCHANGED <<locks, job, pc, sig, children, cur>>
    BY <1>1 DEF SweepReset, SweepStatus, SweepDone, TypeInv, TypeOK
  <2>2. StopOK(m)'
    BY <1>0, <2>1 DEF StopOK, ChildrenOf
  <2>3. QED
    BY <2>1, <2>2, PlaceStop
<1>2. ASSUME NEW j \in Jobs, SweepNext(m, j) PROVE StopParts'
  <2>1. /\ at[m] = "sweep" /\ at'[m] = "sweepReset" /\ cur'[m] = j
        /\ j \in locks /\ job[j].machine = m
        /\ \A n \in Machines : n # m => at'[n] = at[n] /\ cur'[n] = cur[n]
        /\ UNCHANGED <<locks, job, pc, sig, children>>
    BY <1>2 DEF SweepNext, RowsOf, TypeInv, TypeOK
  <2>2. StopOK(m)'
    BY <1>0, <2>1 DEF StopOK, ChildrenOf
  <2>3. QED
    BY <2>1, <2>2, PlaceStop
<1>3. CASE SweepUnlock(m)
  <2>1. /\ at[m] = "sweepUnlock" /\ at' = [at EXCEPT ![m] = "sweep"]
        /\ cur' = [cur EXCEPT ![m] = None] /\ locks' = locks \ {cur[m]}
        /\ UNCHANGED <<sig, children>> /\ ChildrenOf(m) = {}
        /\ cur[m] \in locks /\ cur[m] \in Jobs /\ job[cur[m]].machine = m
    BY <1>0, <1>3 DEF SweepUnlock, StopOK, TypeInv, TypeOK
  <2>2. cur[m] \notin children /\ pc[cur[m]] \in Alive \cup {"orphan"} /\ ~Told(cur[m])
    BY <1>0, <2>1 DEF ChildrenOf, JobOK, TypeInv, TypeOK
  <2>3. /\ \A k \in Jobs : k # cur[m] => pc'[k] = pc[k] /\ job'[k] = job[k]
        /\ \/ pc[cur[m]] = "orphan" /\ pc'[cur[m]] = "free" /\ job'[cur[m]] = NoRow
           \/ pc[cur[m]] \in Alive /\ pc'[cur[m]] = pc[cur[m]] /\ job'[cur[m]] = job[cur[m]]
    BY <1>3, <2>1, <2>2 DEF SweepUnlock, Forget
  <2>4. OthersAlone(m)
    BY <2>1, <2>3 DEF OthersAlone, Same, TypeInv, TypeOK
  <2>5. ASSUME NEW k \in Jobs, job'[k].machine \in {m, None} PROVE JobOK(k)'
    <3>1. pc[k] \in Alive \cup {"new"} => job[k].machine # None
      BY Constants DEF TypeInv, TypeOK, RefsOK
    <3>2. ~Told(k) /\ pc[k] # "new"
      BY <1>0, <2>1, <2>2, <2>3, <2>5, <3>1 DEF JobOK
    <3>3. CASE k = cur[m]
      BY <2>1, <2>2, <2>3, <3>2, <3>3 DEF JobOK, Told
    <3>4. CASE k # cur[m]
      BY <1>0, <2>1, <2>3, <3>2, <3>4 DEF JobOK, Told
    <3>5. QED
      BY <3>3, <3>4
  <2>6. ChildrenOf(m)' = {}
    <3>1. ASSUME NEW k \in children PROVE job'[k] = job[k] /\ job[k].machine # m
      BY <2>1, <2>2, <2>3 DEF ChildrenOf, TypeInv, TypeOK
    <3>2. QED
      BY <2>1, <3>1 DEF ChildrenOf
  <2>7. StopOK(m)'
    BY <2>1, <2>6 DEF StopOK, TypeInv, TypeOK
  <2>8. JobsOK' /\ NoneLeft'
    BY <2>4, <2>5, <2>7, OthersStop
  <2>9. UniqueRows' /\ OneAlive'
    <3>1. \A k \in locks' \cup children' :
            job'[k] = job[k] /\ (pc'[k] \in Alive => pc[k] \in Alive)
      BY <2>1, <2>2, <2>3 DEF TypeInv, TypeOK
    <3>2. QED
      BY <2>1, <3>1, FewerStay
  <2>10. QED
    BY <2>1, <2>8, <2>9
<1>4. CASE WaitForever(m)
  <2>1. UNCHANGED <<locks, job, pc, sig, children, at, cur>>
    BY <1>4 DEF WaitForever, vars, daemons
  <2>2. QED
    BY <2>1 DEF JobsOK, JobOK, Told, UniqueRows, OneAlive, NoneLeft, StopOK,
                ChildrenOf, LiveChildren
<1>5. ASSUME NEW gone \in SUBSET Corpses(m), Abandon(gone), children' = children \ gone,
             locks' = locks, cur' = cur, at[m] \in Killing,
             \/ at' = [at EXCEPT ![m] = "kill"] /\ sig' = sig \cup LiveChildren(m)
             \/ /\ at' = [at EXCEPT ![m] = "sweep"] /\ sig' = sig
                /\ ChildrenOf(m) = gone
      PROVE  StopParts'
  <2>1. /\ \A k \in gone : k \in Jobs /\ k \in children /\ job[k].machine = m
                           /\ pc[k] \in Dead
        /\ \A k \in LiveChildren(m) : k \in Jobs /\ k \in children
                           /\ job[k].machine = m /\ pc[k] \in Alive
    BY <1>5 DEF Corpses, LiveChildren, ChildrenOf, TypeInv, TypeOK
  <2>2. /\ \A k \in Jobs : k \notin gone => pc'[k] = pc[k] /\ job'[k] = job[k]
        /\ \A k \in gone : k \in locks => pc'[k] = "orphan" /\ job'[k] = job[k]
        /\ \A k \in gone : k \notin locks => pc'[k] = "free" /\ job'[k] = NoRow
    BY <1>5, <2>1 DEF Abandon
  <2>3. OthersAlone(m)
    <3>1. \A n \in Machines : n # m => at'[n] = at[n] /\ cur'[n] = cur[n]
      BY <1>5 DEF TypeInv, TypeOK
    <3>2. ASSUME NEW k \in Jobs, job[k].machine \notin {m, None} PROVE Same(k)
      BY <1>5, <2>1, <2>2, <3>2 DEF Same
    <3>3. ASSUME NEW k \in Jobs, job[k].machine \in {m, None}
          PROVE  job'[k].machine \in {m, None}
      BY <2>1, <2>2, <3>3
    <3>4. QED
      BY <3>1, <3>2, <3>3 DEF OthersAlone
  <2>4. ASSUME NEW k \in Jobs, job'[k].machine \in {m, None} PROVE JobOK(k)'
    <3>1. pc[k] \in Alive \cup Dead \cup {"new"} => job[k].machine # None
      BY Constants DEF TypeInv, TypeOK, RefsOK
    <3>2. pc[k] \in Alive \cup Dead \cup {"new"} => job[k].machine = m
      BY <2>1, <2>2, <2>4, <3>1
    <3>3. pc[k] # "new"
      BY <1>0, <1>5, <3>2 DEF JobOK
    <3>4. CASE k \in gone
      BY <1>0, <1>5, <2>1, <2>2, <3>4 DEF JobOK, Told
    <3>5. CASE k \notin gone
      <4>1. ASSUME Told(k)' PROVE k \in children' /\ pc'[k] \in Alive /\ at'[job'[k].machine] = "kill"
        <5>1. k \in children /\ pc[k] \in Alive /\ job[k].machine = m
          BY <1>0, <1>5, <2>1, <2>2, <3>2, <3>5, <4>1 DEF JobOK, Told
        <5>2. k \in ChildrenOf(m) /\ pc'[k] = pc[k] /\ job'[k] = job[k]
          BY <2>2, <3>5, <5>1 DEF ChildrenOf
        <5>3. QED
          BY <1>5, <3>5, <5>1, <5>2 DEF TypeInv, TypeOK
      <4>2. QED
        BY <1>0, <1>5, <2>2, <3>3, <3>5, <4>1 DEF JobOK
    <3>6. QED
      BY <3>4, <3>5
  <2>5. ChildrenOf(m)' = ChildrenOf(m) \ gone
    BY <1>5, <2>1, <2>2 DEF ChildrenOf, TypeInv, TypeOK
  <2>6. StopOK(m)'
    BY <1>0, <1>5, <2>5 DEF StopOK, TypeInv, TypeOK
  <2>7. JobsOK' /\ NoneLeft'
    BY <2>3, <2>4, <2>6, OthersStop
  <2>8. UniqueRows' /\ OneAlive'
    <3>1. \A k \in locks' \cup children' :
            job'[k] = job[k] /\ (pc'[k] \in Alive => pc[k] \in Alive)
      BY <1>5, <2>1, <2>2 DEF TypeInv, TypeOK
    <3>2. QED
      BY <1>5, <3>1, FewerStay
  <2>9. IsFiniteSet(children')
    BY <1>5, FS_Subset
  <2>10. QED
    BY <2>7, <2>8, <2>9
<1>6. CASE Signal(m)
  <2>1. PICK gone \in SUBSET Corpses(m) : children' = children \ gone /\ Abandon(gone)
    BY <1>6 DEF Signal
  <2>2. QED
    BY <1>5, <1>6, <2>1 DEF Signal
<1>7. CASE KillWait(m)
  <2>1. ChildrenOf(m) = Corpses(m)
    BY <1>0, <1>7 DEF KillWait, StopOK, Corpses
  <2>2. QED
    BY <1>5, <1>7, <2>1 DEF KillWait
<1>8. QED
  BY <1>1, <1>2, <1>3, <1>4, <1>6, <1>7 DEF KillStep

(* Faults of a daemon. *)
LEMMA FaultStopInv ==
  ASSUME OneWorker, StopInv, TypeInv', NEW m \in Machines, DaemonFault(m)
  PROVE  StopParts'
<1> USE DEF StopInv, StopParts, Step, db, workers
<1>0. StopOK(m) /\ \A k \in Jobs : JobOK(k)
  BY DEF NoneLeft, JobsOK
<1>1. CASE ForkFail(m)
  BY <1>1, LoseLockStop DEF ForkFail
<1>2. CASE Oversleep(m)
  BY <1>2, MainStopInv
<1>3. CASE Term(m)
  BY <1>3, TermStopInv
<1>4. ASSUME NEW j \in Jobs, DaemonLostInsert(m, j) PROVE StopParts'
  BY <1>4, InsertStop DEF DaemonLostInsert
<1>5. CASE Restart(m)
  <2>1. /\ at[m] = "down" /\ at'[m] = "top"
        /\ \A n \in Machines : n # m => at'[n] = at[n]
        /\ UNCHANGED <<locks, job, pc, sig, children, cur>>
    BY <1>5 DEF Restart, TypeInv, TypeOK
  <2>2. QED
    BY <2>1, PlaceStop DEF StopOK
<1>6. CASE DaemonLostDB(m)
  <2>1. /\ at[m] \in {"fill", "insert"} \cup Reaping /\ at'[m] = "top"
        /\ \A n \in Machines : n # m => at'[n] = at[n] /\ cur'[n] = cur[n]
        /\ UNCHANGED <<job, pc, sig, children>>
    BY <1>6 DEF DaemonLostDB, TypeInv, TypeOK
  <2>2. StopOK(m)'
    BY <2>1 DEF StopOK
  <2>3. CASE locks' = locks
    BY <2>1, <2>2, <2>3, PlaceStop
  <2>4. CASE at[m] = "unlock" /\ locks' = locks \ {cur[m]}
    <3>1. cur[m] \in Jobs /\ pc[cur[m]] \in Dead /\ job[cur[m]].machine = m
      BY <2>4 DEF TypeInv, CurOK
    <3>2. OthersAlone(m)
      BY <2>1, <2>4, <3>1 DEF OthersAlone, Same
    <3>3. ASSUME NEW k \in Jobs, job'[k].machine \in {m, None} PROVE JobOK(k)'
      <4>1. pc[k] \in Alive \cup {"new"} => job[k].machine # None
        BY Constants DEF TypeInv, TypeOK, RefsOK
      <4>2. ~Told(k) /\ pc[k] # "new"
        BY <1>0, <2>1, <3>3, <4>1 DEF JobOK
      <4>3. QED
        BY <1>0, <2>1, <2>4, <3>1, <4>2 DEF JobOK, Told
    <3>4. JobsOK' /\ NoneLeft'
      BY <2>2, <3>2, <3>3, OthersStop
    <3>5. UniqueRows' /\ OneAlive'
      BY <2>1, <2>4, FewerStay
    <3>6. QED
      BY <2>1, <3>4, <3>5
  <2>5. QED
    BY <1>6, <2>3, <2>4 DEF DaemonLostDB
<1>7. CASE Crash(m)
  <2> DEFINE mine == {k \in Jobs : job[k].machine = m}
  <2>1. /\ at' = [at EXCEPT ![m] = "down"] /\ cur' = [cur EXCEPT ![m] = None]
        /\ locks' = locks /\ sig' = sig \ mine /\ children' = children \ mine
        /\ Abandon(mine)
    BY <1>7 DEF Crash
  <2>2. /\ \A k \in Jobs : k \notin mine => pc'[k] = pc[k] /\ job'[k] = job[k]
        /\ \A k \in mine : k \in locks => pc'[k] = "orphan" /\ job'[k] = job[k]
        /\ \A k \in mine : k \notin locks => pc'[k] = "free" /\ job'[k] = NoRow
    BY <2>1 DEF Abandon
  <2>3. OthersAlone(m)
    <3>1. \A n \in Machines : n # m => at'[n] = at[n] /\ cur'[n] = cur[n]
      BY <2>1 DEF TypeInv, TypeOK
    <3>2. ASSUME NEW k \in Jobs, k \notin mine PROVE Same(k)
      BY <2>1, <2>2, <3>2 DEF Same
    <3>3. ASSUME NEW k \in Jobs, k \in mine PROVE job'[k].machine \in {m, None}
      BY <2>2, <3>3
    <3>4. QED
      BY <3>1, <3>2, <3>3 DEF OthersAlone
  <2>4. ASSUME NEW k \in Jobs, job'[k].machine \in {m, None} PROVE JobOK(k)'
    <3>1. CASE k \in mine
      BY <2>1, <2>2, <3>1 DEF JobOK, Told
    <3>2. CASE k \notin mine
      <4>1. pc[k] \in Alive \cup Dead \cup {"new"} => job[k].machine \notin {m, None}
        BY <3>2, Constants DEF TypeInv, TypeOK, RefsOK
      <4>2. pc'[k] = pc[k] /\ job'[k] = job[k]
        BY <2>2, <3>2
      <4>3. pc[k] \notin Alive \cup Dead \cup {"new"} /\ ~Told(k)
        BY <1>0, <2>4, <4>1, <4>2 DEF JobOK
      <4>4. QED
        BY <1>0, <2>1, <4>2, <4>3 DEF JobOK, Told
    <3>3. QED
      BY <3>1, <3>2
  <2>5. ChildrenOf(m)' = {}
    BY <2>1, <2>2 DEF ChildrenOf, TypeInv, TypeOK
  <2>6. StopOK(m)'
    BY <2>1, <2>5 DEF StopOK, TypeInv, TypeOK
  <2>7. JobsOK' /\ NoneLeft'
    BY <2>3, <2>4, <2>6, OthersStop
  <2>8. UniqueRows' /\ OneAlive'
    <3>1. \A k \in locks' \cup children' :
            job'[k] = job[k] /\ (pc'[k] \in Alive => pc[k] \in Alive)
      BY <2>1, <2>2 DEF TypeInv, TypeOK
    <3>2. QED
      BY <2>1, <3>1, FewerStay
  <2>9. IsFiniteSet(children')
    BY <2>1, FS_Subset
  <2>10. QED
    BY <2>7, <2>8, <2>9
<1>8. QED
  BY <1>1, <1>2, <1>3, <1>4, <1>5, <1>6, <1>7 DEF DaemonFault

LEMMA StopInvStep == OneWorker /\ StopInv /\ [Next]_vars => StopInv'
<1> SUFFICES ASSUME OneWorker, StopInv, [Next]_vars PROVE StopInv'
  OBVIOUS
<1>1. TypeInv'
  BY TypeInvStep DEF StopInv
<1>2. CASE UNCHANGED <<locks, workers, daemons>>
  BY <1>1, <1>2 DEF StopInv, StopParts, workers, daemons, JobsOK, JobOK, Told, UniqueRows,
                    OneAlive, NoneLeft, StopOK, ChildrenOf, LiveChildren
<1>3. ASSUME NEW m \in Machines, MainStep(m) \/ KillStep(m) \/ DaemonFault(m)
      PROVE  StopInv'
  BY <1>1, <1>3, MainStopInv, KillStopInv, FaultStopInv DEF StopInv
<1>4. ASSUME NEW j \in Jobs, WorkStep(j) \/ SignalStep(j) \/ WorkerFault(j)
      PROVE  StopInv'
  BY <1>1, <1>4, WorkerStopInv DEF StopInv
<1>5. ASSUME NEW j \in Jobs, DeleteLock(j) PROVE FALSE
  BY <1>5 DEF DeleteLock, OneWorker
<1>6. CASE UNCHANGED vars \/ ResetPortStatus \/ \E p \in Ports : ResetPort(p)
  BY <1>2, <1>6 DEF vars, db, workers, daemons, ResetPortStatus, ResetPort
<1>7. QED
  BY <1>3, <1>4, <1>5, <1>6 DEF Next, FaultStep

LEMMA StopInvInit == Init => StopInv
<1> SUFFICES ASSUME Init PROVE StopInv
  OBVIOUS
<1>1. TypeInv
  BY TypeInvInit
<1>2. JobsOK
  BY DEF Init, JobsOK, JobOK, Told
<1>3. UniqueRows /\ OneAlive /\ NoneLeft /\ IsFiniteSet(children)
  BY FS_EmptySet DEF Init, UniqueRows, OneAlive, NoneLeft, StopOK
<1>4. QED
  BY <1>1, <1>2, <1>3 DEF StopInv, StopParts

LEMMA StopInvShows == StopInv => ChildrenExclude /\ ToldAreDead
<1> SUFFICES ASSUME StopInv PROVE ChildrenExclude /\ ToldAreDead
  OBVIOUS
<1> USE DEF StopInv, StopParts
<1>1. \A j \in Jobs : JobOK(j)
  BY DEF JobsOK
<1>2. ChildrenExclude
  BY <1>1 DEF ChildrenExclude, JobOK, UniqueRows, TypeInv, TypeOK
<1>3. ToldAreDead
  BY <1>1 DEF ToldAreDead, JobOK, Told
<1>4. QED
  BY <1>2, <1>3

(* With one worker per machine, whoever kill_children has told to stop is   *)
(* dead when the locks are swept, at whatever point of main, start_child,   *)
(* process_dead_children or of a worker the signal comes (magus.pl:373),    *)
(* between a fork and its record included.  The worker forked and not       *)
(* recorded by then is nobody's child, is not told, and may be alive.      *)
THEOREM KidsAreDead == ASSUME OneWorker PROVE Spec => []ToldAreDead
<1>1. Init => StopInv
  BY StopInvInit
<1>2. StopInv /\ [Next]_vars => StopInv'
  BY StopInvStep
<1>3. StopInv => ToldAreDead
  BY StopInvShows
<1>4. QED
  BY <1>1, <1>2, <1>3, PTL DEF Spec

(* With one worker per machine the lock table keeps apart the workers that  *)
(* have a daemon, on all machines, however often daemons are stopped and    *)
(* machines fail, and whatever strays and orphaned rows they leave.        *)
THEOREM WorkersExcludeStopped == ASSUME OneWorker PROVE Spec => []ChildrenExclude
<1>1. Init => StopInv
  BY StopInvInit
<1>2. StopInv /\ [Next]_vars => StopInv'
  BY StopInvStep
<1>3. StopInv => ChildrenExclude
  BY StopInvShows
<1>4. QED
  BY <1>1, <1>2, <1>3, PTL DEF Spec
=============================================================================
