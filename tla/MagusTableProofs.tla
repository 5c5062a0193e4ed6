---------------------------- MODULE MagusTableProofs ----------------------------
(***************************************************************************)
(* What the tables say of a run: that the rows of one port agree, that a   *)
(* port found ready is ready, and that what it needs can be installed.     *)
(***************************************************************************)
EXTENDS MagusDependProofs

USE DEF Phase, Passed, Status, Making, Busy, Stopping, Alive, Dead, WorkerPC,
        Claiming, Asleep, Reaping, Killing, Sweeping, DaemonPC, Row, NoRow

(* A worker writes its own phase row and, for a build, ports.status of its  *)
(* port, and leaves the verdicts of the others alone.                      *)
OwnWrites(j) ==
  /\ \A p \in Ports, ph \in Phase :
       p # Port(j) \/ ph # PhaseOf(j) => phase'[p][ph] = phase[p][ph]
  /\ \A p \in Ports : p # Port(j) \/ PhaseOf(j) # "build" => status'[p] = status[p]
  /\ \A k \in Jobs : k # j => verdict'[k] = verdict[k]

(* What the inner child, the worker and its handler write to which row:     *)
(* set_status of Magus::PhaseResult.                                       *)
LEMMA PhaseSet ==
  ASSUME TypeOK, NEW p \in Ports, NEW ph \in Phase, NEW s, SetPhase(p, ph, s)
  PROVE  /\ phase'[p][ph] = s
         /\ \A q \in Ports, qh \in Phase :
              q # p \/ qh # ph => phase'[q][qh] = phase[q][qh]
  BY DEF TypeOK, SetPhase

LEMMA StatusSet ==
  ASSUME TypeOK, NEW p \in Ports, NEW s, SetStatus(p, s)
  PROVE  /\ status'[p] = s
         /\ \A q \in Ports : q # p => status'[q] = status[q]
  BY DEF TypeOK, SetStatus

LEMMA WorkerOwnWrites ==
  ASSUME TypeInv, NeverTold, OwnRow, NEW j \in Jobs,
         WorkStep(j) \/ SignalStep(j) \/ WorkerFault(j)
  PROVE  OwnWrites(j)
<1>1. TypeOK /\ pc[j] \in Alive /\ Port(j) \in Ports /\ PhaseOf(j) \in Phase
  BY WorkerFrameHolds DEF TypeInv, TypeOK, RefsOK, WorkerFrame, Port, PhaseOf
<1> USE DEF WStep, ClearVerdict, OwnWrites, db
<1>2. CASE Start(j)
  BY <1>1, <1>2, PhaseSet DEF Start
<1>3. CASE PrepChroot(j) \/ Inject(j) \/ AfterMake(j) \/ UploadPkgfile(j)
           \/ UploadDistfiles(j) \/ Throw(j) \/ Done(j) \/ LostDB(j) \/ Killed(j)
  <2>1. UNCHANGED <<phase, status, verdict>>
    BY <1>3 DEF PrepChroot, Inject, AfterMake, UploadPkgfile, UploadDistfiles, Throw,
                Done, LostDB, Killed
  <2>2. QED
    BY <2>1
<1>4. CASE RecordPhase(j)
  <2>1. /\ PhaseOf(j) = "build" /\ SetPhase(Port(j), "build", verdict[j])
        /\ verdict' = [verdict EXCEPT ![j] = None] /\ UNCHANGED status
    BY <1>4 DEF RecordPhase, OwnRow, PhaseOf
  <2>2. QED
    BY <1>1, <2>1, PhaseSet DEF TypeOK
<1>5. ASSUME NEW r \in Verdicts \cup {"internal"}, InsertResults(j, r)
      PROVE  OwnWrites(j)
  <2>1. CASE PhaseOf(j) = "build"
    <3>1. /\ SetStatus(Port(j), r) /\ verdict' = [verdict EXCEPT ![j] = r]
          /\ UNCHANGED phase
      BY <1>5, <2>1 DEF InsertResults
    <3>2. QED
      BY <1>1, <2>1, <3>1, StatusSet DEF TypeOK
  <2>2. CASE PhaseOf(j) # "build"
    <3>1. SetPhase(Port(j), PhaseOf(j), r) /\ UNCHANGED <<status, verdict>>
      BY <1>5, <2>2 DEF InsertResults
    <3>2. QED
      BY <1>1, <3>1, PhaseSet
  <2>3. QED
    BY <2>1, <2>2
<1>6. ASSUME NEW r \in {"pass", "warn", "fail", "internal"}, RunScan(j, r)
      PROVE  OwnWrites(j)
  <2>1. /\ PhaseOf(j) = "scan" /\ SetPhase(Port(j), "scan", r)
        /\ UNCHANGED <<status, verdict>>
    BY <1>6 DEF RunScan, OwnRow, PhaseOf
  <2>2. QED
    BY <1>1, <2>1, PhaseSet
<1>7. CASE InnerLostDB(j) \/ InnerKilled(j)
  <2>1. UNCHANGED <<phase, status>> /\ verdict' = [verdict EXCEPT ![j] = None]
    BY <1>7 DEF InnerLostDB, InnerKilled
  <2>2. QED
    BY <1>1, <2>1 DEF TypeOK
<1>8. CASE SetInternal(j)
  <2>1. CASE PhaseOf(j) = "build"
    <3>1. SetStatus(Port(j), "internal") /\ UNCHANGED <<phase, verdict>>
      BY <1>8, <2>1 DEF SetInternal
    <3>2. QED
      BY <1>1, <2>1, <3>1, StatusSet
  <2>2. CASE PhaseOf(j) # "build"
    <3>1. SetPhase(Port(j), PhaseOf(j), "internal") /\ UNCHANGED <<status, verdict>>
      BY <1>8, <2>2 DEF SetInternal
    <3>2. QED
      BY <1>1, <3>1, PhaseSet
  <2>3. QED
    BY <2>1, <2>2
<1>9. CASE RecordInternal(j)
  <2>1. /\ PhaseOf(j) = "build" /\ SetPhase(Port(j), "build", "internal")
        /\ UNCHANGED <<status, verdict>>
    BY <1>9 DEF RecordInternal, OwnRow, PhaseOf
  <2>2. QED
    BY <1>1, <2>1, PhaseSet
<1>10. ~SignalStep(j)
  BY DEF SignalStep, Interrupt, InterruptReset, InterruptStatus, NeverTold
<1>11. QED
  BY <1>2, <1>3, <1>4, <1>5, <1>6, <1>7, <1>8, <1>9, <1>10
     DEF WorkStep, WorkerFault

(* Which steps of a worker lead to the points where it writes a row. *)
LEMMA WorkerOwnRow ==
  ASSUME LockInv, OwnRow, NEW j \in Jobs,
         WorkStep(j) \/ SignalStep(j) \/ WorkerFault(j)
  PROVE  OwnRow'
<1>1. TypeInv /\ WorkerFrame(j) /\ TypeOK
  BY WorkerFrameHolds DEF LockInv, TypeInv
<1>2. /\ \A k \in Jobs : k # j => pc'[k] = pc[k] /\ job'[k] = job[k]
      /\ pc'[j] # "free" => job'[j] = job[j]
  BY <1>1 DEF WorkerFrame
<1> USE DEF WStep, Go
<1>3. /\ pc'[j] \in {"record", "exceptRecord"} => job[j].phase = "build"
      /\ pc'[j] = "scan" => job[j].phase = "scan"
  <2>1. CASE Start(j) \/ PrepChroot(j) \/ Inject(j)
    BY <1>1, <2>1 DEF Start, PrepChroot, Inject, TypeOK, PhaseOf
  <2>2. CASE RecordPhase(j) \/ AfterMake(j) \/ UploadPkgfile(j) \/ UploadDistfiles(j)
    BY <1>1, <2>2 DEF RecordPhase, AfterMake, UploadPkgfile, UploadDistfiles, TypeOK
  <2>3. CASE InnerLostDB(j) \/ InnerKilled(j) \/ Throw(j)
    BY <1>1, <2>3 DEF InnerLostDB, InnerKilled, Throw, TypeOK
  <2>4. CASE Done(j) \/ LostDB(j) \/ Killed(j) \/ RecordInternal(j)
    BY <1>1, <2>4, ExitEffect DEF Done, LostDB, Killed, RecordInternal
  <2>5. CASE SetInternal(j)
    BY <1>1, <2>5, ExitEffect DEF SetInternal, PhaseOf, TypeOK
  <2>6. CASE \E r \in Verdicts \cup {"internal"} : InsertResults(j, r)
    BY <1>1, <2>6 DEF InsertResults, PhaseOf, TypeOK
  <2>7. CASE \E r \in {"pass", "warn", "fail", "internal"} : RunScan(j, r)
    BY <1>1, <2>7 DEF RunScan, TypeOK
  <2>8. ~SignalStep(j)
    BY DEF SignalStep, Interrupt, InterruptReset, InterruptStatus, LockInv, NeverTold
  <2>9. QED
    BY <2>1, <2>2, <2>3, <2>4, <2>5, <2>6, <2>7, <2>8 DEF WorkStep, WorkerFault
<1>4. QED
  BY <1>2, <1>3 DEF OwnRow

(* A daemon starts workers, buries them and loses them; it does not move    *)
(* one that is at work.                                                    *)
LEMMA DaemonKeepsWorkers ==
  ASSUME LocksRespected, LockInv, NEW m \in Machines,
         MainStep(m) \/ KillStep(m) \/ DaemonFault(m)
  PROVE  /\ pkg' = pkg
         /\ \A k \in Jobs : pc'[k] \in (Alive \cup Dead) \ {"start"}
                              => pc'[k] = pc[k] /\ job'[k] = job[k]
<1> USE DEF LockInv, TypeInv, TypeOK, CurOK, db, workers, daemons, Step, Go
<1>1. CASE QuietStep(m)
  <2>1. CASE UNCHANGED <<pkg, pc, job>>
    BY <2>1
  <2>2. CASE Fork(m)
    BY <2>2 DEF Fork
  <2>3. CASE NoWorkerIds(m) \/ ForkFail(m)
    BY <2>3 DEF NoWorkerIds, ForkFail, LoseLock, Abandon
  <2>4. CASE Crash(m)
    BY <2>4 DEF Crash, Abandon
  <2>5. CASE Unlock(m)
    BY <2>5 DEF Unlock, Forget
  <2>6. QED
    BY <1>1, <2>1, <2>2, <2>3, <2>4, <2>5
       DEF QuietStep, IdleStep, MainTop, Nap, Sleep, Wake, WakeLate, Oversleep, Record,
           InsertDuplicate, Restart, DaemonLostDB, ProcessReset, ProcessResetStatus,
           Process
<1>2. CASE Select(m)
  BY <1>2 DEF Select
<1>3. ASSUME NEW j \in Jobs, InsertLock(m, j) \/ DaemonLostInsert(m, j)
      PROVE  /\ pkg' = pkg
             /\ \A k \in Jobs : pc'[k] \in (Alive \cup Dead) \ {"start"}
                                  => pc'[k] = pc[k] /\ job'[k] = job[k]
  BY <1>3 DEF InsertLock, DaemonLostInsert, InsertRow
<1>4. ~KillStep(m)
  BY DEF NeverTold, KillStep, Signal, KillWait, WaitForever, SweepNext, SweepReset,
         SweepStatus, SweepUnlock, SweepDone
<1>5. ~Term(m)
  BY DEF Term, LocksRespected
<1>6. QED
  BY <1>1, <1>2, <1>3, <1>4, <1>5 DEF MainStep, DaemonFault, QuietStep, IdleStep

LEMMA OwnRowStep ==
  ASSUME LocksRespected, LockInv, OwnRow, [Next]_vars
  PROVE  OwnRow'
<1>1. CASE UNCHANGED <<workers>>
  BY <1>1 DEF OwnRow, workers
<1>2. ASSUME NEW m \in Machines, MainStep(m) \/ KillStep(m) \/ DaemonFault(m)
      PROVE  OwnRow'
  BY <1>2, DaemonKeepsWorkers DEF OwnRow
<1>3. ASSUME NEW j \in Jobs, WorkStep(j) \/ SignalStep(j) \/ WorkerFault(j)
      PROVE  OwnRow'
  BY <1>3, WorkerOwnRow
<1>4. CASE (\E p \in Ports : ResetPort(p)) \/ ResetPortStatus
  BY <1>1, <1>4 DEF ResetPort, ResetPortStatus
<1>5. CASE \E j \in Jobs : DeleteLock(j)
  BY <1>5 DEF DeleteLock, LocksRespected
<1>6. CASE UNCHANGED vars
  BY <1>1, <1>6 DEF vars
<1>7. QED
  BY <1>2, <1>3, <1>4, <1>5, <1>6 DEF Next, FaultStep
-----------------------------------------------------------------------------
(* A phase that is running has a worker. *)

LEMMA NoneLostStep ==
  ASSUME StatementsHold, LockInv, NoneLost, [Next]_vars
  PROVE  NoneLost'
<1>1. TypeInv /\ TypeOK /\ NeverTold /\ at \in [Machines -> DaemonPC]
  BY DEF LockInv, TypeInv, TypeOK
<1>2. CASE UNCHANGED <<pc, at>>
  BY <1>2 DEF NoneLost
<1>3. ASSUME NEW m \in Machines, MainStep(m) \/ KillStep(m) \/ DaemonFault(m)
      PROVE  NoneLost'
  <2>1. \A k \in Jobs : pc'[k] # "dead6"
    BY <1>3, DaemonKeepsWorkers DEF NoneLost, StatementsHold
  <2>2. ~KillStep(m)
    BY <1>1 DEF NeverTold, KillStep, Signal, KillWait, WaitForever, SweepNext,
                SweepReset, SweepStatus, SweepUnlock, SweepDone, Step
  <2>3. \A j \in Jobs : Process(m, j) => at' = [at EXCEPT ![m] = "unlock"]
    BY DEF Process, Step, NoneLost
  <2>4. \A n \in Machines : at'[n] \notin {"reset", "resetStatus"}
    BY <1>1, <1>3, <2>2, <2>3
       DEF MainStep, DaemonFault, IdleStep, MainTop, Nap, Sleep, Wake, WakeLate,
           Oversleep, Record, Select, InsertLock, InsertDuplicate, Restart, Fork,
           NoWorkerIds, ForkFail, LoseLock, DaemonLostDB, DaemonLostInsert, Crash, Term,
           ProcessReset, ProcessResetStatus, Unlock, Step, NoneLost
  <2>5. QED
    BY <2>1, <2>4 DEF NoneLost
<1>4. ASSUME NEW j \in Jobs, WorkStep(j) \/ SignalStep(j) \/ WorkerFault(j)
      PROVE  NoneLost'
  <2>1. WorkerFrame(j)
    BY <1>1, <1>4, WorkerFrameHolds
  <2>2. at' = at /\ \A k \in Jobs : k # j => pc'[k] = pc[k]
    BY <2>1 DEF WorkerFrame, daemons
  <2>3. CASE Done(j) \/ SetInternal(j) \/ RecordInternal(j)
    <3>1. pc'[j] \in {"dead0", "orphan", "free", "exceptRecord"}
      BY <1>1, <2>3, ExitEffect DEF Done, SetInternal, RecordInternal, WStep, Go, TypeOK
    <3>2. QED
      BY <2>2, <3>1 DEF NoneLost
  <2>4. CASE ~(Done(j) \/ SetInternal(j) \/ RecordInternal(j))
    <3>1. ~SignalStep(j)
      BY <1>1 DEF SignalStep, Interrupt, InterruptReset, InterruptStatus, NeverTold,
                  WStep
    <3>2. ~(InnerLostDB(j) \/ InnerKilled(j) \/ LostDB(j) \/ Killed(j))
      BY DEF InnerLostDB, InnerKilled, LostDB, Killed, StatementsHold
    <3>3. \E to \in WorkerPC \ Dead : pc' = [pc EXCEPT ![j] = to]
      BY <1>4, <2>4, <3>1, <3>2
         DEF WorkStep, WorkerFault, Start, PrepChroot, Inject, RecordPhase, AfterMake,
             UploadPkgfile, UploadDistfiles, InsertResults, RunScan, Throw, WStep, Go
    <3>4. QED
      BY <1>1, <2>2, <3>3 DEF NoneLost, TypeOK
  <2>5. QED
    BY <2>3, <2>4
<1>5. CASE (\E p \in Ports : ResetPort(p)) \/ ResetPortStatus
  BY <1>2, <1>5 DEF ResetPort, ResetPortStatus, workers, daemons
<1>6. ~(\E j \in Jobs : DeleteLock(j))
  BY DEF DeleteLock, StatementsHold, LocksRespected
<1>7. CASE UNCHANGED vars
  BY <1>2, <1>7 DEF vars, workers, daemons
<1>8. QED
  BY <1>3, <1>4, <1>5, <1>6, <1>7 DEF Next, FaultStep

(* A worker that gets past its last write has written something else than   *)
(* 'running' to its row.                                                   *)
LEMMA WorkerSettles ==
  ASSUME StatementsHold, LockInv, OwnRow, NEW j \in Jobs,
         WorkStep(j) \/ SignalStep(j) \/ WorkerFault(j),
         pc[j] \notin Written, pc'[j] \in Written, PhaseOf(j) # "build"
  PROVE  phase'[Port(j)][PhaseOf(j)] # "running"
<1>1. TypeOK /\ NeverTold /\ Port(j) \in Ports /\ PhaseOf(j) \in Phase
  BY WorkerFrameHolds DEF LockInv, TypeInv, TypeOK, RefsOK, WorkerFrame, Port, PhaseOf
<1> USE DEF WStep, Go, Written
<1>2. ASSUME NEW r \in Verdicts \cup {"internal"}, InsertResults(j, r)
      PROVE  phase'[Port(j)][PhaseOf(j)] = r
  BY <1>1, <1>2, PhaseSet DEF InsertResults
<1>3. ASSUME NEW r \in {"pass", "warn", "fail", "internal"}, RunScan(j, r)
      PROVE  phase'[Port(j)][PhaseOf(j)] = r
  BY <1>1, <1>3, PhaseSet DEF RunScan, OwnRow, PhaseOf
<1>4. CASE SetInternal(j)
  BY <1>1, <1>4, PhaseSet DEF SetInternal
<1>5. ~(RecordPhase(j) \/ RecordInternal(j))
  BY DEF RecordPhase, RecordInternal, OwnRow, PhaseOf
<1>6. ~(Start(j) \/ PrepChroot(j) \/ Inject(j) \/ Throw(j))
  BY <1>1 DEF Start, PrepChroot, Inject, Throw, TypeOK
<1>7. ~(AfterMake(j) \/ UploadPkgfile(j) \/ UploadDistfiles(j) \/ Done(j))
  BY DEF AfterMake, UploadPkgfile, UploadDistfiles, Done
<1>8. ~SignalStep(j)
  BY <1>1 DEF SignalStep, Interrupt, InterruptReset, InterruptStatus, NeverTold
<1>9. ~(InnerLostDB(j) \/ InnerKilled(j) \/ LostDB(j) \/ Killed(j))
  BY DEF InnerLostDB, InnerKilled, LostDB, Killed, StatementsHold
<1>10. "running" \notin Verdicts \cup {"internal"}
  BY MagusAssumption
<1>11. QED
  BY <1>2, <1>3, <1>4, <1>5, <1>6, <1>7, <1>8, <1>9, <1>10 DEF WorkStep, WorkerFault

LEMMA WorkerRunningOwed ==
  ASSUME StatementsHold, RunningInv, NEW j \in Jobs,
         WorkStep(j) \/ SignalStep(j) \/ WorkerFault(j)
  PROVE  RunningOwed'
<1>1. LockInv /\ OwnRow /\ TypeInv /\ NeverTold /\ WorkerFrame(j) /\ OwnWrites(j)
  BY WorkerFrameHolds, WorkerOwnWrites DEF RunningInv, LockInv
<1>2. /\ j \in locks /\ locks' = locks /\ locks \subseteq Jobs
      /\ \A k \in Jobs : job'[k] = job[k]
      /\ \A k \in Jobs : k # j => pc'[k] = pc[k]
      /\ Port(j) \in Ports /\ PhaseOf(j) \in Phase
  BY <1>1 DEF LockInv, RowsKept, TypeInv, TypeOK, RefsOK, WorkerFrame, Port, PhaseOf
<1> SUFFICES ASSUME NEW p \in Ports, NEW ph \in Phase \ {"build"}, phase'[p][ph] = "running"
             PROVE  \E k \in locks : job[k].port = p /\ job[k].phase = ph /\ pc'[k] \notin Written
  BY <1>2 DEF RunningOwed
<1>3. CASE p = Port(j) /\ ph = PhaseOf(j)
  <2>1. CASE pc'[j] \notin Written
    BY <1>2, <1>3, <2>1 DEF Port, PhaseOf
  <2>2. CASE pc'[j] \in Written
    <3>1. pc[j] \in Written
      BY <1>1, <1>3, <2>2, WorkerSettles
    <3>2. UNCHANGED phase
      <4>1. AfterMake(j) \/ UploadPkgfile(j) \/ UploadDistfiles(j) \/ Done(j) \/ Throw(j)
        BY <1>1, <3>1
           DEF WorkStep, SignalStep, WorkerFault, Written, WStep, Start, PrepChroot,
               Inject, RecordPhase, InsertResults, RunScan, SetInternal, RecordInternal,
               Interrupt, InterruptReset, InterruptStatus, NeverTold, InnerLostDB,
               InnerKilled, LostDB, Killed, StatementsHold
      <4>2. QED
        BY <4>1 DEF AfterMake, UploadPkgfile, UploadDistfiles, Done, Throw, db
    <3>3. PICK k \in locks : job[k].port = p /\ job[k].phase = ph /\ pc[k] \notin Written
      BY <3>2 DEF RunningInv, RunningOwed
    <3>4. k # j
      BY <3>1, <3>3
    <3>5. QED
      BY <1>2, <3>3, <3>4
  <2>3. QED
    BY <2>1, <2>2
<1>4. CASE p # Port(j) \/ ph # PhaseOf(j)
  <2>1. phase[p][ph] = "running"
    BY <1>1, <1>4 DEF OwnWrites
  <2>2. PICK k \in locks : job[k].port = p /\ job[k].phase = ph /\ pc[k] \notin Written
    BY <2>1 DEF RunningInv, RunningOwed
  <2>3. k # j
    BY <1>4, <2>2 DEF Port, PhaseOf
  <2>4. QED
    BY <1>2, <2>2, <2>3
<1>5. QED
  BY <1>3, <1>4

(* The daemon leaves the rows of its workers alone and deletes the locks of *)
(* those only that are through.                                            *)
LEMMA DaemonRunningOwed ==
  ASSUME StatementsHold, RunningInv, NEW m \in Machines,
         MainStep(m) \/ KillStep(m) \/ DaemonFault(m)
  PROVE  RunningOwed'
<1>1. ASSUME phase' = phase,
             \A k \in locks : pc[k] \notin Written
                => k \in locks' /\ job'[k] = job[k] /\ pc'[k] \notin Written
      PROVE  RunningOwed'
  <2>1. SUFFICES ASSUME NEW p \in Ports, NEW ph \in Phase \ {"build"},
                        phase[p][ph] = "running"
                 PROVE  \E k \in locks' : /\ job'[k].port = p /\ job'[k].phase = ph
                                          /\ pc'[k] \notin Written
    BY <1>1 DEF RunningOwed
  <2>2. PICK k \in locks : job[k].port = p /\ job[k].phase = ph /\ pc[k] \notin Written
    BY <2>1 DEF RunningInv, RunningOwed
  <2>3. QED
    BY <1>1, <2>2
<1> USE DEF RunningInv, LockInv, TypeInv, TypeOK, CurOK, RowsKept, db, workers, daemons, Step, Go
<1>2. CASE IdleStep(m) \/ Select(m) \/ Record(m) \/ InsertDuplicate(m) \/ Restart(m)
  BY <1>1, <1>2 DEF IdleStep, MainTop, Nap, Sleep, Wake, WakeLate, Oversleep, Record,
                    Select, InsertDuplicate, Restart
<1>3. CASE Fork(m)
  <2>1. /\ UNCHANGED <<phase, locks, job>> /\ pc' = [pc EXCEPT ![cur[m]] = "start"]
    BY <1>3 DEF Fork
  <2>2. QED
    BY <1>1, <2>1 DEF Written
<1>4. CASE NoWorkerIds(m) \/ ForkFail(m) \/ Crash(m)
  <2>1. UNCHANGED <<phase, locks>> /\ \E js \in SUBSET Jobs : Abandon(js)
    BY <1>4 DEF NoWorkerIds, ForkFail, LoseLock, Crash
  <2>2. \A k \in locks : job'[k] = job[k] /\ pc'[k] \in {pc[k], "orphan"}
    BY <2>1 DEF Abandon
  <2>3. QED
    BY <1>1, <2>1, <2>2 DEF Written
<1>5. CASE Unlock(m)
  <2>1. /\ at[m] = "unlock" /\ cur[m] \in Jobs /\ pc[cur[m]] = "dead0"
        /\ locks' = locks \ {cur[m]} /\ phase' = phase /\ Forget({cur[m]})
    BY <1>5 DEF Unlock, NoneLost
  <2>2. \A k \in Jobs : k # cur[m] => pc'[k] = pc[k] /\ job'[k] = job[k]
    BY <2>1 DEF Forget
  <2>3. QED
    BY <1>1, <2>1, <2>2 DEF Written
<1>6. ASSUME NEW j \in Jobs, InsertLock(m, j) PROVE RunningOwed'
  <2>1. /\ j \notin locks /\ locks' = locks \cup {j} /\ phase' = phase
        /\ \A k \in Jobs : k # j => pc'[k] = pc[k] /\ job'[k] = job[k]
    BY <1>6 DEF InsertLock, InsertRow
  <2>2. QED
    BY <1>1, <2>1
<1>7. ASSUME NEW j \in Jobs, Process(m, j) PROVE RunningOwed'
  BY <1>1, <1>7 DEF Process, NoneLost
<1>8. ~KillStep(m)
  BY DEF NeverTold, KillStep, Signal, KillWait, WaitForever, SweepNext, SweepReset,
         SweepStatus, SweepUnlock, SweepDone
<1>9. ~ProcessReset(m) /\ ~ProcessResetStatus(m)
  BY DEF ProcessReset, ProcessResetStatus, NoneLost
<1>10. ~Term(m) /\ ~DaemonLostDB(m) /\ \A j \in Jobs : ~DaemonLostInsert(m, j)
  BY DEF Term, DaemonLostDB, DaemonLostInsert, StatementsHold, LocksRespected
<1>11. QED
  BY <1>2, <1>3, <1>4, <1>5, <1>6, <1>7, <1>8, <1>9, <1>10 DEF MainStep, DaemonFault, IdleStep

LEMMA RunningInvStep ==
  ASSUME StatementsHold
  PROVE  RunningInv /\ [Next]_vars => RunningInv'
<1> SUFFICES ASSUME RunningInv, [Next]_vars PROVE RunningInv'
  OBVIOUS
<1>1. LockInv' /\ OwnRow' /\ NoneLost'
  BY LockInvStep, OwnRowStep, NoneLostStep DEF RunningInv, StatementsHold
<1>2. RunningOwed'
  <2>1. CASE UNCHANGED vars \/ ResetPortStatus
    BY <2>1 DEF RunningInv, RunningOwed, ResetPortStatus, vars, db, workers
  <2>2. ASSUME NEW m \in Machines, MainStep(m) \/ KillStep(m) \/ DaemonFault(m)
        PROVE  RunningOwed'
    BY <2>2, DaemonRunningOwed
  <2>3. ASSUME NEW j \in Jobs, WorkStep(j) \/ SignalStep(j) \/ WorkerFault(j)
        PROVE  RunningOwed'
    BY <2>3, WorkerRunningOwed
  <2>4. ASSUME NEW p \in Ports, ResetPort(p) PROVE RunningOwed'
    <3>1. ResetPhases(p) /\ UNCHANGED <<locks, job, pc>> /\ TypeOK
      BY <2>4 DEF ResetPort, workers, RunningInv, LockInv, TypeInv
    <3>2. \A q \in Ports, ph \in Phase : phase'[q][ph] = "running" => phase[q][ph] = "running"
      BY <3>1 DEF ResetPhases, TypeOK
    <3>3. QED
      BY <3>1, <3>2 DEF RunningInv, RunningOwed
  <2>5. ~(\E j \in Jobs : DeleteLock(j))
    BY DEF DeleteLock, StatementsHold, LocksRespected
  <2>6. QED
    BY <2>1, <2>2, <2>3, <2>4, <2>5 DEF Next, FaultStep
<1>3. QED
  BY <1>1, <1>2 DEF RunningInv

LEMMA RunningInvInit == Init => RunningInv
<1> SUFFICES ASSUME Init PROVE RunningInv
  OBVIOUS
<1>1. LockInv
  BY LockInvInit
<1>2. OwnRow /\ NoneLost
  BY DEF Init, OwnRow, NoneLost
<1>3. RunningOwed
  BY DEF Init, RunningOwed
<1>4. QED
  BY <1>1, <1>2, <1>3 DEF RunningInv

(* On any cluster whose workers can write their verdicts, whatever          *)
(* scanners, uploads, forks and machines fail and whoever resets ports by   *)
(* hand, no fetch, test or scan stays 'running' once its lock is gone.     *)
THEOREM RunningRowsLocked ==
  ASSUME StatementsHold
  PROVE  Spec => []RunningIsLocked
<1>1. RunningInv /\ [Next]_vars => RunningInv'
  BY RunningInvStep
<1>2. RunningInv => RunningIsLocked
  BY DEF RunningInv, RunningOwed, RunningIsLocked, Locked
<1>3. QED
  BY <1>1, <1>2, RunningInvInit, PTL DEF Spec
-----------------------------------------------------------------------------
(* The rows of a port agree. *)

(* A worker's own row: each way to the end of its job leaves ports.status   *)
(* and the phase row as the job owes them (insert_results, run).           *)
LEMMA WorkerRowOK ==
  ASSUME StatementsHold, RowsInv, NEW j \in Jobs, j \in locks,
         WorkStep(j) \/ SignalStep(j) \/ WorkerFault(j)
  PROVE  RowOK(j)'
<1>1. /\ TypeInv /\ TypeOK /\ RowOK(j) /\ OwnRow /\ NeverTold
      /\ pc[j] \in Alive /\ Port(j) \in Ports /\ PhaseOf(j) \in Phase
      /\ WorkerFrame(j)
  BY WorkerFrameHolds
     DEF RowsInv, LockInv, WritesAgree, TypeInv, TypeOK, RefsOK, WorkerFrame, Port,
         PhaseOf
<1>2. job'[j] = job[j] /\ pc'[j] # "free"
  BY <1>1 DEF WorkerFrame
<1> USE Constants DEF WStep, Go, RowOK, RowSettled, Written, Port, PhaseOf
<1>3. CASE Start(j) \/ PrepChroot(j) \/ Inject(j) \/ Throw(j)
  BY <1>1, <1>3 DEF Start, PrepChroot, Inject, Throw, TypeOK
<1>4. CASE RecordPhase(j)
  <2>1. /\ phase'[Port(j)]["build"] = verdict[j] /\ verdict[j] = status[Port(j)]
        /\ PhaseOf(j) = "build"
        /\ pc'[j] = "made" /\ UNCHANGED status
    BY <1>1, <1>4, PhaseSet DEF RecordPhase, TypeOK, OwnRow
  <2>2. QED
    BY <1>2, <2>1
<1>5. CASE AfterMake(j) \/ UploadPkgfile(j) \/ UploadDistfiles(j)
  <2>1. /\ pc[j] \in Written /\ pc'[j] \in Written \ {"dead0"} /\ UNCHANGED <<phase, status>>
    BY <1>1, <1>5 DEF AfterMake, UploadPkgfile, UploadDistfiles, TypeOK, db
  <2>2. QED
    BY <1>1, <1>2, <2>1
<1>6. CASE Done(j)
  <2>1. pc[j] = "done" /\ pc'[j] \in {"dead0", "orphan"} /\ UNCHANGED <<phase, status>>
    BY <1>1, <1>2, <1>6, ExitEffect DEF Done, db
  <2>2. QED
    BY <1>1, <1>2, <2>1
<1>7. ASSUME NEW r \in Verdicts \cup {"internal"}, InsertResults(j, r)
      PROVE  RowOK(j)'
  <2>1. CASE PhaseOf(j) = "build"
    <3>1. /\ SetStatus(Port(j), r) /\ verdict' = [verdict EXCEPT ![j] = r]
          /\ pc' = [pc EXCEPT ![j] = "record"]
      BY <1>7, <2>1 DEF InsertResults
    <3>2. status'[Port(j)] = r /\ verdict'[j] = r /\ pc'[j] = "record"
      BY <1>1, <3>1, StatusSet DEF TypeOK
    <3>3. QED
      BY <1>2, <3>2
  <2>2. CASE PhaseOf(j) # "build"
    <3>1. /\ SetPhase(Port(j), PhaseOf(j), r) /\ pc' = [pc EXCEPT ![j] = "made"]
      BY <1>7, <2>2 DEF InsertResults
    <3>2. phase'[Port(j)][PhaseOf(j)] = r
      BY <1>1, <3>1, PhaseSet
    <3>3. pc'[j] = "made" /\ r # "running"
      BY <1>1, <3>1 DEF TypeOK
    <3>4. QED
      BY <1>2, <2>2, <3>2, <3>3
  <2>3. QED
    BY <2>1, <2>2
<1>8. ASSUME NEW r \in {"pass", "warn", "fail", "internal"}, RunScan(j, r)
      PROVE  RowOK(j)'
  <2>1. PhaseOf(j) = "scan" /\ phase'[Port(j)]["scan"] = r /\ pc'[j] = "done"
    BY <1>1, <1>8, PhaseSet DEF RunScan, OwnRow, TypeOK
  <2>2. QED
    BY <1>2, <2>1
<1>9. CASE SetInternal(j)
  <2>1. CASE PhaseOf(j) = "build"
    <3>1. SetStatus(Port(j), "internal") /\ pc' = [pc EXCEPT ![j] = "exceptRecord"]
      BY <1>9, <2>1 DEF SetInternal
    <3>2. status'[Port(j)] = "internal" /\ pc'[j] = "exceptRecord"
      BY <1>1, <3>1, StatusSet DEF TypeOK
    <3>3. QED
      BY <1>2, <3>2
  <2>2. CASE PhaseOf(j) # "build"
    <3>1. SetPhase(Port(j), PhaseOf(j), "internal") /\ Exit(j, "dead0")
      BY <1>9, <2>2 DEF SetInternal
    <3>2. phase'[Port(j)][PhaseOf(j)] = "internal" /\ pc'[j] \in {"dead0", "orphan"}
      BY <1>1, <1>2, <3>1, PhaseSet, ExitEffect
    <3>3. QED
      BY <1>2, <2>2, <3>2
  <2>3. QED
    BY <2>1, <2>2
<1>10. CASE RecordInternal(j)
  <2>1. /\ SetPhase(Port(j), "build", "internal") /\ Exit(j, "dead0") /\ UNCHANGED status
        /\ PhaseOf(j) = "build" /\ status[Port(j)] = "internal"
    BY <1>1, <1>10 DEF RecordInternal, OwnRow
  <2>2. phase'[Port(j)]["build"] = "internal" /\ pc'[j] \in {"dead0", "orphan"}
    BY <1>1, <1>2, <2>1, PhaseSet, ExitEffect
  <2>3. QED
    BY <1>2, <2>1, <2>2
<1>11. ~SignalStep(j)
  BY <1>1 DEF SignalStep, Interrupt, InterruptReset, InterruptStatus, NeverTold
<1>12. ~(InnerLostDB(j) \/ InnerKilled(j) \/ LostDB(j) \/ Killed(j))
  BY DEF InnerLostDB, InnerKilled, LostDB, Killed, StatementsHold
<1>13. QED
  BY <1>3, <1>4, <1>5, <1>6, <1>7, <1>8, <1>9, <1>10, <1>11, <1>12 DEF WorkStep,
       WorkerFault

LEMMA WorkerRowsInv ==
  ASSUME StatementsHold, RowsInv, NEW j \in Jobs,
         WorkStep(j) \/ SignalStep(j) \/ WorkerFault(j)
  PROVE  WritesAgree' /\ BuildRowAgrees'
<1>1. TypeInv /\ WorkerFrame(j) /\ OwnWrites(j)
  BY WorkerFrameHolds, WorkerOwnWrites DEF RowsInv, LockInv
<1>2. /\ j \in locks /\ locks' = locks /\ locks \subseteq Jobs
      /\ \A k \in Jobs : job'[k] = job[k]
      /\ \A k \in Jobs : k # j => pc'[k] = pc[k]
      /\ \A k \in locks : (job[k].port \in Ports /\ job[k].phase \in Phase) \/ pc[k] = "orphan"
      /\ UNCHANGED <<at, admin>>
      /\ Port(j) \in Ports /\ PhaseOf(j) \in Phase
  BY <1>1 DEF RowsInv, LockInv, RowsKept, TypeInv, TypeOK, RefsOK, WorkerFrame, daemons,
              Port, PhaseOf
<1>3. RowOK(j)'
  BY <1>2, WorkerRowOK
<1>5. ASSUME NEW k \in locks, k # j PROVE RowOK(k)'
  <2>1. CASE pc[k] = "orphan"
    BY <1>2, <1>5, <2>1 DEF RowOK, Written
  <2>2. CASE pc[k] # "orphan"
    <3>1. job[k].port # Port(j) \/ job[k].phase # PhaseOf(j)
      BY <1>2, <1>5 DEF RowsInv, LockInv, UniqueRows, Port, PhaseOf
    <3>2. /\ phase'[job[k].port][job[k].phase] = phase[job[k].port][job[k].phase]
          /\ job[k].phase = "build" => status'[job[k].port] = status[job[k].port]
          /\ verdict'[k] = verdict[k]
      BY <1>1, <1>2, <1>5, <2>2, <3>1 DEF OwnWrites
    <3>3. RowOK(k) /\ (pc[k] \in {"record", "exceptRecord"} => job[k].phase = "build")
      BY <1>2 DEF RowsInv, WritesAgree, OwnRow
    <3>4. QED
      BY <1>2, <1>5, <3>2, <3>3 DEF RowOK, RowSettled
  <2>3. QED
    BY <2>1, <2>2
<1>6. WritesAgree'
  BY <1>2, <1>3, <1>5 DEF WritesAgree
<1>7. \A p \in Ports, ph \in Phase : Locked(p, ph)' <=> Locked(p, ph)
  BY <1>2 DEF Locked
<1>8. Locked(Port(j), PhaseOf(j))
  BY <1>2 DEF Locked, Port, PhaseOf
<1>9. BuildRowAgrees'
  <2> SUFFICES ASSUME NEW p \in Ports, ~Locked(p, "build")
               PROVE  phase'[p]["build"] = status'[p]
    BY <1>7 DEF BuildRowAgrees
  <2>1. p # Port(j) \/ PhaseOf(j) # "build"
    BY <1>8
  <2>2. phase'[p]["build"] = phase[p]["build"] /\ status'[p] = status[p]
    BY <1>1, <2>1 DEF OwnWrites
  <2>3. QED
    BY <2>2 DEF RowsInv, BuildRowAgrees
<1>10. QED
  BY <1>6, <1>9

(* A daemon that buries nobody leaves the rows of a port as they were. *)
LEMMA RowsUndisturbed ==
  ASSUME RowsInv, UNCHANGED <<status, phase>>, locks' \subseteq Jobs,
         locks \subseteq locks', \A k \in locks : job'[k] = job[k],
         \A k \in locks' : \/ pc'[k] \in {"new", "start", "orphan"}
                           \/ k \in locks /\ pc'[k] = pc[k] /\ verdict'[k] = verdict[k]
  PROVE  WritesAgree' /\ BuildRowAgrees'
<1>1. WritesAgree'
  BY DEF RowsInv, WritesAgree, RowOK, RowSettled, Written
<1>2. \A p \in Ports, ph \in Phase : Locked(p, ph) => Locked(p, ph)'
  BY DEF Locked
<1>3. BuildRowAgrees'
  BY <1>2 DEF RowsInv, BuildRowAgrees
<1>4. QED
  BY <1>1, <1>3

(* The lock of a dead worker is deleted when its rows agree. *)
LEMMA UnlockRowsInv ==
  ASSUME RowsInv, NEW m \in Machines, Unlock(m)
  PROVE  WritesAgree' /\ BuildRowAgrees'
<1>1. /\ at[m] = "unlock" /\ locks' = locks \ {cur[m]} /\ UNCHANGED <<status, phase, verdict>>
      /\ cur[m] \in Jobs /\ pc[cur[m]] = "dead0" /\ locks \subseteq Jobs
      /\ Forget({cur[m]})
  BY DEF Unlock, Step, RowsInv, LockInv, TypeInv, TypeOK, CurOK, NoneLost
<1>2. \A k \in Jobs : k # cur[m] => pc'[k] = pc[k] /\ job'[k] = job[k]
  BY <1>1 DEF Forget
<1>3. cur[m] \in locks => RowSettled(cur[m])
  BY <1>1 DEF RowsInv, WritesAgree, RowOK, Written
<1>4. WritesAgree'
  BY <1>1, <1>2 DEF RowsInv, WritesAgree, RowOK, RowSettled
<1>5. \A p \in Ports, ph \in Phase :
        Locked(p, ph) /\ ~Locked(p, ph)'
          => cur[m] \in locks /\ job[cur[m]].port = p /\ job[cur[m]].phase = ph
  BY <1>1, <1>2 DEF Locked
<1>6. BuildRowAgrees'
  BY <1>1, <1>3, <1>5 DEF RowsInv, BuildRowAgrees, RowSettled
<1>7. QED
  BY <1>4, <1>6

LEMMA DaemonRowsInv ==
  ASSUME StatementsHold, RowsInv, NEW m \in Machines,
         MainStep(m) \/ KillStep(m) \/ DaemonFault(m)
  PROVE  WritesAgree' /\ BuildRowAgrees'
<1> USE DEF RowsInv, LockInv, TypeInv, TypeOK, CurOK, RowsKept, db, workers, daemons, Step, Go
<1>1. CASE IdleStep(m) \/ Select(m) \/ Record(m) \/ InsertDuplicate(m) \/ Restart(m)
  <2>1. UNCHANGED <<status, phase, locks, workers>>
    BY <1>1 DEF IdleStep, MainTop, Nap, Sleep, Wake, WakeLate, Oversleep, Record,
                Select, InsertDuplicate, Restart
  <2>2. QED
    BY <2>1, RowsUndisturbed
<1>2. CASE Fork(m)
  <2>1. /\ UNCHANGED <<status, phase, locks, job, verdict>>
        /\ pc' = [pc EXCEPT ![cur[m]] = "start"]
    BY <1>2 DEF Fork
  <2>2. QED
    BY <2>1, RowsUndisturbed
<1>3. CASE NoWorkerIds(m) \/ ForkFail(m)
  <2>1. at[m] = "fork" /\ Abandon({cur[m]}) /\ UNCHANGED <<status, phase, locks, verdict>>
    BY <1>3 DEF NoWorkerIds, ForkFail, LoseLock
  <2>2. cur[m] \in locks /\ job' = job
    BY <2>1 DEF Abandon
  <2>3. \A k \in Jobs : pc'[k] = IF k = cur[m] THEN "orphan" ELSE pc[k]
    BY <2>1, <2>2 DEF Abandon
  <2>4. QED
    BY <2>1, <2>2, <2>3, RowsUndisturbed
<1>4. CASE Unlock(m)
  BY <1>4, UnlockRowsInv
<1>5. CASE Crash(m)
  <2>1. /\ UNCHANGED <<status, phase, locks>>
        /\ Abandon({k \in Jobs : job[k].machine = m})
        /\ verdict' = [k \in Jobs |-> IF k \in {i \in Jobs : job[i].machine = m}
                                      THEN None ELSE verdict[k]]
    BY <1>5 DEF Crash
  <2>2. \A k \in Jobs : \/ pc'[k] \in {"orphan", "free"} /\ (k \in locks => pc'[k] = "orphan")
                        \/ pc'[k] = pc[k] /\ verdict'[k] = verdict[k]
    BY <2>1 DEF Abandon
  <2>3. \A k \in locks : job'[k] = job[k]
    BY <2>1 DEF Abandon
  <2>4. QED
    BY <2>1, <2>2, <2>3, RowsUndisturbed
<1>6. ASSUME NEW j \in Jobs, InsertLock(m, j)
      PROVE  WritesAgree' /\ BuildRowAgrees'
  <2>1. /\ j \notin locks /\ locks' = locks \cup {j}
        /\ job' = [job EXCEPT ![j] = [port |-> cand[m][1], phase |-> cand[m][2],
                                      machine |-> m]]
        /\ pc' = [pc EXCEPT ![j] = "new"] /\ UNCHANGED <<status, phase, verdict>>
    BY <1>6 DEF InsertLock, InsertRow
  <2>2. QED
    BY <2>1, RowsUndisturbed
<1>7. ASSUME NEW j \in Jobs, Process(m, j)
      PROVE  WritesAgree' /\ BuildRowAgrees'
  <2>1. UNCHANGED <<status, phase, locks, workers>>
    BY <1>7 DEF Process, NoneLost
  <2>2. QED
    BY <2>1, RowsUndisturbed
<1>8. ~KillStep(m)
  BY DEF NeverTold, KillStep, Signal, KillWait, WaitForever, SweepNext, SweepReset,
         SweepStatus, SweepUnlock, SweepDone
<1>9. ~ProcessReset(m) /\ ~ProcessResetStatus(m)
  BY DEF ProcessReset, ProcessResetStatus, NoneLost
<1>10. ~Term(m) /\ ~DaemonLostDB(m) /\ \A j \in Jobs : ~DaemonLostInsert(m, j)
  BY DEF Term, DaemonLostDB, DaemonLostInsert, StatementsHold, LocksRespected
<1>11. QED
  BY <1>1, <1>2, <1>3, <1>4, <1>5, <1>6, <1>7, <1>8, <1>9, <1>10
     DEF MainStep, DaemonFault, IdleStep

LEMMA RowsInvStep ==
  ASSUME StatementsHold, PortsRespected
  PROVE  RowsInv /\ [Next]_vars => RowsInv'
<1> SUFFICES ASSUME RowsInv, [Next]_vars PROVE RowsInv'
  OBVIOUS
<1>1. LockInv' /\ OwnRow' /\ NoneLost'
  BY LockInvStep, OwnRowStep, NoneLostStep DEF RowsInv, StatementsHold
<1> DEFINE Goal == admin' = None /\ WritesAgree' /\ BuildRowAgrees'
<1>2. Goal
  <2>1. CASE UNCHANGED vars
    BY <2>1 DEF RowsInv, WritesAgree, RowOK, RowSettled, BuildRowAgrees, Locked, vars,
                db, workers, daemons
  <2>2. ASSUME NEW m \in Machines, MainStep(m) \/ KillStep(m) \/ DaemonFault(m)
        PROVE  Goal
    <3>1. admin' = admin
      BY <2>2 DEF MainStep, KillStep, DaemonFault, IdleStep, MainTop, Nap, Sleep, Wake,
                  WakeLate, Oversleep, Record, Select, InsertDuplicate, Fork,
                  NoWorkerIds, LoseLock, InsertLock, InsertRow, Process, ProcessReset,
                  ProcessResetStatus, Unlock, Signal, KillWait, WaitForever, vars,
                  SweepNext, SweepReset, SweepStatus, SweepUnlock, SweepDone, ForkFail,
                  DaemonLostDB, DaemonLostInsert, Term, Crash, Restart
    <3>2. QED
      BY <2>2, <3>1, DaemonRowsInv DEF RowsInv
  <2>3. ASSUME NEW j \in Jobs, WorkStep(j) \/ SignalStep(j) \/ WorkerFault(j)
        PROVE  Goal
    <3>1. admin' = admin
      BY <2>3, WorkerFrameHolds DEF WorkerFrame, RowsInv, LockInv
    <3>2. QED
      BY <2>3, <3>1, WorkerRowsInv DEF RowsInv
  <2>4. ~(\E p \in Ports : ResetPort(p)) /\ ~ResetPortStatus
    BY DEF ResetPort, ResetPortStatus, PortsRespected, RowsInv
  <2>5. ~(\E j \in Jobs : DeleteLock(j))
    BY DEF DeleteLock, StatementsHold, LocksRespected
  <2>6. QED
    BY <2>1, <2>2, <2>3, <2>4, <2>5 DEF Next, FaultStep
<1>3. QED
  BY <1>1, <1>2 DEF RowsInv

LEMMA RowsInvInit == Init => RowsInv
<1> SUFFICES ASSUME Init PROVE RowsInv
  OBVIOUS
<1>1. LockInv
  BY LockInvInit
<1>2. OwnRow /\ NoneLost /\ WritesAgree /\ admin = None
  BY DEF Init, OwnRow, NoneLost, WritesAgree
<1>3. BuildRowAgrees
  BY DEF Init, BuildRowAgrees
<1>4. QED
  BY <1>1, <1>2, <1>3 DEF RowsInv

(* There, if ports are not reset by hand either, ports.status and the build *)
(* phase row say the same as soon as nobody builds the port, although they  *)
(* are written by two statements.                                          *)
THEOREM BuildRowsAgree ==
  ASSUME StatementsHold, PortsRespected
  PROVE  Spec => []BuildRowAgrees
<1>1. RowsInv /\ [Next]_vars => RowsInv'
  BY RowsInvStep
<1>2. RowsInv => BuildRowAgrees
  BY DEF RowsInv
<1>3. QED
  BY <1>1, <1>2, RowsInvInit, PTL DEF Spec
-----------------------------------------------------------------------------
(* What is built can be installed. *)

(* A build comes past its upload only with its package uploaded, without a  *)
(* pass, or on its way to be marked 'internal' (run_phase, run).           *)
LEMMA WorkerUploads ==
  ASSUME UploadsHold, PackInv, NEW j \in Jobs, j \in locks, PhaseOf(j) = "build",
         WorkStep(j) \/ SignalStep(j) \/ WorkerFault(j)
  PROVE  /\ pc'[j] \in {"uploadDist", "done", "dead0"}
              => status'[Port(j)] \notin Passed \/ Port(j) \in pkg'
         /\ pc'[j] = "exceptRecord" => status'[Port(j)] \notin Passed
<1>1. /\ TypeInv /\ TypeOK /\ OwnRow /\ NeverTold /\ WorkerFrame(j)
      /\ pc[j] \in Alive /\ Port(j) \in Ports
      /\ pc[j] \in {"uploadDist", "done", "dead0"} => ~Built(Port(j)) \/ Port(j) \in pkg
      /\ pc[j] = "exceptRecord" => ~Built(Port(j))
  BY WorkerFrameHolds
     DEF PackInv, DependInv, LockInv, Uploaded, InternalFirst, TypeInv, TypeOK, RefsOK,
         WorkerFrame, Port, PhaseOf
<1> USE DEF WStep, Go, Built
<1>2. CASE Start(j) \/ PrepChroot(j) \/ Inject(j) \/ Throw(j) \/ RecordPhase(j)
           \/ InnerLostDB(j) \/ InnerKilled(j)
  <2>1. pc'[j] \in {"scan", "prep", "inject", "make", "except", "made"}
    BY <1>1, <1>2 DEF Start, PrepChroot, Inject, Throw, RecordPhase, InnerLostDB,
                      InnerKilled, TypeOK
  <2>2. QED
    BY <2>1
<1>3. CASE AfterMake(j)
  <2>1. /\ UNCHANGED status
        /\ Built(Port(j)) => pc'[j] = "upload"
        /\ pc'[j] # "exceptRecord"
    BY <1>1, <1>3 DEF AfterMake, TypeOK, db
  <2>2. QED
    BY <2>1
<1>4. CASE UploadPkgfile(j)
  BY <1>1, <1>4 DEF UploadPkgfile, TypeOK
<1>5. CASE UploadDistfiles(j)
  BY <1>1, <1>5 DEF UploadDistfiles, TypeOK, db
<1>6. CASE Done(j)
  <2>1. pc[j] = "done" /\ UNCHANGED <<status, pkg>> /\ pc'[j] # "exceptRecord"
    BY <1>1, <1>6, ExitEffect DEF Done, db
  <2>2. QED
    BY <1>1, <2>1
<1>7. CASE \E r \in Verdicts \cup {"internal"} : InsertResults(j, r)
  <2>1. pc' = [pc EXCEPT ![j] = "record"]
    BY <1>7 DEF InsertResults
  <2>2. QED
    BY <1>1, <2>1 DEF TypeOK
<1>8. ~\E r \in {"pass", "warn", "fail", "internal"} : RunScan(j, r)
  BY <1>1 DEF RunScan, OwnRow, PhaseOf
<1>9. CASE SetInternal(j)
  <2>1. SetStatus(Port(j), "internal")
    BY <1>9 DEF SetInternal
  <2>2. status'[Port(j)] = "internal"
    BY <1>1, <2>1, StatusSet
  <2>3. QED
    BY <2>2
<1>10. CASE RecordInternal(j)
  <2>1. UNCHANGED status /\ ~Built(Port(j))
    BY <1>1, <1>10 DEF RecordInternal
  <2>2. QED
    BY <2>1
<1>11. CASE LostDB(j)
  <2>1. pc'[j] \in {"dead6", "orphan", "free"}
    BY <1>1, <1>11, ExitEffect DEF LostDB
  <2>2. QED
    BY <2>1
<1>12. ~SignalStep(j) /\ ~Killed(j)
  BY <1>1 DEF SignalStep, Interrupt, InterruptReset, InterruptStatus, NeverTold, Killed,
              UploadsHold
<1>13. QED
  BY <1>2, <1>3, <1>4, <1>5, <1>6, <1>7, <1>8, <1>9, <1>10, <1>11, <1>12
     DEF WorkStep, WorkerFault

LEMMA WorkerPackInv ==
  ASSUME UploadsHold, PackInv, NEW j \in Jobs,
         WorkStep(j) \/ SignalStep(j) \/ WorkerFault(j)
  PROVE  OneHolder' /\ Uploaded' /\ ResetFirst' /\ InternalFirst' /\ SolidPackaged'
<1>1. TypeInv /\ WorkerFrame(j)
  BY WorkerFrameHolds DEF PackInv, DependInv, LockInv
<1>2. /\ j \in locks /\ locks' = locks /\ locks \subseteq Jobs
      /\ pc[j] \in Alive /\ pc'[j] # "free" /\ UNCHANGED <<at, cur>>
      /\ \A k \in Jobs : job'[k] = job[k]
      /\ \A k \in Jobs : k # j => pc'[k] = pc[k]
      /\ pkg \subseteq pkg' /\ Port(j) \in Ports
  BY <1>1 DEF PackInv, DependInv, LockInv, RowsKept, TypeInv, TypeOK, RefsOK,
              WorkerFrame, daemons, Port
<1>3. \A p \in Ports : p # Port(j) \/ PhaseOf(j) # "build" => status'[p] = status[p]
  BY <1>1 DEF PackInv, DependInv, LockInv, NeverTold, WorkerFrame, TypeInv, TypeOK
<1>4. \A k \in Jobs : Holds(k)' => Holds(k)
  BY <1>2 DEF Holds
<1>5. ASSUME NEW k \in Jobs, Holds(k), k # j, job[k].port \in Ports
      PROVE  status'[job[k].port] = status[job[k].port]
  BY <1>2, <1>3, <1>5 DEF Holds, PackInv, OneHolder, Port, PhaseOf
<1>6. OneHolder'
  BY <1>2, <1>4 DEF PackInv, OneHolder
<1>7. Uploaded'
  <2>1. ASSUME NEW k \in locks, k # j, job[k].phase = "build",
               pc[k] \in {"uploadDist", "done", "dead0"}, status'[job[k].port] \in Passed
        PROVE  job[k].port \in pkg'
    <3>1. k \in Jobs /\ Holds(k) /\ job[k].port \in Ports
      BY <1>1, <1>2, <2>1 DEF Holds, TypeInv, TypeOK, RefsOK
    <3>2. Built(job[k].port)
      BY <1>5, <2>1, <3>1 DEF Built
    <3>3. QED
      BY <1>2, <2>1, <3>2 DEF PackInv, Uploaded
  <2>2. job[j].phase = "build" /\ pc'[j] \in {"uploadDist", "done", "dead0"}
          => status'[job[j].port] \notin Passed \/ job[j].port \in pkg'
    BY <1>2, WorkerUploads DEF Port, PhaseOf
  <2>3. QED
    BY <1>2, <2>1, <2>2 DEF Uploaded, Built
<1>8. ResetFirst'
  <2>1. ASSUME NEW k \in Jobs, pc[k] = "dead6", job[k].phase = "build", ~Built(job[k].port)
        PROVE  ~Built(job[k].port)'
    BY <1>1, <1>2, <1>5, <2>1 DEF Holds, Built, TypeInv, TypeOK, RefsOK
  <2>2. \A k \in Jobs : pc'[k] = "dead6" /\ k \notin locks' => pc[k] = "dead6"
    BY <1>2
  <2>3. \A m \in Machines : at[m] = "unlock" => cur[m] \in Jobs /\ pc'[cur[m]] = pc[cur[m]]
    BY <1>1, <1>2 DEF TypeInv, CurOK
  <2>4. QED
    BY <1>2, <2>1, <2>2, <2>3 DEF PackInv, ResetFirst, Built
<1>9. InternalFirst'
  <2>1. ASSUME NEW k \in Jobs, pc'[k] = "exceptRecord" PROVE status'[job[k].port] \notin Passed
    <3>1. CASE k = j
      <4>1. PhaseOf(j) = "build"
        BY <1>2, <2>1, <3>1, WorkerOwnRow DEF OwnRow, PackInv, DependInv, PhaseOf
      <4>2. QED
        BY <1>2, <2>1, <3>1, <4>1, WorkerUploads DEF Port
    <3>2. CASE k # j
      <4>1. /\ pc[k] = "exceptRecord" /\ Holds(k) /\ ~Built(job[k].port)
            /\ job[k].port \in Ports
        BY <1>1, <1>2, <2>1, <3>2 DEF PackInv, DependInv, LockInv, RowsKept, OwnRow,
              InternalFirst, Holds, TypeInv, TypeOK, RefsOK
      <4>2. QED
        BY <1>5, <3>2, <4>1 DEF Built
    <3>3. QED
      BY <3>1, <3>2
  <2>2. QED
    BY <1>2, <2>1 DEF InternalFirst, Built
<1>10. SolidPackaged'
  <2>1. \A p \in Ports : Held(p)' <=> Held(p)
    BY <1>2 DEF Held
  <2>2. PhaseOf(j) = "build" => Held(Port(j))
    BY <1>2 DEF Held, Port, PhaseOf
  <2>3. QED
    BY <1>2, <1>3, <2>1, <2>2 DEF PackInv, SolidPackaged, Solid, Built
<1>11. QED
  BY <1>6, <1>7, <1>8, <1>9, <1>10

(* When a daemon buries a builder or a crash forgets it, the port is not    *)
(* built or its package is there.                                          *)
LEMMA QuietReleases ==
  ASSUME PackInv, NEW m \in Machines, QuietStep(m), NEW k \in Jobs,
         Holds(k), ~(k \in locks' \/ pc'[k] = "dead6"), job[k].port \in Ports
  PROVE  ~Built(job[k].port) \/ job[k].port \in pkg
<1> USE DEF PackInv, DependInv, LockInv, TypeInv, TypeOK, CurOK, db, workers, daemons, Step, Go
<1>1. k \notin locks => pc[k] = "dead6" /\ ~Built(job[k].port)
  BY DEF Holds, ResetFirst
<1>2. CASE Unlock(m)
  <2>1. /\ at[m] = "unlock" /\ locks' = locks \ {cur[m]} /\ pc[cur[m]] \in Dead
        /\ cur[m] \in Jobs
    BY <1>2 DEF Unlock
  <2>2. CASE k = cur[m] /\ k \in locks
    BY <2>1, <2>2 DEF Holds, Uploaded, ResetFirst
  <2>3. QED
    BY <1>1, <2>1, <2>2
<1>3. CASE DaemonLostDB(m)
  <2>1. /\ \/ locks' = locks
           \/ at[m] = "unlock" /\ locks' = locks \ {cur[m]}
        /\ UNCHANGED pc
    BY <1>3 DEF DaemonLostDB
  <2>2. k \in locks => k = cur[m] /\ pc[k] = "dead0"
    BY <2>1
  <2>3. QED
    BY <1>1, <2>2 DEF Holds, Uploaded
<1>4. CASE ~Unlock(m) /\ ~DaemonLostDB(m)
  <2>1. locks' = locks
    BY <1>4 DEF QuietStep, IdleStep, MainTop, Nap, Sleep, Wake, WakeLate, Oversleep,
                Record, InsertDuplicate, Restart, Fork, NoWorkerIds, ForkFail, LoseLock,
                Crash, ProcessReset, ProcessResetStatus, Process
  <2>2. QED
    BY <1>1, <2>1
<1>5. QED
  BY <1>2, <1>3, <1>4

LEMMA QuietPackInv ==
  ASSUME OneMachine, LocksRespected, PackInv, NEW m \in Machines, QuietStep(m)
  PROVE  OneHolder' /\ Uploaded' /\ ResetFirst' /\ InternalFirst' /\ SolidPackaged'
<1>1. /\ pkg' = pkg
      /\ \A k \in Jobs : pc'[k] \in (Alive \cup Dead) \ {"start"}
                           => pc'[k] = pc[k] /\ job'[k] = job[k]
  BY DaemonKeepsWorkers DEF QuietStep, IdleStep, MainStep, DaemonFault, PackInv, DependInv
<1>2. \A k \in Jobs : k \in locks' \/ pc'[k] = "dead6"
            => (k \in locks \/ pc[k] = "dead6") /\ job'[k] = job[k]
  BY QuietRows DEF PackInv, DependInv
<1>3. \A p : status'[p] \in Passed => status[p] \in Passed
  <2>1. CASE ProcessResetStatus(m)
    <3>1. status' = [status EXCEPT ![job[cur[m]].port] = "untested"]
      BY <2>1 DEF ProcessResetStatus, SetStatus
    <3>2. status \in [Ports -> Status]
      BY DEF PackInv, DependInv, LockInv, TypeInv, TypeOK
    <3>3. QED
      BY <3>1, <3>2
  <2>2. CASE ~ProcessResetStatus(m)
    BY <2>2 DEF QuietStep, IdleStep, MainTop, Nap, Sleep, Wake, WakeLate, Oversleep,
                Record, InsertDuplicate, Restart, Fork, NoWorkerIds, ForkFail, LoseLock,
                DaemonLostDB, Crash, ProcessReset, Unlock, Process, db, workers
  <2>3. QED
    BY <2>1, <2>2
<1>4. locks' \subseteq locks
  <2>1. CASE locks' = locks
    BY <2>1
  <2>2. CASE locks' # locks
    BY <2>2 DEF QuietStep, IdleStep, MainTop, Nap, Sleep, Wake, WakeLate, Oversleep,
                Record, InsertDuplicate, Restart, Fork, NoWorkerIds, ForkFail, LoseLock,
                DaemonLostDB, Crash, ProcessReset, ProcessResetStatus, Unlock, Process,
                db, workers
  <2>3. QED
    BY <2>1, <2>2
<1>5. locks \subseteq Jobs
  BY DEF PackInv, DependInv, LockInv, TypeInv, TypeOK
<1>6. OneHolder'
  BY <1>2 DEF PackInv, OneHolder, Holds
<1>7. Uploaded'
  BY <1>1, <1>3, <1>4, <1>5 DEF PackInv, Uploaded, Built
<1>8. InternalFirst'
  BY <1>1, <1>3 DEF PackInv, InternalFirst, Built
<1>9. ResetFirst'
  <2>1. ASSUME NEW k \in Jobs, pc'[k] = "dead6", job'[k].phase = "build", k \notin locks'
        PROVE  status'[job'[k].port] \notin Passed
    <3>1. pc[k] = "dead6" /\ job'[k] = job[k]
      BY <1>1, <2>1
    <3>2. CASE k \notin locks
      BY <1>3, <2>1, <3>1, <3>2 DEF PackInv, ResetFirst, Built
    <3>3. CASE k \in locks
      <4>1. at[m] = "unlock" /\ k = cur[m]
        <5>1. Unlock(m) \/ DaemonLostDB(m)
          BY <2>1, <3>3 DEF QuietStep, IdleStep, MainTop, Nap, Sleep, Wake, WakeLate,
                            Oversleep, Record, InsertDuplicate, Restart, Fork,
                            NoWorkerIds, ForkFail, LoseLock, Crash, ProcessReset,
                            ProcessResetStatus, Process, db, workers
        <5>2. QED
          BY <5>1, <2>1, <3>3 DEF Unlock, DaemonLostDB, Step
      <4>2. QED
        BY <1>3, <2>1, <3>1, <4>1 DEF PackInv, ResetFirst, Built
    <3>4. QED
      BY <3>2, <3>3
  <2>2. ASSUME at'[m] = "unlock", pc'[cur'[m]] = "dead6", job'[cur'[m]].phase = "build"
        PROVE  status'[job'[cur'[m]].port] \notin Passed
    <3> USE DEF PackInv, DependInv, LockInv, TypeInv, TypeOK, RefsOK, CurOK, db, workers,
                daemons, Step
    <3>1. CASE ProcessResetStatus(m)
      <4>1. /\ status' = [status EXCEPT ![job[cur[m]].port] = "untested"]
            /\ UNCHANGED <<cur, job, pc>> /\ at[m] = "resetStatus"
        BY <3>1 DEF ProcessResetStatus, SetStatus
      <4>2. job[cur[m]].port \in Ports
        BY <4>1
      <4>3. QED
        BY <4>1, <4>2
    <3>2. ASSUME NEW j \in Jobs, Process(m, j) PROVE FALSE
      <4>1. cur'[m] = j /\ UNCHANGED <<job, pc>>
        BY <3>2 DEF Process
      <4>2. QED
        BY <2>2, <3>2, <4>1 DEF Process
    <3>3. QED
      BY <2>2, <3>1, <3>2 DEF QuietStep, IdleStep, MainTop, Nap, Sleep, Wake, WakeLate,
                              Oversleep, Record, InsertDuplicate, Restart, Fork,
                              NoWorkerIds, ForkFail, LoseLock, DaemonLostDB, Crash,
                              ProcessReset, Unlock
  <2>3. \A n \in Machines : n = m
    BY DEF OneMachine
  <2>4. QED
    BY <2>1, <2>2, <2>3 DEF ResetFirst, Built
<1>10. SolidPackaged'
  <2> SUFFICES ASSUME NEW p \in Ports, Solid(p)', p \notin pkg PROVE FALSE
    BY <1>1 DEF SolidPackaged
  <2>1. Built(p) /\ Held(p)
    BY <1>3 DEF PackInv, SolidPackaged, Solid, Built
  <2>2. PICK k \in Jobs : Holds(k) /\ job[k].port = p
    BY <2>1 DEF Held, Holds
  <2>3. ~(k \in locks' \/ pc'[k] = "dead6")
    BY <1>2, <2>2 DEF Solid, Held, Holds
  <2>4. QED
    BY <2>1, <2>2, <2>3, QuietReleases
<1>11. QED
  BY <1>6, <1>7, <1>8, <1>9, <1>10

LEMMA InsertPackInv ==
  ASSUME OneMachine, PackInv, NEW m \in Machines, NEW j \in Jobs,
         InsertLock(m, j) \/ DaemonLostInsert(m, j)
  PROVE  OneHolder' /\ Uploaded' /\ ResetFirst' /\ InternalFirst' /\ SolidPackaged'
<1> USE DEF PackInv, DependInv, LockInv, TypeInv, TypeOK
<1>1. /\ at[m] = "insert" /\ pc[j] = "free" /\ locks' = locks \cup {j}
      /\ job' = [job EXCEPT ![j] = [port |-> cand[m][1], phase |-> cand[m][2],
                                    machine |-> m]]
      /\ \E to \in {"new", "orphan"} : pc' = [pc EXCEPT ![j] = to]
      /\ \E to \in {"fork", "top"} : at' = [at EXCEPT ![m] = to]
      /\ UNCHANGED <<status, pkg>>
  BY DEF InsertLock, DaemonLostInsert, InsertRow, Step, Go
<1>2. PICK p \in Ports, ph \in Phase : cand[m] = <<p, ph>>
  BY <1>1 DEF RefsOK
<1>3. j \notin locks
  BY <1>1 DEF RowsKept
<1>4. /\ job'[j].port = p /\ job'[j].phase = ph /\ pc'[j] \in {"new", "orphan"}
      /\ \A k \in Jobs : k # j => pc'[k] = pc[k] /\ job'[k] = job[k]
  BY <1>1, <1>2
<1>5. ph = "build" => ~Held(p)
  BY <1>1, <1>2 DEF CandSolid
<1>6. OneHolder'
  <2>1. \A k \in Jobs : k # j => (Holds(k)' <=> Holds(k))
    BY <1>1, <1>4 DEF Holds
  <2>2. \A k \in Jobs : k # j /\ Holds(k) /\ Holds(j)' => job[k].port # p
    BY <1>4, <1>5 DEF Holds, Held
  <2>3. QED
    BY <1>4, <2>1, <2>2 DEF OneHolder
<1>7. Uploaded'
  BY <1>1, <1>4 DEF Uploaded, Built
<1>8. InternalFirst'
  BY <1>1, <1>4 DEF InternalFirst, Built
<1>9. ResetFirst'
  BY <1>1, <1>4 DEF ResetFirst, Built, OneMachine
<1>10. SolidPackaged'
  <2>1. \A q \in Ports : Held(q) => Held(q)'
    BY <1>1, <1>3, <1>4 DEF Held
  <2>2. QED
    BY <1>1, <2>1 DEF SolidPackaged, Solid, Built
<1>11. QED
  BY <1>6, <1>7, <1>8, <1>9, <1>10

LEMMA PackInvStep ==
  ASSUME OneMachine, UploadsHold
  PROVE  PackInv /\ [Next]_vars => PackInv'
<1> SUFFICES ASSUME PackInv, [Next]_vars PROVE PackInv'
  OBVIOUS
<1>1. DependInv' /\ OwnRow'
  BY DependInvStep, OwnRowStep DEF PackInv, DependInv, UploadsHold, PortsRespected
<1> DEFINE Goal == OneHolder' /\ Uploaded' /\ ResetFirst' /\ InternalFirst' /\ SolidPackaged'
<1>2. CASE UNCHANGED <<status, pkg, locks, job, pc>>
           /\ \A m \in Machines : at'[m] = "unlock" => at[m] = "unlock" /\ cur'[m] = cur[m]
  BY <1>1, <1>2 DEF PackInv, OneHolder, Holds, Uploaded, ResetFirst, InternalFirst,
                    SolidPackaged, Solid, Held, Built
<1>3. ASSUME NEW m \in Machines, MainStep(m) \/ KillStep(m) \/ DaemonFault(m)
      PROVE  PackInv'
  <2>1. CASE QuietStep(m)
    BY <1>1, <2>1, QuietPackInv DEF PackInv, UploadsHold, PortsRespected
  <2>2. CASE Select(m)
    <3>1. /\ UNCHANGED <<status, pkg, locks, job, pc, cur>>
          /\ at' = [at EXCEPT ![m] = "insert"] /\ at \in [Machines -> DaemonPC]
      BY <2>2 DEF Select, Step, db, workers, PackInv, DependInv, LockInv, TypeInv,
                  TypeOK
    <3>2. QED
      BY <1>2, <3>1
  <2>3. CASE \E j \in Jobs : InsertLock(m, j) \/ DaemonLostInsert(m, j)
    BY <1>1, <2>3, InsertPackInv DEF PackInv
  <2>4. ~KillStep(m)
    BY DEF PackInv, DependInv, LockInv, NeverTold, KillStep, Signal, KillWait,
           WaitForever, SweepNext, SweepReset, SweepStatus, SweepUnlock, SweepDone, Step
  <2>5. ~Term(m)
    BY DEF Term, UploadsHold, PortsRespected, LocksRespected
  <2>6. QED
    BY <1>3, <2>1, <2>2, <2>3, <2>4, <2>5 DEF MainStep, DaemonFault, QuietStep, IdleStep
<1>4. ASSUME NEW j \in Jobs, WorkStep(j) \/ SignalStep(j) \/ WorkerFault(j)
      PROVE  PackInv'
  BY <1>1, <1>4, WorkerPackInv DEF PackInv
<1>5. ~(\E p \in Ports : ResetPort(p)) /\ ~ResetPortStatus
  BY DEF ResetPort, ResetPortStatus, UploadsHold, PortsRespected, PackInv, DependInv
<1>6. ~(\E j \in Jobs : DeleteLock(j))
  BY DEF DeleteLock, UploadsHold, PortsRespected, LocksRespected
<1>7. CASE UNCHANGED vars
  BY <1>2, <1>7 DEF vars, db, workers, daemons
<1>8. QED
  BY <1>3, <1>4, <1>5, <1>6, <1>7 DEF Next, FaultStep

LEMMA PackInvInit == Init => PackInv
<1> SUFFICES ASSUME Init PROVE PackInv
  OBVIOUS
<1>1. DependInv /\ OwnRow
  BY DependInvInit DEF Init, OwnRow
<1>2. OneHolder /\ Uploaded /\ ResetFirst /\ InternalFirst
  BY DEF Init, OneHolder, Holds, Uploaded, ResetFirst, InternalFirst
<1>3. SolidPackaged
  BY DEF Init, SolidPackaged, Solid, Built
<1>4. QED
  BY <1>1, <1>2, <1>3 DEF PackInv

LEMMA PackInvInstalls == PackInv => ReadyInstallable
<1> SUFFICES ASSUME PackInv, NEW j \in Jobs, pc[j] = "inject", job[j].phase = "build"
             PROVE  Injectable(j)
  BY DEF ReadyInstallable
<1>1. j \in locks /\ Port(j) \in Ports
  BY DEF PackInv, DependInv, LockInv, RowsKept, TypeInv, TypeOK, RefsOK, Port
<1>2. Held(Port(j))
  BY <1>1 DEF Held, Port
<1>3. \A d \in build_depends_closure[Port(j)] : Solid(d)
  BY <1>1, <1>2, ClosureSolid DEF PackInv, DependInv
<1>4. build_depends_closure[Port(j)] \subseteq Ports
  BY <1>1 DEF build_depends_closure, Closure
<1>5. \A d \in build_depends_closure[Port(j)] : Built(d) /\ d \in pkg
  BY <1>3, <1>4 DEF PackInv, SolidPackaged, Solid
<1>6. QED
  BY <1>5 DEF Injectable, ToInject, PhaseOf

(* On one machine, unless a worker is killed between its verdict and its    *)
(* upload, what ready_ports offers can be built: every dependency, direct   *)
(* or not, is built and its package is there when inject_depends asks for   *)
(* it, whatever statements, forks, uploads and machines fail.              *)
THEOREM ReadyCanInstall ==
  ASSUME OneMachine, UploadsHold
  PROVE  Spec => []ReadyInstallable
<1>1. PackInv /\ [Next]_vars => PackInv'
  BY PackInvStep
<1>2. QED
  BY <1>1, PackInvInit, PackInvInstalls, PTL DEF Spec
=============================================================================
