---------------------------- MODULE MagusQueueProofs ----------------------------
(***************************************************************************)
(* The cluster implements the job queue of BuildQueue, for any ports,      *)
(* dependencies, machines and numbers of workers.                          *)
(***************************************************************************)
EXTENDS MagusProofs

USE DEF Phase, Passed, Status, Making, Busy, Stopping, Alive, Dead, WorkerPC,
        Claiming, Asleep, Reaping, Killing, Sweeping, DaemonPC, Row, NoRow

(* What a step of a worker may change of what the queue shows: nothing, the *)
(* verdict of its port, or the package of its port.                        *)
VerdictStep(j) ==
  /\ UNCHANGED pkg
  /\ \E s \in Status : status' = [status EXCEPT ![Port(j)] = s]
PackageStep(j) == UNCHANGED status /\ pkg' = pkg \cup {Port(j)}

LEMMA WorkerShows ==
  ASSUME QueueInv, NEW j \in Jobs,
         WorkStep(j) \/ SignalStep(j) \/ WorkerFault(j)
  PROVE  /\ \/ UNCHANGED <<status, pkg>>
            \/ PhaseOf(j) = "build" /\ VerdictStep(j)
            \/ PhaseOf(j) = "build" /\ PackageStep(j)
         /\ pc'[j] = "upload" => job[j].phase = "build"
<1> USE DEF QueueInv, LockInv, TypeInv, TypeOK, BuildUploads, NeverTold, VerdictStep,
        PackageStep, Go, WStep, Port, PhaseOf, SetStatus, db
<1>1. CASE Start(j) \/ PrepChroot(j) \/ Inject(j) \/ RecordPhase(j) \/ UploadDistfiles(j)
           \/ InnerLostDB(j) \/ InnerKilled(j) \/ Throw(j)
  BY <1>1 DEF Start, PrepChroot, Inject, RecordPhase, UploadDistfiles, InnerLostDB,
              InnerKilled, Throw
<1>2. CASE AfterMake(j)
  <2>1. UNCHANGED <<status, pkg>>
    BY <1>2 DEF AfterMake
  <2>2. pc'[j] = "upload" => job[j].phase = "build"
    BY <1>2 DEF AfterMake
  <2>3. QED
    BY <2>1, <2>2
<1>3. CASE UploadPkgfile(j)
  BY <1>3 DEF UploadPkgfile
<1>4. ASSUME NEW r \in Verdicts \cup {"internal"}, InsertResults(j, r)
      PROVE  /\ \/ UNCHANGED <<status, pkg>>
                \/ PhaseOf(j) = "build" /\ VerdictStep(j)
             /\ pc'[j] # "upload"
  <2>1. r \in Status
    BY Constants
  <2>2. CASE PhaseOf(j) = "build"
    <3>1. /\ status' = [status EXCEPT ![Port(j)] = r] /\ UNCHANGED pkg
          /\ pc' = [pc EXCEPT ![j] = "record"]
      BY <1>4, <2>2 DEF InsertResults
    <3>2. QED
      BY <2>1, <2>2, <3>1
  <2>3. CASE PhaseOf(j) # "build"
    <3>1. UNCHANGED <<status, pkg>> /\ pc' = [pc EXCEPT ![j] = "made"]
      BY <1>4, <2>3 DEF InsertResults
    <3>2. QED
      BY <3>1
  <2>4. QED
    BY <2>2, <2>3
<1>5. ASSUME NEW r \in {"pass", "warn", "fail", "internal"}, RunScan(j, r)
      PROVE  UNCHANGED <<status, pkg>> /\ pc'[j] # "upload"
  BY <1>5 DEF RunScan
<1>6. CASE Done(j) \/ LostDB(j) \/ Killed(j) \/ RecordInternal(j)
  <2>1. UNCHANGED <<status, pkg>> /\ \E code \in Dead : Exit(j, code)
    BY <1>6 DEF Done, LostDB, Killed, RecordInternal
  <2>2. QED
    BY <2>1, ExitEffect
<1>7. CASE SetInternal(j)
  <2>1. CASE PhaseOf(j) = "build"
    <3>1. /\ status' = [status EXCEPT ![Port(j)] = "internal"] /\ UNCHANGED pkg
          /\ pc' = [pc EXCEPT ![j] = "exceptRecord"]
      BY <1>7, <2>1 DEF SetInternal
    <3>2. QED
      BY <2>1, <3>1
  <2>2. CASE PhaseOf(j) # "build"
    <3>1. UNCHANGED <<status, pkg>> /\ Exit(j, "dead0")
      BY <1>7, <2>2 DEF SetInternal
    <3>2. QED
      BY <3>1, ExitEffect
  <2>3. QED
    BY <2>1, <2>2
<1>8. CASE SignalStep(j)
  BY <1>8 DEF SignalStep, Interrupt, InterruptReset, InterruptStatus
<1>9. QED
  BY <1>1, <1>2, <1>3, <1>4, <1>5, <1>6, <1>7, <1>8 DEF WorkStep, WorkerFault

(* A daemon never sends a worker to its upload and never changes the row it *)
(* works under.                                                            *)
LEMMA DaemonKeepsUploads ==
  ASSUME LocksRespected, QueueInv, NEW m \in Machines,
         MainStep(m) \/ KillStep(m) \/ DaemonFault(m)
  PROVE  BuildUploads'
<1> USE DEF QueueInv, LockInv, TypeInv, TypeOK, BuildUploads, NeverTold, CurOK,
        db, workers, daemons, Step, Go
<1>1. CASE IdleStep(m) \/ Select(m) \/ Record(m) \/ InsertDuplicate(m) \/ Restart(m)
           \/ ProcessReset(m) \/ ProcessResetStatus(m)
  <2>1. UNCHANGED <<pc, job>>
    BY <1>1 DEF IdleStep, MainTop, Nap, Sleep, Wake, WakeLate, Oversleep, Record,
                Select, InsertDuplicate, Restart, ProcessReset, ProcessResetStatus
  <2>2. QED
    BY <2>1
<1>2. CASE Fork(m)
  BY <1>2 DEF Fork
<1>3. CASE NoWorkerIds(m) \/ ForkFail(m)
  BY <1>3 DEF NoWorkerIds, ForkFail, LoseLock, Abandon
<1>4. CASE Unlock(m)
  BY <1>4 DEF Unlock, Forget
<1>5. CASE KillStep(m)
  BY <1>5 DEF KillStep, Signal, KillWait, WaitForever, SweepNext, SweepReset,
              SweepStatus, SweepUnlock, SweepDone
<1>6. CASE DaemonLostDB(m)
  BY <1>6 DEF DaemonLostDB
<1>7. CASE Term(m)
  BY <1>7 DEF Term, LocksRespected
<1>8. CASE Crash(m)
  BY <1>8 DEF Crash, Abandon
<1>9. ASSUME NEW j \in Jobs, InsertLock(m, j) \/ DaemonLostInsert(m, j)
      PROVE  BuildUploads'
  BY <1>9 DEF InsertLock, DaemonLostInsert, InsertRow
<1>10. ASSUME NEW j \in Jobs, Process(m, j) PROVE BuildUploads'
  BY <1>10 DEF Process
<1>11. QED
  BY <1>1, <1>2, <1>3, <1>4, <1>5, <1>6, <1>7, <1>8, <1>9, <1>10
     DEF MainStep, DaemonFault, IdleStep

LEMMA QueueInvStep ==
  ASSUME LocksRespected
  PROVE  QueueInv /\ [Next]_vars => QueueInv'
<1> SUFFICES ASSUME QueueInv, [Next]_vars PROVE QueueInv'
  OBVIOUS
<1>1. LockInv'
  BY LockInvStep DEF QueueInv
<1>2. BuildUploads'
  <2>1. CASE UNCHANGED vars
    BY <2>1 DEF QueueInv, BuildUploads, vars, workers
  <2>2. ASSUME NEW m \in Machines, MainStep(m) \/ KillStep(m) \/ DaemonFault(m)
        PROVE  BuildUploads'
    BY <2>2, DaemonKeepsUploads
  <2>3. ASSUME NEW j \in Jobs, WorkStep(j) \/ SignalStep(j) \/ WorkerFault(j)
        PROVE  BuildUploads'
    <3>1. pc'[j] = "upload" => job[j].phase = "build"
      BY <2>3, WorkerShows
    <3>2. WorkerFrame(j)
      BY <2>3, WorkerFrameHolds DEF QueueInv, LockInv
    <3>3. QED
      BY <3>1, <3>2 DEF QueueInv, BuildUploads, WorkerFrame
  <2>4. CASE (\E p \in Ports : ResetPort(p)) \/ ResetPortStatus
    BY <2>4 DEF ResetPort, ResetPortStatus, workers, QueueInv, BuildUploads
  <2>5. CASE \E j \in Jobs : DeleteLock(j)
    BY <2>5 DEF DeleteLock, LocksRespected
  <2>6. QED
    BY <2>1, <2>2, <2>3, <2>4, <2>5 DEF Next, FaultStep
<1>3. QED
  BY <1>1, <1>2 DEF QueueInv

LEMMA QueueInvInit == Init => QueueInv
  BY LockInvInit DEF Init, QueueInv, BuildUploads
-----------------------------------------------------------------------------
(* The refinement.  How the rows of the locks table show as taken jobs. *)

LEMMA TakenKept ==
  ASSUME locks' = locks, \A k \in locks : job'[k] = job[k]
  PROVE  Taken' = Taken
  BY DEF Taken

LEMMA TakenMore ==
  ASSUME TypeOK, NEW j \in Jobs, j \notin locks, locks' = locks \cup {j},
         NEW p \in Ports, NEW ph \in Phase,
         job'[j].port = p, job'[j].phase = ph,
         \A k \in locks : job'[k] = job[k],
         ~Locked(p, ph)
  PROVE  <<p, ph>> \notin Taken /\ Taken' = Taken \cup {<<p, ph>>}
  BY DEF Taken, Locked

LEMMA TakenLess ==
  ASSUME TypeOK, UniqueRows, NEW j \in locks, locks' = locks \ {j},
         \A k \in locks \ {j} : job'[k] = job[k]
  PROVE  Taken' = Taken \ {<<job[j].port, job[j].phase>>}
  BY DEF Taken, UniqueRows

(* Deleting a row (process_dead_children) is a drop of its job, or nothing  *)
(* when the row is gone already.                                           *)
LEMMA UnlockShows ==
  ASSUME QueueInv, NEW j \in Jobs, job[j] # NoRow, locks' = locks \ {j},
         \A k \in locks \ {j} : job'[k] = job[k], UNCHANGED <<status, pkg>>
  PROVE  Queue!QueueNext \/ UNCHANGED Queue!queue
<1>1. CASE j \in locks
  <2>1. job[j].port \in Ports /\ job[j].phase \in Phase
    BY DEF QueueInv, LockInv, TypeInv, TypeOK
  <2>2. Taken' = Taken \ {<<job[j].port, job[j].phase>>}
    BY <1>1, TakenLess DEF QueueInv, LockInv, TypeInv
  <2>3. Queue!Drop(job[j].port, job[j].phase)
    BY <2>2 DEF Queue!Drop
  <2>4. QED
    BY <2>1, <2>3 DEF Queue!QueueNext
<1>2. CASE j \notin locks
  <2>1. locks' = locks
    BY <1>2
  <2>2. Taken' = Taken
    BY <2>1, TakenKept
  <2>3. QED
    BY <2>2 DEF Queue!queue
<1>3. QED
  BY <1>1, <1>2

(* Every step of a worker is a step of the queue or shows nothing: a live   *)
(* worker has its row.                                                     *)
LEMMA WorkerRefines ==
  ASSUME QueueInv, NEW j \in Jobs,
         WorkStep(j) \/ SignalStep(j) \/ WorkerFault(j)
  PROVE  Queue!QueueNext \/ UNCHANGED Queue!queue
<1>1. WorkerFrame(j) /\ TypeOK
  BY WorkerFrameHolds DEF QueueInv, LockInv, TypeInv
<1>2. j \in locks /\ job[j] # NoRow
  BY <1>1 DEF QueueInv, LockInv, RowsKept, TypeInv, RefsOK, WorkerFrame
<1>3. Port(j) \in Ports
  BY <1>1, <1>2 DEF TypeOK, Port
<1>4. Taken' = Taken
  <2>1. locks' = locks /\ \A k \in locks : job'[k] = job[k]
    BY <1>1, <1>2 DEF WorkerFrame, TypeOK
  <2>2. QED
    BY <2>1, TakenKept
<1>5. CASE UNCHANGED <<status, pkg>>
  BY <1>4, <1>5 DEF Queue!queue
<1>6. CASE PhaseOf(j) = "build" /\ (VerdictStep(j) \/ PackageStep(j))
  <2>1. <<Port(j), "build">> \in Taken
    BY <1>2, <1>6 DEF Taken, Port, PhaseOf
  <2>2. CASE VerdictStep(j)
    <3>1. PICK s \in Status : status' = [status EXCEPT ![Port(j)] = s]
      BY <2>2 DEF VerdictStep
    <3>2. CASE s = "untested"
      BY <1>3, <1>4, <2>2, <3>1, <3>2 DEF VerdictStep, Queue!QueueNext, Queue!Withdraw
    <3>3. CASE s # "untested"
      <4>1. s \in Status \ {"untested"}
        BY <3>3
      <4>2. Queue!Report(Port(j), s)
        BY <1>4, <2>1, <2>2, <3>1 DEF VerdictStep, Queue!Report
      <4>3. QED
        BY <1>3, <4>1, <4>2 DEF Queue!QueueNext
    <3>4. QED
      BY <3>2, <3>3
  <2>3. CASE PackageStep(j)
    <3>1. Queue!Deliver(Port(j))
      BY <1>4, <2>1, <2>3 DEF PackageStep, Queue!Deliver
    <3>2. QED
      BY <1>3, <3>1 DEF Queue!QueueNext
  <2>4. QED
    BY <1>6, <2>2, <2>3
<1>7. QED
  BY <1>5, <1>6, WorkerShows

(* So is every step of a daemon: claiming takes a job, burying drops one    *)
(* and may withdraw a verdict.                                             *)
LEMMA DaemonRefines ==
  ASSUME LocksRespected, QueueInv, NEW m \in Machines,
         MainStep(m) \/ KillStep(m) \/ DaemonFault(m)
  PROVE  Queue!QueueNext \/ UNCHANGED Queue!queue
<1> USE DEF QueueInv, LockInv, TypeInv, TypeOK, NeverTold, CurOK, RefsOK,
        db, workers, daemons, Step, Go
<1>1. CASE \/ IdleStep(m) \/ Select(m) \/ Record(m) \/ InsertDuplicate(m) \/ Restart(m)
           \/ ProcessReset(m) \/ Fork(m) \/ \E j \in Jobs : Process(m, j)
  <2>1. UNCHANGED <<status, pkg, locks, job>>
    BY <1>1 DEF IdleStep, MainTop, Nap, Sleep, Wake, WakeLate, Oversleep, Record,
                Select, InsertDuplicate, Restart, ProcessReset, Fork, Process
  <2>2. QED
    BY <2>1, TakenKept DEF Queue!queue
<1>2. CASE ProcessResetStatus(m)
  <2>1. cur[m] \in Jobs /\ job[cur[m]] # NoRow
    BY <1>2 DEF ProcessResetStatus
  <2>2. job[cur[m]].port \in Ports
    BY <2>1
  <2>3. /\ status' = [status EXCEPT ![job[cur[m]].port] = "untested"]
        /\ UNCHANGED <<pkg, locks, job>>
    BY <1>2 DEF ProcessResetStatus, SetStatus
  <2>4. Queue!Withdraw(job[cur[m]].port)
    BY <2>3, TakenKept DEF Queue!Withdraw
  <2>5. QED
    BY <2>2, <2>4 DEF Queue!QueueNext
<1>3. CASE NoWorkerIds(m) \/ ForkFail(m)
  <2>1. /\ UNCHANGED <<status, pkg, locks>>
        /\ \A k \in locks : job'[k] = job[k]
    BY <1>3 DEF NoWorkerIds, ForkFail, LoseLock, Abandon
  <2>2. QED
    BY <2>1, TakenKept DEF Queue!queue
<1>4. CASE Unlock(m)
  <2>1. /\ cur[m] \in Jobs /\ job[cur[m]] # NoRow /\ locks' = locks \ {cur[m]}
        /\ \A k \in locks \ {cur[m]} : job'[k] = job[k]
        /\ UNCHANGED <<status, pkg>>
    BY <1>4 DEF Unlock, Forget
  <2> HIDE DEF QueueInv
  <2>2. QED
    BY <2>1, UnlockShows
<1>5. CASE KillStep(m)
  BY <1>5 DEF KillStep, Signal, KillWait, WaitForever, SweepNext, SweepReset,
              SweepStatus, SweepUnlock, SweepDone
<1>6. CASE DaemonLostDB(m)
  <2>1. CASE UNCHANGED locks
    <3>1. UNCHANGED <<status, pkg, locks, job>>
      BY <1>6, <2>1 DEF DaemonLostDB
    <3>2. QED
      BY <3>1, TakenKept DEF Queue!queue
  <2>2. CASE ~UNCHANGED locks
    <3>1. /\ cur[m] \in Jobs /\ job[cur[m]] # NoRow /\ locks' = locks \ {cur[m]}
          /\ UNCHANGED <<status, pkg, job>>
      BY <1>6, <2>2 DEF DaemonLostDB
    <3> HIDE DEF QueueInv
    <3>2. QED
      BY <3>1, UnlockShows
  <2>3. QED
    BY <2>1, <2>2
<1>7. CASE Term(m)
  BY <1>7 DEF Term, LocksRespected
<1>8. CASE Crash(m)
  <2>1. /\ UNCHANGED <<status, pkg, locks>>
        /\ \A k \in locks : job'[k] = job[k]
    BY <1>8 DEF Crash, Abandon
  <2>2. QED
    BY <2>1, TakenKept DEF Queue!queue
<1>9. ASSUME NEW j \in Jobs, InsertLock(m, j) \/ DaemonLostInsert(m, j)
      PROVE  Queue!QueueNext \/ UNCHANGED Queue!queue
  <2>1. /\ at[m] = "insert" /\ pc[j] = "free" /\ locks' = locks \cup {j}
        /\ ~Locked(cand[m][1], cand[m][2])
        /\ job' = [job EXCEPT ![j] = [port |-> cand[m][1], phase |-> cand[m][2],
                                      machine |-> m]]
        /\ UNCHANGED <<status, pkg>>
    BY <1>9 DEF InsertLock, DaemonLostInsert, InsertRow
  <2>2. j \notin locks
    BY <2>1 DEF RowsKept
  <2>3. cand[m] \in Ports \X Phase
    BY <2>1, Constants
  <2>4. PICK p \in Ports, ph \in Phase : cand[m] = <<p, ph>>
    BY <2>3
  <2>5. /\ job'[j].port = p /\ job'[j].phase = ph /\ ~Locked(p, ph)
        /\ \A k \in locks : job'[k] = job[k]
    BY <2>1, <2>2, <2>4
  <2>6. <<p, ph>> \notin Taken /\ Taken' = Taken \cup {<<p, ph>>}
    <3>1. TypeOK
      OBVIOUS
    <3> HIDE DEF QueueInv, TypeOK
    <3>2. QED
      BY <2>1, <2>2, <2>5, <3>1, TakenMore
  <2>7. Queue!Take(p, ph)
    BY <2>1, <2>6 DEF Queue!Take
  <2>8. QED
    BY <2>7 DEF Queue!QueueNext
<1>10. QED
  BY <1>1, <1>2, <1>3, <1>4, <1>5, <1>6, <1>7, <1>8, <1>9 DEF MainStep, DaemonFault, IdleStep

LEMMA StepRefines ==
  ASSUME LocksRespected
  PROVE  QueueInv /\ [Next]_vars => [Queue!QueueNext]_(Queue!queue)
<1> SUFFICES ASSUME QueueInv, [Next]_vars
             PROVE  Queue!QueueNext \/ UNCHANGED Queue!queue
  OBVIOUS
<1>1. CASE UNCHANGED vars
  BY <1>1, TakenKept DEF vars, db, workers, Queue!queue
<1>2. CASE \E p \in Ports : ResetPort(p)
  BY <1>2, TakenKept DEF ResetPort, workers, Queue!queue
<1>3. CASE ResetPortStatus
  <2>1. /\ admin \in Ports /\ status' = [status EXCEPT ![admin] = "untested"]
        /\ UNCHANGED <<pkg, locks, job>>
    BY <1>3 DEF ResetPortStatus, SetStatus, workers, QueueInv, LockInv, TypeInv, TypeOK
  <2>2. Queue!Withdraw(admin)
    BY <2>1, TakenKept DEF Queue!Withdraw
  <2>3. QED
    BY <2>1, <2>2 DEF Queue!QueueNext
<1>4. CASE \E j \in Jobs : DeleteLock(j)
  BY <1>4 DEF DeleteLock, LocksRespected
<1>5. QED
  BY <1>1, <1>2, <1>3, <1>4, WorkerRefines, DaemonRefines DEF Next, FaultStep

LEMMA InitRefines == Init => Queue!QueueInit
<1> SUFFICES ASSUME Init PROVE Queue!QueueInit
  OBVIOUS
<1>1. status \in [Ports -> (Status \ {"untested"}) \cup {"untested"}]
  BY DEF Init
<1>2. Taken = {} /\ pkg = {}
  BY DEF Init, Taken
<1>3. QED
  BY <1>1, <1>2 DEF Queue!QueueInit

(* On a cluster of any size, under every fault but a daemon told to stop    *)
(* and a lock deleted by hand, what the tables show is a queue of jobs: one *)
(* holder per job, and verdicts and packages from the holder of the build   *)
(* only.                                                                   *)
THEOREM ClusterIsQueue ==
  ASSUME LocksRespected
  PROVE  Spec => ImplementsQueue
<1>1. QueueInv /\ [Next]_vars => QueueInv'
  BY QueueInvStep
<1>2. QueueInv /\ [Next]_vars => [Queue!QueueNext]_(Queue!queue)
  BY StepRefines
<1>3. QED
  BY <1>1, <1>2, QueueInvInit, InitRefines, PTL DEF Spec, ImplementsQueue,
       Queue!QueueSpec
=============================================================================
