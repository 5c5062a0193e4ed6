---------------------------- MODULE MagusDependProofs ----------------------------
(***************************************************************************)
(* What a run of one build machine guarantees about dependencies, for any  *)
(* ports and dependencies, any number of workers and any mix of failing    *)
(* statements, processes and crashes.                                      *)
(***************************************************************************)
EXTENDS MagusProofs

USE DEF Phase, Passed, Status, Making, Busy, Stopping, Alive, Dead, WorkerPC,
        Claiming, Asleep, Reaping, Killing, Sweeping, DaemonPC, Row, NoRow

(* The least closed set is inside every closed set that has its roots. *)
LEMMA ClosureLeast ==
  ASSUME NEW R, NEW types, NEW S \in SUBSET Ports,
         R \subseteq S, IsClosed(S, types)
  PROVE  Closure(R, types) \subseteq S
  BY DEF Closure

(* What is solid has solid dependencies, so everything below a port with    *)
(* solid dependencies is solid.                                            *)
LEMMA ClosureSolid ==
  ASSUME BuiltOnSolid, NEW p \in Ports, Built(p) \/ Held(p)
  PROVE  \A d \in build_depends_closure[p] : Solid(d)
<1> DEFINE S == {x \in Ports : Solid(x)}
<1>1. DependsOf(p, InstallType) \subseteq S
  BY DEF BuiltOnSolid, DependsSolid, DependsOf
<1>2. IsClosed(S, InstallType)
  BY DEF IsClosed, BuiltOnSolid, DependsSolid, DependsOf, Solid
<1>3. Closure(DependsOf(p, InstallType), InstallType) \subseteq S
  BY <1>1, <1>2, ClosureLeast
<1>4. QED
  BY <1>3 DEF build_depends_closure

(* A step after which no port is newly built or being built, and that does  *)
(* not touch a solid one.                                                  *)
Calm ==
  \A p \in Ports : /\ Built(p)' \/ Held(p)' => Built(p) \/ Held(p)
                   /\ Solid(p) => Solid(p)'

LEMMA CalmKeeps ==
  ASSUME Calm, BuiltOnSolid
  PROVE  BuiltOnSolid'
  BY DEF Calm, BuiltOnSolid, DependsSolid, DependsOf

LEMMA CalmKeepsCand ==
  ASSUME Calm, CandSolid, NEW m \in Machines, OneMachine,
         at'[m] = "insert" => at[m] = "insert" /\ cand'[m] = cand[m]
  PROVE  CandSolid'
<1> SUFFICES ASSUME NEW p \in Ports, at'[m] = "insert", cand'[m] = <<p, "build">>
             PROVE  ~Built(p)' /\ ~Held(p)' /\ DependsSolid(p)'
  BY DEF CandSolid, OneMachine
<1>1. ~Built(p) /\ ~Held(p) /\ DependsSolid(p)
  BY DEF CandSolid
<1>2. QED
  BY <1>1 DEF Calm, DependsSolid, DependsOf

(* A step is calm when it writes ports.status only for a port that is held, *)
(* and nobody becomes a holder.                                            *)
LEMMA CalmStep ==
  ASSUME \A p \in Ports : Held(p)' => Held(p),
         \/ status' = status
         \/ \E q \in Ports, s \in Status :
              Held(q) /\ Held(q)' /\ status' = [status EXCEPT ![q] = s],
         TypeOK
  PROVE  Calm
<1>1. CASE status' = status
  BY <1>1 DEF Calm, Built, Solid
<1>2. CASE \E q \in Ports, s \in Status :
              Held(q) /\ Held(q)' /\ status' = [status EXCEPT ![q] = s]
  BY <1>2 DEF Calm, Built, Solid, TypeOK
<1>3. QED
  BY <1>1, <1>2

(* Who holds a port, in terms of the rows. *)
LEMMA HeldKept ==
  ASSUME \A k \in Jobs : k \in locks' \/ pc'[k] = "dead6"
            => (k \in locks \/ pc[k] = "dead6") /\ job'[k] = job[k]
  PROVE  \A p \in Ports : Held(p)' => Held(p)
  BY DEF Held
-----------------------------------------------------------------------------
(* Workers. *)

(* make is entered only with every dependency injected. *)
LEMMA WorkerMakes ==
  ASSUME TypeInv, NEW j \in Jobs, pc'[j] \in Making, PhaseOf(j) = "build",
         WorkStep(j) \/ SignalStep(j) \/ WorkerFault(j)
  PROVE  pc[j] \in Making \/ build_depends_closure[Port(j)] \subseteq pkg
<1> USE DEF TypeInv, TypeOK, Go, WStep
<1>1. CASE Inject(j)
  BY <1>1 DEF Inject, Injectable, ToInject
<1>2. CASE Done(j) \/ LostDB(j) \/ Killed(j) \/ RecordInternal(j) \/ InterruptStatus(j)
  BY <1>2, ExitEffect DEF Done, LostDB, Killed, RecordInternal, InterruptStatus
<1>3. CASE Interrupt(j)
  BY <1>3, ExitEffect DEF Interrupt
<1>4. CASE SetInternal(j)
  BY <1>4, ExitEffect DEF SetInternal
<1>5. CASE Start(j) \/ PrepChroot(j) \/ RecordPhase(j) \/ AfterMake(j) \/ UploadPkgfile(j)
           \/ UploadDistfiles(j)
  BY <1>5 DEF Start, PrepChroot, RecordPhase, AfterMake, UploadPkgfile, UploadDistfiles
<1>6. CASE InnerLostDB(j) \/ InnerKilled(j) \/ Throw(j) \/ InterruptReset(j)
  BY <1>6 DEF InnerLostDB, InnerKilled, Throw, InterruptReset
<1>7. CASE \E r \in Verdicts \cup {"internal"} : InsertResults(j, r)
  BY <1>7 DEF InsertResults
<1>8. CASE \E r \in {"pass", "warn", "fail", "internal"} : RunScan(j, r)
  BY <1>8 DEF RunScan
<1>9. QED
  BY <1>1, <1>2, <1>3, <1>4, <1>5, <1>6, <1>7, <1>8 DEF WorkStep, SignalStep,
       WorkerFault

LEMMA WorkerDependInv ==
  ASSUME OneMachine, DependInv, NEW j \in Jobs,
         WorkStep(j) \/ SignalStep(j) \/ WorkerFault(j)
  PROVE  /\ admin' = None
         /\ BuiltOnSolid' /\ CandSolid' /\ DeadOK' /\ InjectedKept'
<1>1. /\ TypeInv /\ WorkerFrame(j)
      /\ BuiltOnSolid /\ CandSolid /\ DeadOK /\ InjectedKept /\ admin = None
  BY WorkerFrameHolds DEF DependInv, LockInv
<1>2. /\ j \in locks /\ locks' = locks /\ UNCHANGED <<daemons, admin>>
      /\ pc[j] \in Alive \ Stopping /\ pc'[j] # "free"
      /\ \A k \in Jobs : job'[k] = job[k]
      /\ \A k \in Jobs : k # j => pc'[k] = pc[k]
      /\ pkg \subseteq pkg'
  BY <1>1 DEF DependInv, LockInv, NeverTold, RowsKept, WorkerFrame
<1>3. \A p \in Ports : Held(p)' => Held(p)
  BY <1>1, <1>2, HeldKept DEF TypeInv, TypeOK
<1>4. \/ status' = status
      \/ \E q \in Ports, s \in Status :
           Held(q) /\ Held(q)' /\ status' = [status EXCEPT ![q] = s]
  <2>1. PICK q \in Ports : q = Port(j)
    BY <1>1, <1>2 DEF TypeInv, TypeOK, RefsOK, Port
  <2>2. PhaseOf(j) = "build" => Held(q) /\ Held(q)'
    BY <1>2, <2>1 DEF Held, Port, PhaseOf
  <2>3. \/ status' = status
        \/ /\ PhaseOf(j) = "build"
           /\ \E s \in Status : status' = [status EXCEPT ![q] = s]
    BY <1>1, <1>2, <2>1 DEF WorkerFrame
  <2>4. QED
    BY <2>1, <2>2, <2>3
<1>5. Calm
  BY <1>1, <1>3, <1>4, CalmStep DEF TypeInv
<1>6. BuiltOnSolid'
  BY <1>1, <1>5, CalmKeeps
<1>7. CandSolid'
  <2>1. at' = at /\ cand' = cand
    BY <1>2 DEF daemons
  <2>2. CASE Machines = {}
    BY <2>2 DEF CandSolid
  <2>3. CASE Machines # {}
    BY <2>1, <2>3, <1>1, <1>5, CalmKeepsCand
  <2>4. QED
    BY <2>2, <2>3
<1>8. DeadOK'
  BY <1>1, <1>2 DEF DeadOK, WorkerFrame, CurOK, TypeInv, TypeOK, daemons
<1>9. InjectedKept'
  <2>1. pc'[j] \in Making /\ job[j].phase = "build"
          => build_depends_closure[job[j].port] \subseteq pkg
    BY <1>1, WorkerMakes DEF InjectedKept, Port, PhaseOf
  <2>2. QED
    BY <1>1, <1>2, <2>1 DEF InjectedKept
<1>10. QED
  BY <1>1, <1>2, <1>6, <1>7, <1>8, <1>9
-----------------------------------------------------------------------------
(* Daemons. *)

(* While the daemon looks for work, who holds a port has its lock. *)
LEMMA HeldIsLocked ==
  ASSUME DeadOK, NEW m \in Machines, at[m] \notin {"top"} \cup Reaping,
         NEW p \in Ports, ~Locked(p, "build")
  PROVE  ~Held(p)
  BY DEF DeadOK, Held, Locked

(* The daemon's steps that neither insert a row nor select a port. *)
QuietStep(m) ==
  \/ IdleStep(m) \/ Record(m) \/ InsertDuplicate(m) \/ Restart(m) \/ Fork(m)
  \/ NoWorkerIds(m) \/ ForkFail(m) \/ DaemonLostDB(m) \/ Crash(m)
  \/ ProcessReset(m) \/ ProcessResetStatus(m) \/ Unlock(m)
  \/ \E j \in Jobs : Process(m, j)

LEMMA QuietRows ==
  ASSUME LockInv, NEW m \in Machines, QuietStep(m)
  PROVE  \A k \in Jobs : k \in locks' \/ pc'[k] = "dead6"
            => (k \in locks \/ pc[k] = "dead6") /\ job'[k] = job[k]
<1> USE DEF LockInv, TypeInv, TypeOK, CurOK, RowsKept, db, workers, daemons, Step, Go
<1>1. CASE IdleStep(m) \/ Record(m) \/ InsertDuplicate(m) \/ Restart(m)
           \/ ProcessReset(m) \/ ProcessResetStatus(m) \/ \E j \in Jobs : Process(m, j)
  <2>1. UNCHANGED <<locks, job, pc>>
    BY <1>1 DEF IdleStep, MainTop, Nap, Sleep, Wake, WakeLate, Oversleep, Record,
                InsertDuplicate, Restart, ProcessReset, ProcessResetStatus, Process
  <2>2. QED
    BY <2>1
<1>2. CASE Fork(m)
  BY <1>2 DEF Fork
<1>3. CASE NoWorkerIds(m) \/ ForkFail(m)
  BY <1>3 DEF NoWorkerIds, ForkFail, LoseLock, Abandon
<1>4. CASE DaemonLostDB(m)
  BY <1>4 DEF DaemonLostDB
<1>5. CASE Crash(m)
  BY <1>5 DEF Crash, Abandon
<1>6. CASE Unlock(m)
  BY <1>6 DEF Unlock, Forget
<1>7. QED
  BY <1>1, <1>2, <1>3, <1>4, <1>5, <1>6 DEF QuietStep

LEMMA QuietHolders ==
  ASSUME LockInv, NEW m \in Machines, QuietStep(m)
  PROVE  \A p \in Ports : Held(p)' => Held(p)
  BY QuietRows, HeldKept

LEMMA QuietCalm ==
  ASSUME LockInv, DeadOK, NEW m \in Machines, QuietStep(m)
  PROVE  Calm
<1>1. \A p \in Ports : Held(p)' => Held(p)
  BY QuietHolders
<1>2. CASE ProcessResetStatus(m)
  <2>1. /\ at[m] = "resetStatus" /\ UNCHANGED <<locks, job, pc>>
        /\ status' = [status EXCEPT ![job[cur[m]].port] = "untested"]
    BY <1>2 DEF ProcessResetStatus, SetStatus, Step, workers
  <2>2. cur[m] \in Jobs /\ pc[cur[m]] = "dead6" /\ job[cur[m]].phase = "build"
    BY <2>1 DEF DeadOK, LockInv, TypeInv, CurOK
  <2>3. PICK q \in Ports : q = job[cur[m]].port
    BY <2>2 DEF LockInv, TypeInv, TypeOK, RefsOK
  <2>4. Held(q) /\ Held(q)'
    BY <2>1, <2>2, <2>3 DEF Held
  <2>5. QED
    BY <1>1, <2>1, <2>3, <2>4, CalmStep DEF LockInv, TypeInv
<1>3. CASE ~ProcessResetStatus(m)
  <2>1. status' = status
    BY <1>3 DEF QuietStep, IdleStep, MainTop, Nap, Sleep, Wake, WakeLate, Oversleep,
                Record, InsertDuplicate, Restart, Fork, NoWorkerIds, ForkFail, LoseLock,
                DaemonLostDB, Crash, ProcessReset, Unlock, Process, db, workers
  <2>2. QED
    BY <1>1, <2>1, CalmStep DEF LockInv, TypeInv
<1>4. QED
  BY <1>2, <1>3

(* With one machine, a daemon that found no corpse has no dead worker at    *)
(* all, and a crash leaves none.                                           *)
LEMMA QuietDeadOK ==
  ASSUME OneMachine, LockInv, DeadOK, NEW m \in Machines, QuietStep(m)
  PROVE  DeadOK'
<1> USE DEF LockInv, TypeInv, TypeOK, CurOK, RowsKept, DeadOK, db, workers, daemons,
        Step, Go
<1>1. \A k \in Jobs : pc[k] \in Dead => job[k].machine = m
  BY DEF RefsOK, OneMachine
<1>2. \A n \in Machines : n = m
  BY DEF OneMachine
<1>3. CASE MainTop(m)
  BY <1>1, <1>2, <1>3 DEF MainTop, Corpses, ChildrenOf
<1>4. CASE \/ Nap(m) \/ Sleep(m) \/ Wake(m) \/ WakeLate(m) \/ Oversleep(m)
           \/ Record(m) \/ InsertDuplicate(m) \/ Restart(m)
  BY <1>2, <1>4 DEF Nap, Sleep, Wake, WakeLate, Oversleep, Record, InsertDuplicate,
                    Restart
<1>5. CASE Fork(m)
  BY <1>2, <1>5 DEF Fork
<1>6. CASE NoWorkerIds(m) \/ ForkFail(m)
  BY <1>2, <1>6 DEF NoWorkerIds, ForkFail, LoseLock, Abandon
<1>7. CASE DaemonLostDB(m)
  BY <1>2, <1>7 DEF DaemonLostDB
<1>8. CASE Crash(m)
  BY <1>1, <1>2, <1>8 DEF Crash, Abandon
<1>9. CASE ProcessReset(m) \/ ProcessResetStatus(m)
  BY <1>2, <1>9 DEF ProcessReset, ProcessResetStatus
<1>10. CASE Unlock(m)
  BY <1>2, <1>10 DEF Unlock, Forget
<1>11. ASSUME NEW j \in Jobs, Process(m, j) PROVE DeadOK'
  BY <1>2, <1>11 DEF Process
<1>12. QED
  BY <1>3, <1>4, <1>5, <1>6, <1>7, <1>8, <1>9, <1>10, <1>11 DEF QuietStep, IdleStep

LEMMA QuietInjected ==
  ASSUME LockInv, InjectedKept, NEW m \in Machines, QuietStep(m)
  PROVE  InjectedKept'
<1> USE DEF LockInv, TypeInv, TypeOK, CurOK, db, workers, daemons, Step, Go
<1>1. pkg' = pkg
  BY DEF QuietStep, IdleStep, MainTop, Nap, Sleep, Wake, WakeLate, Oversleep, Record,
         InsertDuplicate, Restart, Fork, NoWorkerIds, ForkFail, LoseLock, DaemonLostDB,
         Crash, ProcessReset, ProcessResetStatus, Unlock, Process
<1>2. \A k \in Jobs : pc'[k] \in Making => pc[k] \in Making /\ job'[k] = job[k]
  <2>1. CASE UNCHANGED <<pc, job>>
    BY <2>1
  <2>2. CASE Fork(m)
    BY <2>2 DEF Fork
  <2>3. CASE NoWorkerIds(m) \/ ForkFail(m)
    BY <2>3 DEF NoWorkerIds, ForkFail, LoseLock, Abandon
  <2>4. CASE Crash(m)
    BY <2>4 DEF Crash, Abandon
  <2>5. CASE Unlock(m)
    BY <2>5 DEF Unlock, Forget
  <2>6. QED
    BY <2>1, <2>2, <2>3, <2>4, <2>5
       DEF QuietStep, IdleStep, MainTop, Nap, Sleep, Wake, WakeLate, Oversleep, Record,
           InsertDuplicate, Restart, DaemonLostDB, ProcessReset, ProcessResetStatus,
           Process
<1>3. QED
  BY <1>1, <1>2 DEF InjectedKept

(* A ready port is selected: it is not built, nobody holds it, and its      *)
(* dependencies are solid.                                                 *)
LEMMA SelectDependInv ==
  ASSUME OneMachine, DependInv, NEW m \in Machines, Select(m)
  PROVE  BuiltOnSolid' /\ CandSolid' /\ DeadOK' /\ InjectedKept'
<1>1. /\ at[m] = "fill" /\ at' = [at EXCEPT ![m] = "insert"]
      /\ UNCHANGED <<status, pkg, locks, job, pc, children, cur>>
  BY DEF Select, Step, db, workers
<1>2. \A n \in Machines : n = m
  BY DEF OneMachine
<1>3. BuiltOnSolid'
  BY <1>1 DEF DependInv, BuiltOnSolid, DependsSolid, Solid, Held, Built
<1>4. DeadOK'
  BY <1>1, <1>2 DEF DependInv, DeadOK, LockInv, TypeInv, TypeOK
<1>5. InjectedKept'
  BY <1>1 DEF DependInv, InjectedKept
<1>6. ASSUME NEW p \in Ports, cand'[m] = <<p, "build">>
      PROVE  ~Built(p) /\ ~Held(p) /\ DependsSolid(p)
  <2>1. ReadyBuild(p)
    <3>1. PICK i \in DOMAIN WorkerPhases : \E q \in ReadyPorts(WorkerPhases[i]) :
            cand' = [cand EXCEPT ![m] = <<q, WorkerPhases[i]>>]
      BY DEF Select
    <3>2. p \in ReadyPorts("build")
      BY <1>6, <3>1 DEF DependInv, LockInv, TypeInv, TypeOK
    <3>3. QED
      BY <3>2 DEF ReadyPorts, Ready
  <2>2. DeadOK /\ at[m] \notin {"top"} \cup Reaping
    BY <1>1 DEF DependInv
  <2>3. ~Built(p) /\ ~Held(p)
    BY <2>1, <2>2, HeldIsLocked DEF ReadyBuild, Built
  <2>4. ASSUME NEW d \in DependsOf(p, InstallType) PROVE Solid(d)
    BY <2>1, <2>2, HeldIsLocked DEF ReadyBuild, DependsReady, Solid, DependsOf
  <2>5. QED
    BY <2>3, <2>4 DEF DependsSolid
<1>7. CandSolid'
  <2>1. \A p \in Ports : (Built(p)' <=> Built(p)) /\ (Held(p)' <=> Held(p))
                          /\ (DependsSolid(p)' <=> DependsSolid(p))
    BY <1>1 DEF Built, Held, DependsSolid, Solid
  <2>2. QED
    BY <1>2, <1>6, <2>1 DEF CandSolid
<1>8. QED
  BY <1>3, <1>4, <1>5, <1>7

(* The row is inserted: nothing built or being built stands on a port that  *)
(* was not built.                                                          *)
LEMMA InsertDependInv ==
  ASSUME OneMachine, DependInv, NEW m \in Machines, NEW j \in Jobs,
         InsertLock(m, j) \/ DaemonLostInsert(m, j)
  PROVE  BuiltOnSolid' /\ CandSolid' /\ DeadOK' /\ InjectedKept'
<1>1. /\ at[m] = "insert" /\ pc[j] = "free" /\ locks' = locks \cup {j}
      /\ job' = [job EXCEPT ![j] = [port |-> cand[m][1], phase |-> cand[m][2],
                                    machine |-> m]]
      /\ \E to \in {"new", "orphan"} : pc' = [pc EXCEPT ![j] = to]
      /\ \E to \in {"fork", "top"} : at' = [at EXCEPT ![m] = to]
      /\ UNCHANGED <<status, pkg, children>>
  BY DEF InsertLock, DaemonLostInsert, InsertRow, Step, Go
<1>2. \A n \in Machines : n = m
  BY DEF OneMachine
<1>3. PICK p \in Ports, ph \in Phase : cand[m] = <<p, ph>>
  BY <1>1 DEF DependInv, LockInv, TypeInv, TypeOK, RefsOK
<1>4. j \notin locks
  BY <1>1 DEF DependInv, LockInv, RowsKept
<1>5. job'[j].port = p /\ job'[j].phase = ph
  BY <1>1, <1>3 DEF DependInv, LockInv, TypeInv, TypeOK
<1>6. /\ pc'[j] \in {"new", "orphan"}
      /\ \A k \in Jobs : k # j => pc'[k] = pc[k] /\ job'[k] = job[k]
  BY <1>1 DEF DependInv, LockInv, TypeInv, TypeOK
<1>7. \A q \in Ports : Held(q)' => Held(q) \/ (q = p /\ ph = "build")
  BY <1>1, <1>4, <1>5, <1>6 DEF Held
<1>8. ph = "build" => ~Built(p) /\ DependsSolid(p)
  BY <1>1, <1>3 DEF DependInv, CandSolid
<1>9. \A q \in Ports : Solid(q) => Solid(q)'
  BY <1>1, <1>7, <1>8 DEF Solid, Built
<1>10. BuiltOnSolid'
  <2>1. \A q \in Ports : Built(q)' \/ Held(q)' => DependsSolid(q)
    BY <1>1, <1>7, <1>8 DEF DependInv, BuiltOnSolid, Built
  <2>2. QED
    BY <2>1, <1>9 DEF BuiltOnSolid, DependsSolid, DependsOf
<1>11. CandSolid'
  BY <1>1, <1>2 DEF CandSolid, DependInv, LockInv, TypeInv, TypeOK
<1>12. DeadOK'
  BY <1>1, <1>2, <1>6 DEF DeadOK, DependInv, LockInv, TypeInv, TypeOK
<1>13. InjectedKept'
  BY <1>1, <1>6 DEF InjectedKept, DependInv
<1>14. QED
  BY <1>10, <1>11, <1>12, <1>13

LEMMA DaemonDependInv ==
  ASSUME OneMachine, PortsRespected, DependInv, NEW m \in Machines,
         MainStep(m) \/ KillStep(m) \/ DaemonFault(m)
  PROVE  BuiltOnSolid' /\ CandSolid' /\ DeadOK' /\ InjectedKept'
<1>1. CASE QuietStep(m)
  <2>1. Calm /\ DeadOK' /\ InjectedKept'
    BY <1>1, QuietCalm, QuietDeadOK, QuietInjected DEF DependInv
  <2>2. BuiltOnSolid'
    BY <2>1, CalmKeeps DEF DependInv
  <2>3. at'[m] # "insert"
    <3>1. at \in [Machines -> DaemonPC]
      BY DEF DependInv, LockInv, TypeInv, TypeOK
    <3>2. QED
      BY <1>1, <3>1 DEF QuietStep, IdleStep, MainTop, Nap, Sleep, Wake, WakeLate,
                        Oversleep, Record, InsertDuplicate, Restart, Fork, NoWorkerIds,
                        ForkFail, LoseLock, DaemonLostDB, Crash, ProcessReset,
                        ProcessResetStatus, Unlock, Process, Step
  <2>4. CandSolid'
    BY <2>1, <2>3, CalmKeepsCand DEF DependInv
  <2>5. QED
    BY <2>1, <2>2, <2>4
<1>2. CASE Select(m)
  BY <1>2, SelectDependInv
<1>3. ASSUME NEW j \in Jobs, InsertLock(m, j) \/ DaemonLostInsert(m, j)
      PROVE  BuiltOnSolid' /\ CandSolid' /\ DeadOK' /\ InjectedKept'
  BY <1>3, InsertDependInv
<1>4. ~KillStep(m)
  BY DEF DependInv, LockInv, NeverTold, KillStep, Signal, KillWait, WaitForever,
         SweepNext, SweepReset, SweepStatus, SweepUnlock, SweepDone, Step
<1>5. ~Term(m)
  BY DEF Term, PortsRespected, LocksRespected
<1>6. QED
  BY <1>1, <1>2, <1>3, <1>4, <1>5 DEF MainStep, DaemonFault, QuietStep, IdleStep
-----------------------------------------------------------------------------
LEMMA DependInvStep ==
  ASSUME OneMachine, PortsRespected
  PROVE  DependInv /\ [Next]_vars => DependInv'
<1> SUFFICES ASSUME DependInv, [Next]_vars PROVE DependInv'
  OBVIOUS
<1>1. LockInv'
  BY LockInvStep DEF DependInv, PortsRespected
<1> DEFINE Goal == admin' = None /\ BuiltOnSolid' /\ CandSolid' /\ DeadOK' /\ InjectedKept'
<1>2. Goal
  <2>1. CASE UNCHANGED vars
    BY <2>1 DEF DependInv, BuiltOnSolid, CandSolid, DeadOK, InjectedKept, DependsSolid,
                Solid, Held, Built, vars, db, workers, daemons
  <2>2. ASSUME NEW m \in Machines, MainStep(m) \/ KillStep(m) \/ DaemonFault(m)
        PROVE  Goal
    <3>1. admin' = admin
      BY <2>2 DEF MainStep, KillStep, DaemonFault, IdleStep, MainTop, Nap, Sleep, Wake,
                  WakeLate, Oversleep, Record, Select, InsertDuplicate, Fork,
                  NoWorkerIds, LoseLock, InsertLock, InsertRow, Process, ProcessReset,
                  ProcessResetStatus, Unlock, Signal, KillWait, WaitForever, vars,
                  SweepNext, SweepReset, SweepStatus, SweepUnlock, SweepDone, ForkFail,
                  DaemonLostDB, DaemonLostInsert, Term, Crash, Restart
    <3>2. QED
      BY <2>2, <3>1, DaemonDependInv DEF DependInv
  <2>3. ASSUME NEW j \in Jobs, WorkStep(j) \/ SignalStep(j) \/ WorkerFault(j)
        PROVE  Goal
    BY <2>3, WorkerDependInv
  <2>4. ~(\E p \in Ports : ResetPort(p)) /\ ~ResetPortStatus
    BY DEF ResetPort, ResetPortStatus, PortsRespected, DependInv
  <2>5. ~(\E j \in Jobs : DeleteLock(j))
    BY DEF DeleteLock, PortsRespected, LocksRespected
  <2>6. QED
    BY <2>1, <2>2, <2>3, <2>4, <2>5 DEF Next, FaultStep
<1>3. QED
  BY <1>1, <1>2 DEF DependInv

LEMMA DependInvInit == Init => DependInv
<1> SUFFICES ASSUME Init PROVE DependInv
  OBVIOUS
<1>1. LockInv /\ admin = None
  BY LockInvInit DEF Init
<1>2. \A p \in Ports : ~Built(p) /\ ~Held(p)
  BY DEF Init, Built, Held
<1>3. BuiltOnSolid /\ CandSolid
  BY <1>2 DEF Init, BuiltOnSolid, CandSolid
<1>4. DeadOK /\ InjectedKept
  BY DEF Init, DeadOK, InjectedKept
<1>5. QED
  BY <1>1, <1>3, <1>4 DEF DependInv

LEMMA DependInvCloses == DependInv => DependencyClosed
  BY ClosureSolid DEF DependInv, DependencyClosed, Solid

LEMMA DependInvStable == DependInv => DependsStable
<1> SUFFICES ASSUME DependInv, NEW j \in Jobs, pc[j] \in Making, job[j].phase = "build",
                    NEW d \in build_depends_closure[job[j].port]
             PROVE  Built(d) /\ d \in pkg /\ ~Locked(d, "build")
  BY DEF DependsStable
<1>1. j \in locks /\ job[j].port \in Ports
  BY DEF DependInv, LockInv, RowsKept, TypeInv, TypeOK, RefsOK
<1>2. Held(job[j].port)
  BY <1>1 DEF Held
<1>3. Solid(d)
  BY <1>1, <1>2, ClosureSolid DEF DependInv
<1>4. ~Locked(d, "build")
  BY <1>3 DEF Solid, Held, Locked, DependInv, LockInv, TypeInv, TypeOK
<1>5. d \in pkg
  BY DEF DependInv, InjectedKept
<1>6. QED
  BY <1>3, <1>4, <1>5 DEF Solid

(* On one build machine, whatever the dependencies and whichever statements *)
(* and processes fail, a port that built has all that it is installed with  *)
(* built: looking at the direct dependencies only is enough.               *)
THEOREM BuiltIsClosed ==
  ASSUME OneMachine, PortsRespected
  PROVE  Spec => []DependencyClosed
<1>1. DependInv /\ [Next]_vars => DependInv'
  BY DependInvStep
<1>2. QED
  BY <1>1, DependInvInit, DependInvCloses, PTL DEF Spec

(* There, no dependency of a build is rebuilt, reset or loses its package   *)
(* while make runs, although the lock is on the port alone.                *)
THEOREM BuildIsStable ==
  ASSUME OneMachine, PortsRespected
  PROVE  Spec => []DependsStable
<1>1. DependInv /\ [Next]_vars => DependInv'
  BY DependInvStep
<1>2. QED
  BY <1>1, DependInvInit, DependInvStable, PTL DEF Spec
=============================================================================
