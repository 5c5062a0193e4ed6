--------------------------------- MODULE Magus ---------------------------------
(***************************************************************************)
(* The build cluster as a whole: the daemons, their workers and the        *)
(* administrator's web forms, over one database.                           *)
(***************************************************************************)
EXTENDS MagusSlave, MagusWorker

(* delete_lock.cgi removes any row, whoever works under it. *)
DeleteLock(j) ==
  /\ "unlock" \in Faults
  /\ j \in locks
  /\ locks' = locks \ {j}
  /\ Forget({k \in {j} : pc[k] = "orphan" /\ \A m \in Machines : cur[m] # k})
  /\ UNCHANGED <<status, phase, pkg, verdict, sig, daemons, admin>>

(* reset_port.cgi resets any port, whatever happens to it. *)
ResetPort(p) ==
  /\ "reset" \in Faults
  /\ admin = None
  /\ admin' = p
  /\ ResetPhases(p)
  /\ UNCHANGED <<status, pkg, locks, workers, daemons>>

ResetPortStatus ==
  /\ admin # None
  /\ admin' = None
  /\ SetStatus(admin, "untested")
  /\ UNCHANGED <<phase, pkg, locks, workers, daemons>>
-----------------------------------------------------------------------------
(* A run as Magus::Index->sync leaves it: an ignored port is skipped in all *)
(* its phases, and a port with a missing dependency has failed to build.   *)
Init ==
  /\ \E ignored \in SUBSET Ports :
       /\ status \in [Ports -> {"untested", "skip", "fail"}]
       /\ \A p \in Ports : status[p] = "skip" => p \in ignored
       /\ \A p \in ignored : status[p] # "untested"
       /\ phase = [p \in Ports |-> [ph \in Phase |->
                     IF ph = "build" THEN status[p]
                     ELSE IF p \in ignored THEN "skip" ELSE "untested"]]
  /\ pkg = {}
  /\ locks = {}
  /\ job = [j \in Jobs |-> NoRow]
  /\ pc = [j \in Jobs |-> "free"]
  /\ verdict = [j \in Jobs |-> None]
  /\ children = {}
  /\ sig = {}
  /\ at = [m \in Machines |-> "top"]
  /\ cand = [m \in Machines |-> None]
  /\ cur = [m \in Machines |-> None]
  /\ lost = [m \in Machines |-> 0]
  /\ admin = None

MainStep(m) ==
  \/ MainTop(m) \/ Select(m) \/ Nap(m) \/ Sleep(m) \/ Wake(m) \/ WakeLate(m)
  \/ InsertDuplicate(m) \/ Fork(m) \/ Record(m) \/ NoWorkerIds(m)
  \/ \E j \in Jobs : InsertLock(m, j) \/ Process(m, j)
  \/ ProcessReset(m) \/ ProcessResetStatus(m) \/ Unlock(m)

KillStep(m) ==
  \/ Signal(m) \/ KillWait(m) \/ WaitForever(m)
  \/ SweepReset(m) \/ SweepStatus(m) \/ SweepUnlock(m) \/ SweepDone(m)
  \/ \E j \in Jobs : SweepNext(m, j)

WorkStep(j) ==
  \/ Start(j) \/ PrepChroot(j) \/ Inject(j) \/ RecordPhase(j) \/ AfterMake(j)
  \/ UploadPkgfile(j) \/ UploadDistfiles(j) \/ Done(j) \/ SetInternal(j) \/ RecordInternal(j)
  \/ \E r \in Verdicts \cup {"internal"} : InsertResults(j, r)
  \/ \E r \in {"pass", "warn", "fail", "internal"} : RunScan(j, r)

SignalStep(j) == Interrupt(j) \/ InterruptReset(j) \/ InterruptStatus(j)

WorkerFault(j) == InnerLostDB(j) \/ InnerKilled(j) \/ Throw(j) \/ LostDB(j) \/ Killed(j)

DaemonFault(m) ==
  \/ ForkFail(m) \/ Oversleep(m) \/ DaemonLostDB(m) \/ Term(m) \/ Crash(m) \/ Restart(m)
  \/ \E j \in Jobs : DaemonLostInsert(m, j)

FaultStep ==
  \/ \E m \in Machines : DaemonFault(m)
  \/ \E j \in Jobs : WorkerFault(j) \/ DeleteLock(j)
  \/ \E p \in Ports : ResetPort(p)

Next ==
  \/ \E m \in Machines : MainStep(m) \/ KillStep(m)
  \/ \E j \in Jobs : WorkStep(j) \/ SignalStep(j)
  \/ ResetPortStatus
  \/ FaultStep

Spec == Init /\ [][Next]_vars

(* A daemon that can go on does, and so does a process.  main sleeps for a  *)
(* limited time, or until a worker exits; a sleep that missed the exit is   *)
(* ended by nothing.  A daemon that is down is started again, and the       *)
(* operator removes a lock whose worker is gone and nobody cleans up.      *)
Fairness ==
  /\ \A m \in Machines : WF_vars(MainStep(m)) /\ WF_vars(KillStep(m))
                         /\ WF_vars(Restart(m))
  /\ \A j \in Jobs : WF_vars(WorkStep(j)) /\ WF_vars(SignalStep(j))
                     /\ WF_vars(pc[j] = "orphan" /\ DeleteLock(j))
  /\ WF_vars(ResetPortStatus)

FairSpec == Spec /\ Fairness
-----------------------------------------------------------------------------
(* Safety. *)

(* Two worker processes never work on the same phase of the same port: the  *)
(* unique (port, phase) of the locks table, held from before the fork until *)
(* the daemon has buried the worker, keeps them apart.                     *)
MutualExclusion ==
  \A j, k \in Jobs :
    j # k /\ pc[j] \in Alive /\ pc[k] \in Alive
      => <<job[j].port, job[j].phase>> # <<job[k].port, job[k].phase>>

(* A port that built has everything it is installed with built as well, so  *)
(* the packages of a run can be installed together: ready_ports looks only  *)
(* at direct dependencies and once, before a build that may take hours.    *)
DependencyClosed ==
  \A p \in Ports : Built(p) => \A d \in build_depends_closure[p] : Built(d)

(* While make builds a port no dependency injected into its chroot is being *)
(* built again, loses its verdict or its package.                          *)
DependsStable ==
  \A j \in Jobs :
    pc[j] \in Making /\ job[j].phase = "build"
      => \A d \in build_depends_closure[job[j].port] :
            Built(d) /\ d \in pkg /\ ~Locked(d, "build")

(* inject_depends never finds that a port was scheduled too early: what     *)
(* ready_ports calls ready has all its dependencies built, and for each     *)
(* there is a package that can be installed.                               *)
ReadyInstallable ==
  \A j \in Jobs : pc[j] = "inject" /\ job[j].phase = "build" => Injectable(j)

(* Outside a build, ports.status and the build phase row, which are written *)
(* by two statements in several places, say the same.                      *)
BuildRowAgrees ==
  \A p \in Ports : ~Locked(p, "build") => phase[p]["build"] = status[p]

(* No fetch, test or scan is left 'running' once its lock is gone: it      *)
(* would never be ready again.                                             *)
RunningIsLocked ==
  \A p \in Ports, ph \in Phase \ {"build"} :
    phase[p][ph] = "running" => Locked(p, ph)

(* kill_children has waited for all the kids before it clears the locks. *)
KidsDeadBeforeSweep ==
  \A m \in Machines : at[m] \in Sweeping =>
    \A j \in Jobs : job[j].machine = m => pc[j] \notin Alive

(* kill_children clears the locks only when every worker it has sent a      *)
(* SIGINT is dead, in the handler of that signal or not.  A worker it did   *)
(* not know of, forked and not yet recorded when the daemon was told to     *)
(* stop (magus.pl:224), is not among them.                                 *)
ToldAreDead ==
  \A m \in Machines : at[m] \in Sweeping =>
    \A j \in Jobs : job[j].machine = m => j \notin sig /\ pc[j] \notin Stopping

(* Two workers that have their daemons never work on the same phase of the  *)
(* same port, however their daemons are stopped and started and whatever is *)
(* left behind: a worker without its daemon may keep working on a job whose *)
(* lock has been swept and taken again.                                    *)
ChildrenExclude ==
  \A j, k \in children :
    j # k /\ pc[j] \in Alive /\ pc[k] \in Alive
      => <<job[j].port, job[j].phase>> # <<job[k].port, job[k].phase>>

(* The jobs that are taken: the rows of the locks table. *)
Taken == {<<job[j].port, job[j].phase>> : j \in locks}

Queue == INSTANCE BuildQueue WITH
           Phases <- Phase, Results <- Status \ {"untested"}, taken <- Taken

(* The cluster is a queue of jobs: whatever its daemons, workers and faults *)
(* do, seen from the tables a job is taken by one lock at a time, and only  *)
(* the worker whose build lock is there changes the verdict of a port or    *)
(* uploads its package (Lock.pm, Worker.pm, Port.pm).                      *)
ImplementsQueue == Queue!QueueSpec
-----------------------------------------------------------------------------
(* Liveness. *)

(* A dependency can no longer be built, so the port never gets ready. *)
Blocked(p) == \E d \in build_depends_closure[p] :
                 status[d] \notin Passed \cup {"untested"}

Settled == \A p \in Ports : status[p] # "untested" \/ Blocked(p)

(* The two ways in which a daemon waits for what will not come: it lost the *)
(* wakeup of its last worker, or told a worker to stop that is reaped       *)
(* already (magus.pl:201, 386).                                            *)
Stuck(m) == at[m] = "overslept" \/ (at[m] = "kill" /\ ChildrenOf(m) = {})

(* After any number of faults, once they stop every port ends up tested, or *)
(* blocked by a dependency that failed (the whole loop of magus.pl), unless *)
(* a daemon is stuck.                                                      *)
SettlesAfterFaults ==
  \/ []<><<FaultStep>>_vars
  \/ <>[]Settled
  \/ \E m \in Machines : <>[]Stuck(m)

(* A daemon told to stop does stop, once it sweeps or has signalled its      *)
(* workers, unless the last one was reaped between the test of $Children    *)
(* and the loop that waits: then it is stuck.                              *)
StopsWhenTold ==
  \A m \in Machines :
    at[m] \in Sweeping \/ (at[m] = "kill" /\ ~Stuck(m)) ~> at[m] = "down"
=============================================================================
