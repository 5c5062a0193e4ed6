-------------------------------- MODULE MagusInv --------------------------------
(***************************************************************************)
(* The inductive invariants behind the theorems about the cluster, stated  *)
(* here so that TLC evaluates them as well.                                *)
(***************************************************************************)
EXTENDS Magus

(* The lock a daemon handles is its own, and stays as it found it. *)
CurOK ==
  \A m \in Machines :
    /\ at[m] \in Reaping => /\ cur[m] \in Jobs
                            /\ pc[cur[m]] \in Dead
                            /\ job[cur[m]].machine = m
    /\ at[m] = "fork" => /\ cur[m] \in Jobs
                         /\ pc[cur[m]] = "new"
                         /\ job[cur[m]].machine = m
    /\ at[m] \notin Reaping \cup (Sweeping \ {"sweep"}) \cup {"fork", "forked"}
         => cur[m] = None

(* What a process is about to use, it has. *)
RefsOK ==
  /\ \A m \in Machines : at[m] = "insert" => cand[m] # None
  /\ \A j \in Jobs : pc[j] = "record" => verdict[j] # None
  /\ \A j \in Jobs : pc[j] \in Alive \cup Dead \cup {"new"} => job[j] # NoRow

TypeInv == TypeOK /\ RefsOK /\ CurOK

(* What any step of a worker may do: it writes the database but leaves the  *)
(* locks and the daemons alone, and ports.status only for a build.         *)
WorkerFrame(j) ==
  /\ pc[j] \in Alive
  /\ pc' \in [Jobs -> WorkerPC] /\ job' \in [Jobs -> Row \cup {NoRow}]
  /\ UNCHANGED <<locks, daemons, admin>>
  /\ \A k \in Jobs : k # j => pc'[k] = pc[k] /\ job'[k] = job[k]
  /\ pc'[j] \in Alive \cup Dead \cup {"orphan", "free"}
  /\ pc'[j] # "free" => job'[j] = job[j]
  /\ pc'[j] \in Dead => j \in children
  /\ pc'[j] = "orphan" => j \in locks \ children
  /\ pc'[j] = "free" => j \notin locks \cup children /\ job'[j] = NoRow
  /\ pc'[j] \notin Alive => j \notin sig'
  /\ pc'[j] \in Stopping => pc[j] \in Stopping \/ j \in sig
  /\ sig' \subseteq sig
  /\ pkg \subseteq pkg'
  /\ \/ status' = status
     \/ /\ PhaseOf(j) = "build" \/ pc[j] \in Stopping
        /\ \E s \in Status : status' = [status EXCEPT ![Port(j)] = s]
-----------------------------------------------------------------------------
(* Faults that respect the locks: no daemon is told to stop and nobody      *)
(* deletes locks by hand.                                                  *)
LocksRespected == Faults \cap {"term", "unlock"} = {}

(* Nothing of kill_children happens. *)
NeverTold ==
  /\ sig = {}
  /\ \A m \in Machines : at[m] \notin Sweeping \cup Killing
  /\ \A j \in Jobs : pc[j] \notin Stopping

(* A worker, a lock about to get one and a lock that lost its own have rows, *)
(* and a row is somebody's.                                                *)
RowsKept ==
  /\ \A j \in Jobs : pc[j] \in Alive \cup {"new", "orphan"} => j \in locks
  /\ \A j \in locks : pc[j] # "free"

UniqueRows ==
  \A j, k \in locks :
    job[j].port = job[k].port /\ job[j].phase = job[k].phase => j = k

LockInv == TypeInv /\ NeverTold /\ RowsKept /\ UniqueRows

(* Only a build uploads a package. *)
BuildUploads == \A j \in Jobs : pc[j] = "upload" => job[j].phase = "build"

QueueInv == LockInv /\ BuildUploads
-----------------------------------------------------------------------------
(* One machine, and no port is reset by hand either. *)
OneMachine == \A m, n \in Machines : m = n
PortsRespected == LocksRespected /\ "reset" \notin Faults

(* Somebody may still write ports.status of p: there is a build lock, or a  *)
(* worker that lost the database and whose port has not been reset for good.*)
Held(p) == \E j \in Jobs : /\ job[j].port = p
                           /\ job[j].phase = "build"
                           /\ j \in locks \/ pc[j] = "dead6"

Solid(d) == Built(d) /\ ~Held(d)

DependsSolid(p) == \A d \in DependsOf(p, InstallType) : Solid(d)

(* What is built, or being built, stands on dependencies nobody touches. *)
BuiltOnSolid == \A p \in Ports : Built(p) \/ Held(p) => DependsSolid(p)

(* A port found ready to build still is when its lock is inserted. *)
CandSolid ==
  \A m \in Machines, p \in Ports :
    at[m] = "insert" /\ cand[m] = <<p, "build">>
      => ~Built(p) /\ ~Held(p) /\ DependsSolid(p)

(* The daemon looks for work only when each dead worker still has its row. *)
DeadOK ==
  /\ \A j \in Jobs : pc[j] \in Dead => j \in children
  /\ \A m \in Machines, j \in Jobs :
       pc[j] = "dead6" /\ at[m] \notin {"top"} \cup Reaping => j \in locks
  /\ \A m \in Machines :
       at[m] \in {"reset", "resetStatus"}
         => pc[cur[m]] = "dead6" /\ job[cur[m]].phase = "build"

InjectedKept ==
  \A j \in Jobs : pc[j] \in Making /\ job[j].phase = "build"
                     => build_depends_closure[job[j].port] \subseteq pkg

DependInv ==
  /\ LockInv /\ admin = None
  /\ BuiltOnSolid /\ CandSolid /\ DeadOK /\ InjectedKept
-----------------------------------------------------------------------------
(* A worker that is to write a given row has that job. *)
OwnRow ==
  \A j \in Jobs :
    /\ pc[j] \in {"record", "exceptRecord"} => job[j].phase = "build"
    /\ pc[j] = "scan" => job[j].phase = "scan"

(* Faults that let every statement of a worker go through: no lost          *)
(* database and no killed worker.                                          *)
StatementsHold == LocksRespected /\ Faults \cap {"db", "kill"} = {}

(* A worker is past its last write of the tables. *)
Written == {"made", "upload", "uploadDist", "done", "dead0"}

(* No worker exits with code 6, after which the daemon resets its port. *)
NoneLost ==
  /\ \A j \in Jobs : pc[j] # "dead6"
  /\ \A m \in Machines : at[m] \notin {"reset", "resetStatus"}

(* A phase that is running has a lock, and the worker of that lock has yet  *)
(* to write its verdict.                                                   *)
RunningOwed ==
  \A p \in Ports, ph \in Phase \ {"build"} :
    phase[p][ph] = "running" =>
      \E j \in locks : job[j].port = p /\ job[j].phase = ph /\ pc[j] \notin Written

RunningInv == LockInv /\ OwnRow /\ NoneLost /\ RunningOwed

(* What the rows of a build must say by then. *)
RowSettled(j) ==
  job[j].phase = "build" => phase[job[j].port]["build"] = status[job[j].port]

(* A worker between two writes writes the same verdict twice. *)
RowOK(j) ==
  /\ pc[j] \in Written => RowSettled(j)
  /\ pc[j] = "record" => verdict[j] = status[job[j].port]
  /\ pc[j] = "exceptRecord" => status[job[j].port] = "internal"

WritesAgree == \A j \in locks : RowOK(j)

RowsInv ==
  /\ LockInv /\ OwnRow /\ NoneLost /\ admin = None
  /\ WritesAgree /\ BuildRowAgrees
-----------------------------------------------------------------------------
(* No worker is killed between its verdict and its upload. *)
UploadsHold == PortsRespected /\ "kill" \notin Faults

(* A port is held by one job. *)
Holds(j) == job[j].phase = "build" /\ (j \in locks \/ pc[j] = "dead6")
OneHolder ==
  \A j, k \in Jobs : Holds(j) /\ Holds(k) /\ job[j].port = job[k].port => j = k

(* A build that is through has uploaded its package, or did not pass. *)
Uploaded ==
  \A j \in locks :
    job[j].phase = "build" /\ pc[j] \in {"uploadDist", "done", "dead0"}
      => ~Built(job[j].port) \/ job[j].port \in pkg

(* A build the database was lost for is reset before its lock goes. *)
ResetFirst ==
  /\ \A j \in Jobs : pc[j] = "dead6" /\ job[j].phase = "build" /\ j \notin locks
                       => ~Built(job[j].port)
  /\ \A m \in Machines :
       at[m] = "unlock" /\ pc[cur[m]] = "dead6" /\ job[cur[m]].phase = "build"
         => ~Built(job[cur[m]].port)

InternalFirst == \A j \in Jobs : pc[j] = "exceptRecord" => ~Built(job[j].port)

SolidPackaged == \A p \in Ports : Solid(p) => p \in pkg

PackInv ==
  /\ DependInv /\ OwnRow
  /\ OneHolder /\ Uploaded /\ ResetFirst /\ InternalFirst /\ SolidPackaged
-----------------------------------------------------------------------------
(* At most one worker per machine, and nobody deletes locks by hand. *)
OneWorker == Slots \in {0, 1} /\ "unlock" \notin Faults

(* A worker that has been told to stop. *)
Told(j) == j \in sig \/ pc[j] \in Stopping

(* A worker that has its daemon has its row, as do a lock about to get a    *)
(* worker and one that lost its own, and a row is somebody's.  Who is dead  *)
(* and not yet buried is a child, a lock without a worker is in the hands   *)
(* of its daemon, and who has been told to stop is alive, and waited for.  *)
JobOK(j) ==
  /\ j \in children => pc[j] \in Alive \cup Dead /\ (pc[j] \in Alive => j \in locks)
  /\ pc[j] \in Dead => j \in children
  /\ pc[j] \in {"new", "orphan"} => j \in locks
  /\ pc[j] = "free" => j \notin locks /\ job[j] = NoRow
  /\ pc[j] = "new" => at[job[j].machine] = "fork" /\ cur[job[j].machine] = j
  /\ Told(j) => j \in children /\ pc[j] \in Alive /\ at[job[j].machine] = "kill"

JobsOK == \A j \in Jobs : JobOK(j)

OneAlive ==
  \A j, k \in children :
    pc[j] \in Alive /\ pc[k] \in Alive /\ job[j].machine = job[k].machine => j = k

(* A daemon that kills has one child, one that sweeps has none, the row it  *)
(* is at belongs to its machine, and whoever it has just forked is its only *)
(* worker.                                                                 *)
StopOK(m) ==
  /\ at[m] \in Killing => \A j, k \in ChildrenOf(m) : j = k
  /\ at[m] \in Sweeping \cup {"down"} => ChildrenOf(m) = {}
  /\ at[m] \in Sweeping \ {"sweep"} => cur[m] \in locks /\ job[cur[m]].machine = m
  /\ at[m] = "forked" => LiveChildren(m) \subseteq {cur[m]}

NoneLeft == \A m \in Machines : StopOK(m)

StopParts == JobsOK /\ IsFiniteSet(children) /\ UniqueRows /\ OneAlive /\ NoneLeft

StopInv == TypeInv /\ StopParts
=============================================================================
