------------------------------- MODULE MagusSlave -------------------------------
(***************************************************************************)
(* The slave daemon of a machine (Tools/magus/slave/magus.pl) and the lock *)
(* acquisition it calls (Magus::Lock).  How signals reach it is abstracted *)
(* here: a child that has exited is a corpse at once.                      *)
(***************************************************************************)
EXTENDS MagusDB
-----------------------------------------------------------------------------
(* The slave daemon: main, get_ready_lock and start_child. *)

ChildrenOf(m) == {j \in children : job[j].machine = m}
LiveChildren(m) == {j \in ChildrenOf(m) : pc[j] \in Alive}
Corpses(m) == {j \in ChildrenOf(m) : pc[j] \in Dead}

Step(m, from, to) == at[m] = from /\ at' = [at EXCEPT ![m] = to]

(* No dead child is left to process. *)
MainTop(m) ==
  /\ Corpses(m) = {}
  /\ Step(m, "top", "fill")
  /\ UNCHANGED <<db, workers, children, cand, cur, lost, admin>>

(* There is a free slot; and a free id, the bound of the model. *)
FreeSlot(m) == Cardinality(LiveChildren(m)) < Slots
HasRoom(m) == FreeSlot(m) /\ \E j \in Jobs : pc[j] = "free"

(* get_ready_lock asks for a ready port phase by phase, in the configured   *)
(* order.                                                                  *)
Select(m) ==
  /\ HasRoom(m)
  /\ Step(m, "fill", "insert")
  /\ \E i \in DOMAIN WorkerPhases :
       /\ \A k \in DOMAIN WorkerPhases : k < i => ReadyPorts(WorkerPhases[k]) = {}
       /\ \E p \in ReadyPorts(WorkerPhases[i]) :
            cand' = [cand EXCEPT ![m] = <<p, WorkerPhases[i]>>]
  /\ UNCHANGED <<db, workers, children, cur, lost, admin>>

(* Nothing is ready: sleep for DoneWaitPeriod, then start over. *)
Nap(m) ==
  /\ FreeSlot(m)
  /\ HasRoom(m) => \A i \in DOMAIN WorkerPhases : ReadyPorts(WorkerPhases[i]) = {}
  /\ Step(m, "fill", "top")
  /\ UNCHANGED <<db, workers, children, cand, cur, lost, admin>>

(* Every slot is taken: sleep without a limit, until a signal comes. *)
Sleep(m) ==
  /\ ~FreeSlot(m)
  /\ Step(m, "fill", "asleep")
  /\ UNCHANGED <<db, workers, children, cand, cur, lost, admin>>

(* The SIGCHLD of a worker ends the sleep, *)
Wake(m) ==
  /\ FreeSlot(m)
  /\ Step(m, "asleep", "top")
  /\ UNCHANGED <<db, workers, children, cand, cur, lost, admin>>

(* unless it came after the last look at $Children and before the sleep: *)
Oversleep(m) ==
  /\ "wakeup" \in Faults
  /\ FreeSlot(m)
  /\ Step(m, "asleep", "overslept")
  /\ UNCHANGED <<db, workers, children, cand, cur, lost, admin>>

(* then only the exit of another worker ends it. *)
WakeLate(m) ==
  /\ Cardinality(LiveChildren(m)) + 1 < Slots
  /\ Step(m, "overslept", "top")
  /\ UNCHANGED <<db, workers, children, cand, cur, lost, admin>>

(* _get_lock: unique (port, phase) refuses the row, and the scan restarts. *)
InsertDuplicate(m) ==
  /\ at[m] = "insert"
  /\ Locked(cand[m][1], cand[m][2])
  /\ Step(m, "insert", "fill")
  /\ cand' = [cand EXCEPT ![m] = None]
  /\ UNCHANGED <<db, workers, children, cur, lost, admin>>

(* Mutant of InsertRow: no unique (port, phase) in the schema. *)
InsertRowAnyway(m, j, to) ==
  /\ pc[j] = "free"
  /\ locks' = locks \cup {j}
  /\ job' = [job EXCEPT ![j] = [port |-> cand[m][1], phase |-> cand[m][2],
                                machine |-> m]]
  /\ Go(j, to)
  /\ cand' = [cand EXCEPT ![m] = None]
  /\ UNCHANGED <<status, phase, pkg, verdict, sig, children, lost, admin>>

InsertRow(m, j, to) ==
  /\ pc[j] = "free"
  /\ ~Locked(cand[m][1], cand[m][2])
  /\ locks' = locks \cup {j}
  /\ job' = [job EXCEPT ![j] = [port |-> cand[m][1], phase |-> cand[m][2],
                                machine |-> m]]
  /\ Go(j, to)
  /\ cand' = [cand EXCEPT ![m] = None]
  /\ UNCHANGED <<status, phase, pkg, verdict, sig, children, lost, admin>>

InsertLock(m, j) ==
  /\ at[m] = "insert"
  /\ InsertRow(m, j, "new")
  /\ Step(m, "insert", "fork")
  /\ cur' = [cur EXCEPT ![m] = j]

(* The worker ids left in %WorkerIDs; an id comes back when its worker has  *)
(* been reaped.                                                            *)
FreeIds(m) == Slots - Cardinality(LiveChildren(m)) - lost[m]

(* The worker runs; the daemon has yet to record it in %Children. *)
Fork(m) ==
  /\ at[m] = "fork"
  /\ FreeIds(m) > 0
  /\ Go(cur[m], "start")
  /\ children' = children \cup {cur[m]}
  /\ Step(m, "fork", "forked")
  /\ UNCHANGED <<db, job, verdict, sig, cand, cur, lost, admin>>

Record(m) ==
  /\ Step(m, "forked", "fill")
  /\ cur' = [cur EXCEPT ![m] = None]
  /\ UNCHANGED <<db, workers, children, cand, lost, admin>>

(* start_child throws: main logs it and goes on, and nobody has the row any *)
(* more.                                                                   *)
LoseLock(m) ==
  /\ Step(m, "fork", "fill")
  /\ Abandon({cur[m]})
  /\ cur' = [cur EXCEPT ![m] = None]
  /\ UNCHANGED <<db, verdict, sig, children, cand, admin>>

(* Mutant of ForkFail: the id count goes the wrong way. *)
ForkFailGains(m) ==
  /\ "fork" \in Faults
  /\ FreeIds(m) > 0
  /\ LoseLock(m)
  /\ lost' = [lost EXCEPT ![m] = @ - 1]

(* fork failed: the id is lost as well. *)
ForkFail(m) ==
  /\ "fork" \in Faults
  /\ FreeIds(m) > 0
  /\ LoseLock(m)
  /\ lost' = [lost EXCEPT ![m] = @ + 1]

NoWorkerIds(m) ==
  /\ ~(FreeIds(m) > 0)
  /\ LoseLock(m)
  /\ UNCHANGED lost
-----------------------------------------------------------------------------
(* The slave daemon: process_dead_children. *)

Process(m, j) ==
  /\ at[m] = "top"
  /\ j \in Corpses(m)
  /\ cur' = [cur EXCEPT ![m] = j]
  /\ \/ /\ pc[j] = "dead6" /\ job[j].phase = "build"
        /\ Step(m, "top", "reset")
        /\ UNCHANGED phase
     \/ /\ pc[j] = "dead6" /\ job[j].phase # "build"
        /\ SetPhase(job[j].port, job[j].phase, "untested")
        /\ Step(m, "top", "unlock")
     \/ /\ pc[j] = "dead0"
        /\ Step(m, "top", "unlock")
        /\ UNCHANGED phase
  /\ UNCHANGED <<status, pkg, locks, workers, children, cand, lost, admin>>

ProcessReset(m) ==
  /\ Step(m, "reset", "resetStatus")
  /\ ResetPhases(job[cur[m]].port)
  /\ UNCHANGED <<status, pkg, locks, workers, children, cand, cur, lost, admin>>

ProcessResetStatus(m) ==
  /\ Step(m, "resetStatus", "unlock")
  /\ SetStatus(job[cur[m]].port, "untested")
  /\ UNCHANGED <<phase, pkg, locks, workers, children, cand, cur, lost, admin>>

Unlock(m) ==
  /\ Step(m, "unlock", "top")
  /\ locks' = locks \ {cur[m]}
  /\ children' = children \ {cur[m]}
  /\ Forget({cur[m]})
  /\ cur' = [cur EXCEPT ![m] = None]
  /\ UNCHANGED <<status, phase, pkg, verdict, sig, cand, lost, admin>>

(* A statement of the daemon fails: main dies, is called again once the     *)
(* database answers, and finds the corpse where it was.  The statement may  *)
(* have been committed before the connection went away.                    *)
DaemonLostDB(m) ==
  /\ "db" \in Faults
  /\ at[m] \in {"fill", "insert"} \cup Reaping
  /\ at' = [at EXCEPT ![m] = "top"]
  /\ \/ UNCHANGED <<locks, job, pc>>
     \/ at[m] = "unlock" /\ locks' = locks \ {cur[m]} /\ UNCHANGED <<job, pc>>
  /\ cand' = [cand EXCEPT ![m] = None]
  /\ cur' = [cur EXCEPT ![m] = None]
  /\ UNCHANGED <<status, phase, pkg, verdict, sig, children, lost, admin>>

(* The same for the INSERT of a lock: a row nobody knows of. *)
DaemonLostInsert(m, j) ==
  /\ "db" \in Faults
  /\ at[m] = "insert"
  /\ InsertRow(m, j, "orphan")
  /\ Step(m, "insert", "top")
  /\ UNCHANGED cur
-----------------------------------------------------------------------------
(* The slave daemon: kill_children, and a machine that goes down. *)

(* $Children: only SIGCHLD is blocked around the fork, so a handler may see *)
(* it without the worker just forked.                                      *)
Counted(m) == LiveChildren(m) \ {j \in {cur[m]} : at[m] = "forked"}

(* The handler of SIGTERM and SIGINT, at whatever point the daemon is, and  *)
(* the first test of kill_children.  Without a child on the books the locks *)
(* are swept at once, and whoever was just forked works on unattended.     *)
Term(m) ==
  /\ "term" \in Faults
  /\ at[m] = "forked" => "termFork" \in Faults
  /\ at[m] \notin Sweeping \cup Killing \cup {"down"}
  /\ \/ /\ Counted(m) = {}
        /\ at' = [at EXCEPT ![m] = "sweep"]
        /\ children' = children \ ChildrenOf(m)
     \/ /\ Counted(m) # {}
        /\ at' = [at EXCEPT ![m] = "told"]
        /\ children' = children \ Corpses(m)
  /\ Abandon(Corpses(m) \cup {j \in {cur[m]} : at[m] = "fork"})
  /\ cand' = [cand EXCEPT ![m] = None]
  /\ cur' = [cur EXCEPT ![m] = None]
  /\ UNCHANGED <<db, verdict, sig, lost, admin>>

(* SIGINT to the process group.  Of the workers that have exited since the  *)
(* test, the SIGCHLD handler may have reaped some before it was disabled.  *)
Signal(m) ==
  /\ Step(m, "told", "kill")
  /\ sig' = sig \cup LiveChildren(m)
  /\ \E reaped \in SUBSET Corpses(m) :
       children' = children \ reaped /\ Abandon(reaped)
  /\ UNCHANGED <<db, verdict, cand, cur, lost, admin>>

(* Mutant of KillWait: nobody is waited for. *)
KillNoWait(m) ==
  /\ Step(m, "kill", "sweep")
  /\ children' = children \ ChildrenOf(m)
  /\ Abandon(Corpses(m))
  /\ UNCHANGED <<db, verdict, sig, cand, cur, lost, admin>>

(* waitpid has returned one child. *)
KillWait(m) ==
  /\ Corpses(m) # {}
  /\ Step(m, "kill", "sweep")
  /\ children' = children \ ChildrenOf(m)
  /\ Abandon(Corpses(m))
  /\ UNCHANGED <<db, verdict, sig, cand, cur, lost, admin>>

(* waitpid has no child to return: the loop goes on for ever. *)
WaitForever(m) == at[m] = "kill" /\ ChildrenOf(m) = {} /\ UNCHANGED vars

RowsOf(m) == {j \in locks : job[j].machine = m}

SweepNext(m, j) ==
  /\ j \in RowsOf(m)
  /\ Step(m, "sweep", "sweepReset")
  /\ cur' = [cur EXCEPT ![m] = j]
  /\ UNCHANGED <<db, workers, children, cand, lost, admin>>

SweepReset(m) ==
  /\ Step(m, "sweepReset", "sweepStatus")
  /\ ResetPhases(job[cur[m]].port)
  /\ UNCHANGED <<status, pkg, locks, workers, children, cand, cur, lost, admin>>

SweepStatus(m) ==
  /\ Step(m, "sweepStatus", "sweepUnlock")
  /\ SetStatus(job[cur[m]].port, "untested")
  /\ UNCHANGED <<phase, pkg, locks, workers, children, cand, cur, lost, admin>>

(* Mutant of SweepUnlock: the port is reset but its lock kept. *)
SweepKeepsLock(m) ==
  /\ Step(m, "sweepUnlock", "sweep")
  /\ cur' = [cur EXCEPT ![m] = None]
  /\ UNCHANGED <<db, workers, children, cand, lost, admin>>

SweepUnlock(m) ==
  /\ Step(m, "sweepUnlock", "sweep")
  /\ locks' = locks \ {cur[m]}
  /\ Forget({j \in {cur[m]} : pc[j] = "orphan"})
  /\ cur' = [cur EXCEPT ![m] = None]
  /\ UNCHANGED <<status, phase, pkg, verdict, sig, children, cand, lost, admin>>

SweepDone(m) ==
  /\ RowsOf(m) = {}
  /\ Step(m, "sweep", "down")
  /\ lost' = [lost EXCEPT ![m] = 0]
  /\ UNCHANGED <<db, workers, children, cand, cur, admin>>

(* Power failure: the processes are gone, the rows stay. *)
Crash(m) ==
  /\ "crash" \in Faults
  /\ at[m] # "down"
  /\ LET mine == {j \in Jobs : job[j].machine = m}
     IN /\ Abandon(mine)
        /\ verdict' = [j \in Jobs |-> IF j \in mine THEN None ELSE verdict[j]]
        /\ sig' = sig \ mine
        /\ children' = children \ mine
  /\ at' = [at EXCEPT ![m] = "down"]
  /\ lost' = [lost EXCEPT ![m] = 0]
  /\ cand' = [cand EXCEPT ![m] = None]
  /\ cur' = [cur EXCEPT ![m] = None]
  /\ UNCHANGED <<db, admin>>

(* The daemon starts; it does not look at the locks its machine has. *)
Restart(m) ==
  /\ Step(m, "down", "top")
  /\ UNCHANGED <<db, workers, children, cand, cur, lost, admin>>
=============================================================================
