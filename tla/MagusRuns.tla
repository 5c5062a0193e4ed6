------------------------------- MODULE MagusRuns -------------------------------
(***************************************************************************)
(* The end of a run: update_cluster.pl asks every active run whether it is *)
(* empty, in two statements, and marks it complete, while the cluster      *)
(* works on it.                                                            *)
(***************************************************************************)
EXTENDS Magus

VARIABLES run,       \* runs.status
          updater    \* where update_cluster.pl is

runs == <<run, updater>>

RunsInit == Init /\ run = "active" /\ updater = "idle"

(* is_empty: while a port is locked for its build, others may follow. *)
CountLocks ==
  /\ updater = "idle" /\ run = "active"
  /\ updater' = IF \E p \in Ports : Locked(p, "build") THEN "idle" ELSE "ask"
  /\ UNCHANGED <<vars, run>>

(* is_empty: no port is ready to build. *)
AskReady ==
  /\ updater = "ask"
  /\ updater' = IF ReadyPorts("build") = {} THEN "complete" ELSE "idle"
  /\ UNCHANGED <<vars, run>>

(* refresh_completed_runs marks the run, and goes on to make the next one. *)
Complete ==
  /\ updater = "complete"
  /\ run' = "complete" /\ updater' = "idle"
  /\ UNCHANGED vars

RunsNext ==
  \/ Next /\ UNCHANGED runs
  \/ CountLocks \/ AskReady \/ Complete

RunsSpec == RunsInit /\ [][RunsNext]_<<vars, runs>>

(* Run.pm:63: is_empty is true if the run has no ports left to be tested.   *)
(* What is not tested by then cannot be, for want of a dependency.         *)
EmptyIsSettled == updater = "complete" => Settled
=============================================================================
