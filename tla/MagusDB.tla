-------------------------------- MODULE MagusDB --------------------------------
(***************************************************************************)
(* The Magus package-build cluster: slave daemons on several machines take *)
(* (port, phase) jobs from a shared database, run each one in a forked     *)
(* worker and record the outcome.                                          *)
(*                                                                         *)
(* The database runs in AutoCommit mode, so every statement is atomic and  *)
(* nothing larger is: an operation of several statements is several        *)
(* actions here.                                                           *)
(*                                                                         *)
(* A member of Jobs is the id of a row of the locks table together with    *)
(* the worker process forked for it: the daemon makes exactly one worker   *)
(* for each row it inserts.  The sequence never repeats an id; a model id  *)
(* is used again once no row, process or daemon refers to it.              *)
(***************************************************************************)
EXTENDS MagusDepends, Naturals, Sequences, FiniteSets

CONSTANTS Machines,      \* the build machines, one slave daemon on each
          Jobs,          \* ids of lock rows (bounds the rows alive at a time)
          Slots,         \* workers per machine, the -j option
          WorkerPhases,  \* the order in which a daemon looks for work
          Verdicts,      \* the summaries a make run may end with
          Faults,        \* the faults that may happen
          None           \* the absent value

Phase == {"fetch", "build", "test", "scan"}
Passed == {"pass", "warn"}
Status == Passed \cup {"untested", "fail", "skip", "internal"}
FaultKinds == {"exception",  \* scp, chroot preparation or a scanner fails
               "fork",       \* start_child throws
               "db",         \* a statement of a daemon or a worker fails
               "kill",       \* a worker process is killed
               "crash",      \* a machine goes down at once
               "term",       \* a daemon is told to stop
               "termFork",   \* the same, between a fork and its record
               "wakeup",     \* a worker exits just before its daemon sleeps
               "reset",      \* reset_port.cgi is used
               "unlock"}     \* delete_lock.cgi is used

ASSUME MagusAssumption ==
  /\ Slots \in Nat
  /\ WorkerPhases \in Seq(Phase)
  /\ Verdicts \subseteq Passed \cup {"fail", "skip"}
  /\ Faults \subseteq FaultKinds
  /\ None \notin Ports \cup Machines \cup Jobs \cup Phase \cup Status
  /\ None \notin Ports \X Phase

VARIABLES
  status,    \* ports.status
  phase,     \* port_phase_results.status, per port and phase
  pkg,       \* the ports whose package file is in PkgfilesRoot
  locks,     \* the ids of the rows in the locks table
  job,       \* the contents of each row (and what its worker works on)
  pc,        \* where each worker is
  children,  \* the processes that have a daemon for a parent, and its corpses
  verdict,   \* what an inner child has still to write to the build phase row
  sig,       \* workers with a pending SIGINT
  at,        \* where each daemon is
  cand,      \* the <<port, phase>> a daemon has selected
  cur,       \* the lock a daemon is handling
  lost,      \* how many worker ids a daemon has lost
  admin      \* the port an administrator's reset is half way through

db      == <<status, phase, pkg, locks>>
workers == <<job, pc, verdict, sig>>
daemons == <<children, at, cand, cur, lost>>
vars    == <<db, workers, daemons, admin>>

NoRow == [port |-> None, phase |-> None, machine |-> None]
Row == [port : Ports, phase : Phase, machine : Machines]

Making == {"make", "record"}                     \* an inner child is running
Busy == {"start", "prep", "inject", "made", "upload", "uploadDist", "scan", "done",
         "except", "exceptRecord"}
Stopping == {"intReset", "intResetStatus"}       \* in the SIGINT handler
Alive == Making \cup Busy \cup Stopping          \* there is a worker process
Dead == {"dead0", "dead6"}                       \* by its exit code
WorkerPC == Alive \cup Dead \cup {"free", "new", "orphan"}

Claiming == {"insert", "fork", "forked"}
Asleep == {"asleep", "overslept"}
Reaping == {"reset", "resetStatus", "unlock"}
Sweeping == {"sweep", "sweepReset", "sweepStatus", "sweepUnlock"}
Killing == {"told", "kill"}
DaemonPC == {"top", "fill", "down"} \cup Claiming \cup Asleep \cup Reaping \cup Killing
            \cup Sweeping

TypeOK ==
  /\ status \in [Ports -> Status]
  /\ phase \in [Ports -> [Phase -> Status \cup {"running"}]]
  /\ pkg \subseteq Ports
  /\ locks \subseteq Jobs
  /\ job \in [Jobs -> Row \cup {NoRow}]
  /\ pc \in [Jobs -> WorkerPC]
  /\ verdict \in [Jobs -> Status \cup {None}]
  /\ children \subseteq Jobs
  /\ sig \subseteq Jobs
  /\ at \in [Machines -> DaemonPC]
  /\ cand \in [Machines -> (Ports \X Phase) \cup {None}]
  /\ cur \in [Machines -> Jobs \cup {None}]
  /\ lost \in [Machines -> Nat]
  /\ admin \in Ports \cup {None}
-----------------------------------------------------------------------------
(* Queries. *)

Built(p) == status[p] \in Passed
Locked(p, ph) == \E j \in locks : job[j].port = p /\ job[j].phase = ph

(* Mutants of DependsReady: a lock on the dependency, or its verdict, is    *)
(* not looked at.                                                          *)
DependsReadyIgnoresLocks(p, types) == \A d \in DependsOf(p, types) : Built(d)
DependsReadyAnyVerdict(p, types) ==
  \A d \in DependsOf(p, types) : status[d] # "untested" /\ ~Locked(d, "build")

(* Every direct dependency of those types is built and not being built. *)
DependsReady(p, types) ==
  \A d \in DependsOf(p, types) : Built(d) /\ ~Locked(d, "build")

(* Mutants of ReadyBuild: tested ports are offered again; the fetch must    *)
(* have passed.                                                            *)
ReadyBuildTested(p) ==
  /\ phase[p]["fetch"] # "untested"
  /\ ~Locked(p, "build")
  /\ DependsReady(p, InstallType)
ReadyBuildFetched(p) ==
  /\ phase[p]["fetch"] \in Passed
  /\ status[p] = "untested"
  /\ ~Locked(p, "build")
  /\ DependsReady(p, InstallType)

(* The view ready_ports. *)
ReadyBuild(p) ==
  /\ phase[p]["fetch"] # "untested"
  /\ status[p] = "untested"
  /\ ~Locked(p, "build")
  /\ DependsReady(p, InstallType)

ReadyFetch(p) ==
  /\ phase[p]["fetch"] = "untested"
  /\ ~Locked(p, "fetch")
  /\ DependsReady(p, {"fetch"})

ReadyTest(p) ==
  /\ phase[p]["test"] = "untested"
  /\ Built(p)
  /\ ~Locked(p, "test")
  /\ DependsReady(p, {"test"})

ReadyScan(p) ==
  /\ phase[p]["scan"] = "untested"
  /\ Built(p)
  /\ ~Locked(p, "scan")

Ready(p, ph) ==
  \/ ph = "build" /\ ReadyBuild(p)
  \/ ph = "fetch" /\ ReadyFetch(p)
  \/ ph = "test"  /\ ReadyTest(p)
  \/ ph = "scan"  /\ ReadyScan(p)

ReadyPorts(ph) == {p \in Ports : Ready(p, ph)}
-----------------------------------------------------------------------------
(* Statements. *)

SetStatus(p, s) == status' = [status EXCEPT ![p] = s]
SetPhase(p, ph, s) == phase' = [phase EXCEPT ![p][ph] = s]

(* The first part of $port->reset: every phase row but a passed fetch.  The *)
(* second part is SetStatus(p, "untested").                                *)
ResetPhases(p) ==
  phase' = [phase EXCEPT ![p] =
              [ph \in Phase |-> IF ph = "fetch" /\ @[ph] = "pass"
                                THEN "pass" ELSE "untested"]]

(* A process goes from one point to the next. *)
Go(j, to) == pc' = [pc EXCEPT ![j] = to]
Forget(js) == /\ pc' = [k \in Jobs |-> IF k \in js THEN "free" ELSE pc[k]]
              /\ job' = [k \in Jobs |-> IF k \in js THEN NoRow ELSE job[k]]

(* Processes nobody waits for are gone: only their lock rows are left. *)
Abandon(js) ==
  /\ pc' = [k \in Jobs |-> IF k \notin js THEN pc[k]
                           ELSE IF k \in locks THEN "orphan" ELSE "free"]
  /\ job' = [k \in Jobs |-> IF k \in js \ locks THEN NoRow ELSE job[k]]

(* A worker exits; a daemon that has it as a child learns its exit code. *)
Exit(j, code) ==
  /\ sig' = sig \ {j}
  /\ \/ j \in children /\ Go(j, code) /\ UNCHANGED job
     \/ j \notin children /\ Abandon({j})
=============================================================================
