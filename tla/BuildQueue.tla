------------------------------- MODULE BuildQueue -------------------------------
(***************************************************************************)
(* What the cluster promises to whoever reads its tables: a queue of jobs  *)
(* (port, phase), each taken by one worker at a time, in which the verdict *)
(* and the package of a port change one at a time and only at the hand of  *)
(* the worker that has taken its build; at any time a port may be reset.   *)
(* Magus implements this specification, MagusRelease relies on it.         *)
(***************************************************************************)
CONSTANTS Ports,     \* the ports of a run
          Phases,    \* the phases a port goes through
          Results    \* what ports.status may be once a port is tested

VARIABLES status,    \* ports.status
          pkg,       \* the ports whose package file is on the server
          taken      \* the jobs that are taken: the rows of the locks table

queue == <<status, pkg, taken>>

QueueType ==
  /\ status \in [Ports -> Results \cup {"untested"}]
  /\ pkg \subseteq Ports
  /\ taken \subseteq Ports \X Phases

QueueInit ==
  /\ status \in [Ports -> Results \cup {"untested"}]
  /\ pkg = {}
  /\ taken = {}

(* A worker takes a job nobody has. *)
Take(p, ph) ==
  /\ <<p, ph>> \notin taken
  /\ taken' = taken \cup {<<p, ph>>}
  /\ UNCHANGED <<status, pkg>>

(* The worker that builds p writes its verdict. *)
Report(p, s) ==
  /\ <<p, "build">> \in taken
  /\ status' = [status EXCEPT ![p] = s]
  /\ UNCHANGED <<pkg, taken>>

(* It uploads the package. *)
Deliver(p) ==
  /\ <<p, "build">> \in taken
  /\ pkg' = pkg \cup {p}
  /\ UNCHANGED <<status, taken>>

(* The job is done, or given back. *)
Drop(p, ph) ==
  /\ taken' = taken \ {<<p, ph>>}
  /\ UNCHANGED <<status, pkg>>

(* The verdict is withdrawn; the package stays where it is. *)
Withdraw(p) ==
  /\ status' = [status EXCEPT ![p] = "untested"]
  /\ UNCHANGED <<pkg, taken>>

QueueNext ==
  \E p \in Ports :
    \/ \E ph \in Phases : Take(p, ph) \/ Drop(p, ph)
    \/ \E s \in Results : Report(p, s)
    \/ Deliver(p)
    \/ Withdraw(p)

QueueSpec == QueueInit /\ [][QueueNext]_queue
=============================================================================
