------------------------------ MODULE MagusTables ------------------------------
(***************************************************************************)
(* What the release tools read: the verdicts and packages of a run.  The   *)
(* cluster may be at work on it all the time; of the cluster they see the  *)
(* job queue that it implements.                                           *)
(***************************************************************************)
CONSTANTS Ports

VARIABLES
  status, pkg, taken,   \* the job queue: see BuildQueue
  restricted,           \* the ports that may not be given away
  tool,                 \* the tool somebody runs
  changed               \* history: the ports whose verdict changed since it first asked

(* The verdicts the tools tell apart: warn is like pass, internal like fail. *)
Cluster == INSTANCE BuildQueue WITH Phases <- {"build"}, Results <- {"pass", "fail", "skip"}

Tools == {"bless", "distcheck"}
columns == <<status, taken, restricted, tool>>

Published == {"pass", "skip"}
Installable == {"pass"}

TablesType ==
  /\ Cluster!QueueType
  /\ restricted \subseteq Ports
  /\ tool \in Tools
  /\ changed \subseteq Ports

TablesInit ==
  /\ Cluster!QueueInit
  /\ restricted \in SUBSET Ports
  /\ tool \in Tools
  /\ changed = {}

ClusterStep ==
  /\ Cluster!QueueNext
  /\ changed' = changed \cup {p \in Ports : status'[p] # status[p]}
  /\ UNCHANGED <<restricted, tool>>
=============================================================================
