------------------------------ MODULE MagusRelease ------------------------------
(***************************************************************************)
(* A run is released: magus-bless publishes its packages and distcheck its *)
(* distribution files, while the cluster works on.  Neither tool reads     *)
(* what the other one writes, so a behaviour has one of them, any number   *)
(* of times.                                                               *)
(***************************************************************************)
EXTENDS MagusBless, MagusDistcheck

release == <<columns, pkg, changed, bless, distcheck>>

TypeOK == TablesType /\ BlessType /\ DistType

Init == TablesInit /\ BlessInit /\ DistInit

Next ==
  \/ ClusterStep /\ UNCHANGED <<bless, distcheck>>
  \/ tool = "bless" /\ BlessStep /\ UNCHANGED distcheck
  \/ tool = "distcheck" /\ DistStep /\ UNCHANGED bless

Spec == Init /\ [][Next]_release

(* A run is marked blessed (magus-bless.cxx:334) only when every port that *)
(* could be published when the program began, and whose verdict has stayed *)
(* the same, is accounted for: it is a package of the index that has been  *)
(* committed, or it was reported as missing or restricted.                 *)
BlessedAccounted ==
  [][~blessed /\ blessed' =>
       \A p \in Ports \ changed :
         status[p] \in Published => disk = "whole" /\ p \in packages \cup omitted]_release

(* A client that installs a package of the index finds what it depends on: *)
(* load_depends asks for verdicts long after the rows were selected, on a  *)
(* second connection, and yet what it adds was selected too, unless it was *)
(* reported as left out or its verdict changed meanwhile.                  *)
DependsListed ==
  disk = "whole" =>
    \A e \in depends : e[1] \in packages /\ e[2] \in packages \cup omitted \cup changed

(* Nor does the index lack a dependency between two packages that passed,  *)
(* unless the query for it threw and the port was reported as skipped, or  *)
(* the second connection is closed: then load_depends goes on without a    *)
(* word (magus-bless.cxx:208, 472).                                        *)
DependsComplete ==
  disk = "whole" /\ c2 =>
    \A e \in RunDepends :
      /\ {e[1], e[2]} \subseteq packages \ changed /\ e[1] \notin skipped
      /\ {status[e[1]], status[e[2]]} \subseteq Installable
      => e \in depends

(* A distfile that query1 let through although the tables name it as       *)
(* restricted is listed by query2 at the end, unless the verdict of its    *)
(* port changed between the two queries (distcheck.cxx:206, 271).          *)
AuditCatches ==
  dat = "listed" =>
    \A c \in copied :
      (<<c[1], c[2]>> \in RestrictedFiles /\ c[1] \notin changed) =>
        \E e \in listed : e[1] = c[1] /\ Base[e[2]] = Base[c[3]]

(* bsd.mport.mk.pod: RESTRICTED_FILES is a list of files that cannot be    *)
(* redistributed.  No file a port restricts is copied.                     *)
RestrictedStay ==
  \A c \in copied : \A e \in RestrictedFiles : e[1] = c[1] => Normal[e[2]] # Normal[c[2]]
=============================================================================
