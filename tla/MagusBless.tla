------------------------------- MODULE MagusBless -------------------------------
(***************************************************************************)
(* magus-bless: writes index.db, the package index of a run, and marks the *)
(* run blessed.  It takes the ports to publish from one query, then goes   *)
(* through them with a statement on a second connection for each, while    *)
(* the cluster may still be at work on the same tables.                    *)
(***************************************************************************)
EXTENDS MagusTables

CONSTANTS RunDepends   \* the rows <<port, dependency>> of type run, lib or pkg

ASSUME RunDependsAssumption == RunDepends \subseteq Ports \X Ports

VARIABLES
  bat,           \* where magus-bless is
  todo,          \* the rows of the first query still to do
  row,           \* the row in hand
  packages, depends,   \* the rows inserted into index.db
  omitted,       \* the ports reported as missing or restricted
  skipped,       \* the ports reported as skipped, published all the same
  c2,            \* the second connection is open
  disk,          \* what a reader of index.db finds
  blessed        \* runs.blessed

draft == <<packages, depends, omitted, skipped>>
bless == <<bat, todo, row, draft, c2, disk, blessed>>

NoPort == "none"
BlessPC == {"idle", "create", "row", "depends", "lists", "noIndex", "commit", "mark"}
Disk == {"none", "tables", "whole"}

BlessType ==
  /\ bat \in BlessPC
  /\ todo \subseteq Ports /\ row \in Ports \cup {NoPort}
  /\ packages \subseteq Ports /\ omitted \subseteq Ports /\ skipped \subseteq Ports
  /\ depends \subseteq RunDepends
  /\ c2 \in BOOLEAN /\ disk \in Disk /\ blessed \in BOOLEAN

BlessInit ==
  /\ bat = "idle" /\ todo = {} /\ row = NoPort
  /\ packages = {} /\ depends = {} /\ omitted = {} /\ skipped = {}
  /\ c2 = FALSE /\ disk = "none" /\ blessed = FALSE

(* Connect twice and ask for the ports to publish.  Only when there are any *)
(* is the old index.db removed and a new one opened.                       *)
Query ==
  /\ bat = "idle"
  /\ todo' = {p \in Ports : status[p] \in Published}
  /\ packages' = {} /\ depends' = {} /\ omitted' = {} /\ skipped' = {}
  /\ changed' = {}
  /\ c2' = TRUE
  /\ IF todo' = {}
     THEN bat' = "noIndex" /\ UNCHANGED disk
     ELSE bat' = "create" /\ disk' = "none"
  /\ UNCHANGED <<columns, pkg, row, blessed>>

(* create_indexdb commits the empty tables, then the transaction begins. *)
CreateIndex ==
  /\ bat = "create"
  /\ bat' = "row" /\ disk' = "tables"
  /\ UNCHANGED <<columns, pkg, changed, todo, row, draft, c2, blessed>>

(* The row has no package file: it is reported and left out. *)
MissingFile(p) ==
  /\ p \notin pkg
  /\ omitted' = omitted \cup {p}
  /\ UNCHANGED <<pkg, bat, row, packages>>

(* The package may not be published: its file is removed. *)
RemoveRestricted(p) ==
  /\ p \in pkg /\ p \in restricted
  /\ pkg' = pkg \ {p}
  /\ omitted' = omitted \cup {p}
  /\ UNCHANGED <<bat, row, packages>>

(* The package and its alias are inserted, then come its dependencies. *)
InsertPackage(p) ==
  /\ p \in pkg /\ p \notin restricted
  /\ packages' = packages \cup {p}
  /\ bat' = "depends" /\ row' = p
  /\ UNCHANGED <<pkg, omitted>>

NextRow(p) ==
  /\ bat = "row" /\ p \in todo
  /\ MissingFile(p) \/ RemoveRestricted(p) \/ InsertPackage(p)
  /\ todo' = todo \ {p}
  /\ UNCHANGED <<columns, changed, depends, skipped, c2, disk, blessed>>

(* Mistakes: dependency and dependent swapped; the verdict of the dependency *)
(* not looked at; only what is already in the index.                        *)
DependsRowsSwapped(p) ==
  {<<e[2], e[1]>> : e \in {f \in RunDepends :
     f[1] = p /\ {status[f[1]], status[f[2]]} \subseteq Installable}}
DependsRowsAny(p) == {e \in RunDepends : e[1] = p /\ status[p] \in Installable}
DependsRowsSoFar(p) ==
  {e \in RunDepends :
     e[1] = p /\ {status[e[1]], status[e[2]]} \subseteq Installable /\ e[2] \in packages}

(* The dependencies of p, from the verdicts of this moment. *)
DependsRows(p) ==
  {e \in RunDepends : e[1] = p /\ {status[e[1]], status[e[2]]} \subseteq Installable}

(* load_depends.  The query may throw, because the connection broke or for  *)
(* any other reason: main then says that the port is skipped, but its       *)
(* package row stays.  Once the connection is known to be closed            *)
(* load_depends does nothing and says nothing.                              *)
LoadDepends ==
  /\ bat = "depends"
  /\ \/ c2 /\ depends' = depends \cup DependsRows(row) /\ UNCHANGED <<skipped, c2>>
     \/ c2 /\ skipped' = skipped \cup {row} /\ c2' \in BOOLEAN /\ UNCHANGED depends
     \/ ~c2 /\ UNCHANGED <<depends, skipped, c2>>
  /\ bat' = "row" /\ row' = NoPort
  /\ UNCHANGED <<columns, pkg, changed, todo, packages, omitted, disk, blessed>>

LastRow ==
  /\ bat = "row" /\ todo = {}
  /\ bat' = "lists"
  /\ UNCHANGED <<columns, pkg, changed, todo, row, draft, c2, disk, blessed>>

(* A mistake: the run is marked before the index is committed. *)
LoadListsUncommitted ==
  /\ bat \in {"lists", "noIndex"}
  /\ bat' = "mark"
  /\ UNCHANGED <<columns, pkg, changed, todo, row, draft, c2, disk, blessed>>

(* Mirrors, MOVED, default versions and old aliases.  Without an index.db   *)
(* the first row of any of them ends the program (BlessFails).             *)
LoadLists ==
  /\ bat \in {"lists", "noIndex"}
  /\ bat' = IF bat = "lists" THEN "commit" ELSE "mark"
  /\ UNCHANGED <<columns, pkg, changed, todo, row, draft, c2, disk, blessed>>

CommitIndex ==
  /\ bat = "commit"
  /\ bat' = "mark" /\ disk' = "whole"
  /\ UNCHANGED <<columns, pkg, changed, todo, row, draft, c2, blessed>>

MarkBlessed ==
  /\ bat = "mark"
  /\ bat' = "idle" /\ blessed' = TRUE
  /\ UNCHANGED <<columns, pkg, changed, todo, row, draft, c2, disk>>

(* errx, an exception of the first connection, or a kill: what the          *)
(* transaction held is rolled back.  An UPDATE whose answer is lost may     *)
(* have been made.                                                         *)
BlessFails ==
  /\ bat # "idle"
  /\ bat' = "idle" /\ todo' = {} /\ row' = NoPort
  /\ blessed' \in {blessed, blessed \/ bat = "mark"}
  /\ UNCHANGED <<columns, pkg, changed, draft, c2, disk>>

BlessStep ==
  \/ Query \/ CreateIndex \/ LoadDepends \/ LastRow
  \/ LoadLists \/ CommitIndex \/ MarkBlessed \/ BlessFails
  \/ \E p \in Ports : NextRow(p)
=============================================================================
