--------------------------- MODULE MagusReleaseProofs ---------------------------
(***************************************************************************)
(* The release tools are right for any ports, dependencies and files, with *)
(* the cluster at work on the tables all the time.                         *)
(***************************************************************************)
EXTENDS MagusRelease, TLAPS

USE DEF Published, Installable, Tools, BlessPC, Disk, NoPort

(* The ports whose verdict is the one the first query saw. *)
Stable == {p \in Ports \ changed : status[p] \in Published}

(* Where each port of the first query is while magus-bless goes through it, *)
(* and what index.db is by then.                                           *)
SnapshotKept ==
  /\ bat = "create" => Stable \subseteq todo /\ packages = {} /\ depends = {} /\ disk = "none"
  /\ bat \in {"row", "depends", "lists", "commit"} =>
       Stable \subseteq todo \cup packages \cup omitted /\ disk = "tables"
  /\ bat = "depends" => row \in packages
  /\ bat \in {"lists", "commit", "noIndex"} => todo = {}
  /\ bat = "noIndex" => Stable = {} /\ depends = {} /\ packages = {}
  /\ bat = "mark" =>
       Stable = {} \/ (disk = "whole" /\ Stable \subseteq packages \cup omitted)

(* The rows of the depends table, before and after the commit. *)
DependsKept ==
  /\ bat \in {"create", "row", "depends", "lists", "commit"} =>
       \A e \in depends :
         e[1] \in packages /\ e[2] \in todo \cup packages \cup omitted \cup changed
  /\ DependsListed

DependsLoaded ==
  /\ bat \in {"create", "row", "depends", "lists", "commit"} /\ c2 =>
       \A e \in RunDepends :
         /\ e[1] \in packages \ (changed \cup skipped) /\ e[2] \notin changed
         /\ bat = "depends" => e[1] # row
         /\ {status[e[1]], status[e[2]]} \subseteq Installable
         => e \in depends
  /\ DependsComplete

(* What distcheck has in hand and what it copied are rows of distfiles of  *)
(* ports that are tested still; what it copied is where it will look.      *)
CopiesKept ==
  /\ \A r \in rows : <<r[1], r[2]>> \in Distfiles /\ r[1] \in Stable \cup changed
  /\ \A c \in copied :
       /\ <<c[1], c[2]>> \in Distfiles /\ c[1] \in Stable \cup changed
       /\ c[3] \in dest /\ Normal[c[2]] # Outside
       /\ Base[c[3]] = Base[Normal[c[2]]]
  /\ AuditCatches

(* The tool that nobody runs has done nothing. *)
OneTool ==
  /\ tool = "bless" => rows = {} /\ copied = {} /\ dat = "idle"
  /\ tool = "distcheck" => bat = "idle" /\ disk = "none"

ReleaseInv ==
  TypeOK /\ SnapshotKept /\ DependsKept /\ DependsLoaded /\ CopiesKept /\ OneTool

LEMMA InvInit == Init => ReleaseInv
  BY DEF Init, TablesInit, BlessInit, DistInit, ReleaseInv, TypeOK, TablesType, BlessType,
         DistType, Cluster!QueueInit, Cluster!QueueType, SnapshotKept, DependsKept,
         DependsListed, DependsLoaded, DependsComplete, CopiesKept, AuditCatches, OneTool

(* A step of the cluster leaves a verdict alone or puts its port down as    *)
(* changed.                                                                *)
LEMMA ClusterShows ==
  ASSUME TypeOK, ClusterStep
  PROVE  /\ TablesType'
         /\ Stable' \subseteq Stable /\ changed \subseteq changed'
         /\ Stable \cup changed \subseteq Stable' \cup changed'
         /\ \A p \in Ports \ changed' : status'[p] = status[p]
<1> USE DEF TypeOK, TablesType, ClusterStep, Cluster!QueueType
<1>1. Cluster!QueueType'
  BY DEF Cluster!QueueNext, Cluster!Take, Cluster!Report, Cluster!Deliver, Cluster!Drop,
         Cluster!Withdraw
<1>2. changed' = changed \cup {p \in Ports : status'[p] # status[p]}
  OBVIOUS
<1>3. QED
  BY <1>1, <1>2 DEF Stable

LEMMA ClusterKeeps ==
  ASSUME ReleaseInv, ClusterStep, UNCHANGED <<bless, distcheck>>
  PROVE  ReleaseInv'
<1>1. /\ TypeOK /\ SnapshotKept /\ DependsKept /\ DependsLoaded /\ CopiesKept
      /\ UNCHANGED <<bat, todo, row, packages, depends, omitted, skipped, c2, disk, blessed,
                     dat, rows, dest, copied, listed>>
  BY DEF ReleaseInv, bless, draft, distcheck
<1>2. /\ TablesType'
      /\ Stable' \subseteq Stable /\ changed \subseteq changed'
      /\ Stable \cup changed \subseteq Stable' \cup changed'
      /\ \A p \in Ports \ changed' : status'[p] = status[p]
  BY <1>1, ClusterShows
<1>3. TypeOK'
  BY <1>1, <1>2 DEF TypeOK, BlessType, DistType
<1>4. SnapshotKept'
  BY <1>1, <1>2 DEF SnapshotKept
<1>5. DependsKept'
  BY <1>1, <1>2 DEF DependsKept, DependsListed
<1>6. DependsLoaded'
  BY <1>1, <1>2, RunDependsAssumption DEF DependsLoaded, DependsComplete
<1>7. CopiesKept'
  BY <1>1, <1>2 DEF CopiesKept, AuditCatches
<1>8. OneTool'
  BY <1>1 DEF ReleaseInv, OneTool, ClusterStep
<1>9. QED
  BY <1>3, <1>4, <1>5, <1>6, <1>7, <1>8 DEF ReleaseInv

LEMMA BlessType1 ==
  ASSUME TypeOK, SnapshotKept, BlessStep, UNCHANGED distcheck
  PROVE  TypeOK'
<1> USE DEF TypeOK, TablesType, BlessType, DistType, Cluster!QueueType, columns, distcheck,
        draft
<1>1. CASE Query \/ CreateIndex \/ LastRow \/ LoadLists \/ CommitIndex \/ MarkBlessed
  BY <1>1 DEF Query, CreateIndex, LastRow, LoadLists, CommitIndex, MarkBlessed
<1>2. CASE LoadDepends
  BY <1>2 DEF LoadDepends, DependsRows, SnapshotKept
<1>3. CASE BlessFails
  BY <1>3 DEF BlessFails
<1>4. CASE \E p \in Ports : NextRow(p)
  BY <1>4 DEF NextRow, MissingFile, RemoveRestricted, InsertPackage
<1>5. QED
  BY <1>1, <1>2, <1>3, <1>4 DEF BlessStep

LEMMA BlessKeeps ==
  ASSUME ReleaseInv, BlessStep, UNCHANGED distcheck
  PROVE  SnapshotKept' /\ DependsKept' /\ DependsLoaded'
<1>1. /\ TypeOK /\ SnapshotKept /\ DependsKept /\ DependsLoaded
      /\ UNCHANGED status
  BY DEF ReleaseInv, BlessStep, Query, CreateIndex, LastRow, LoadLists, CommitIndex,
         MarkBlessed, LoadDepends, BlessFails, NextRow, columns
<1> USE DEF SnapshotKept, DependsKept, DependsLoaded, DependsListed, DependsComplete, draft
<1>2. CASE Query
  BY <1>1, <1>2, RunDependsAssumption DEF Query, Stable, TypeOK, BlessType
<1>3. CASE CreateIndex \/ LastRow \/ LoadLists \/ CommitIndex \/ MarkBlessed
  BY <1>1, <1>3 DEF CreateIndex, LastRow, LoadLists, CommitIndex, MarkBlessed, Stable
<1>4. CASE LoadDepends
  BY <1>1, <1>4, RunDependsAssumption DEF LoadDepends, DependsRows, Stable
<1>5. CASE BlessFails
  BY <1>1, <1>5 DEF BlessFails, Stable
<1>6. CASE \E p \in Ports : NextRow(p)
  BY <1>1, <1>6 DEF NextRow, MissingFile, RemoveRestricted, InsertPackage, Stable
<1>7. QED
  BY <1>2, <1>3, <1>4, <1>5, <1>6 DEF BlessStep

LEMMA BlessStepKeeps ==
  ASSUME ReleaseInv, tool = "bless", BlessStep, UNCHANGED distcheck
  PROVE  ReleaseInv'
<1>1. TypeOK' /\ SnapshotKept' /\ DependsKept' /\ DependsLoaded'
  BY BlessType1, BlessKeeps DEF ReleaseInv
<1>2. UNCHANGED <<tool, rows, copied, dat>>
  BY DEF distcheck, BlessStep, Query, CreateIndex, LastRow, LoadLists, CommitIndex,
         MarkBlessed, LoadDepends, BlessFails, NextRow, columns
<1>3. OneTool' /\ CopiesKept'
  BY <1>2 DEF ReleaseInv, OneTool, CopiesKept, AuditCatches
<1>4. QED
  BY <1>1, <1>3 DEF ReleaseInv

(* Whatever distcheck finds for a name has the last part of its path. *)
LEMMA FindBase ==
  ASSUME NEW dir, NEW n, NEW f \in Find(dir, n)
  PROVE  f \in dir /\ Base[f] = Base[Normal[n]]
  BY DEF Find

LEMMA DistTypeKept ==
  ASSUME TypeOK, DistStep, UNCHANGED bless
  PROVE  TypeOK'
<1> USE DEF TypeOK, TablesType, BlessType, DistType, Cluster!QueueType, columns, bless, draft
<1>1. CASE Query1 \/ DistFails
  BY <1>1 DEF Query1, DistFails
<1>2. CASE ListRestricted
  <2>1. listed' \subseteq Ports \X Files
    <3> DEFINE found == {e \in MayNot : Find(dest, e[2]) # {}}
    <3>1. PICK at \in [found -> dest] : listed' = {<<e[1], at[e]>> : e \in found}
      BY <1>2 DEF ListRestricted
    <3>2. \A e \in found : e[1] \in Ports
      BY DistfilesAssumption DEF MayNot
    <3> HIDE DEF found
    <3>3. \A e \in found : <<e[1], at[e]>> \in Ports \X Files
      BY <3>2
    <3>4. QED
      BY <3>1, <3>3
  <2>2. QED
    BY <1>2, <2>1 DEF ListRestricted
<1>3. ASSUME NEW r \in rows, SkipRow(r) \/ \E f \in Source : CopyFile(r, f)
      PROVE  TypeOK'
  BY <1>3, DistfilesAssumption DEF SkipRow, CopyFile
<1>4. QED
  BY <1>1, <1>2, <1>3 DEF DistStep

LEMMA DistStepKeeps ==
  ASSUME ReleaseInv, tool = "distcheck", DistStep, UNCHANGED bless
  PROVE  ReleaseInv'
<1>1. /\ TypeOK /\ CopiesKept /\ TypeOK'
      /\ UNCHANGED <<tool, bat, todo, row, packages, depends, omitted, skipped, c2, disk>>
  BY DistTypeKept DEF ReleaseInv, bless, draft, DistStep, Query1, DistFails, ListRestricted,
     SkipRow, CopyFile, columns
<1>2. UNCHANGED status
  BY DEF DistStep, Query1, DistFails, ListRestricted, SkipRow, CopyFile, columns
<1>3. OneTool' /\ SnapshotKept' /\ DependsKept' /\ DependsLoaded'
  BY <1>1 DEF ReleaseInv, OneTool, SnapshotKept, DependsKept, DependsLoaded, DependsListed,
     DependsComplete
<1>4. CopiesKept'
  <2> USE DEF CopiesKept
  <2>1. CASE Query1
    BY <2>1, <1>1, <1>2 DEF Query1, Stable, AuditCatches, TypeOK, TablesType, Cluster!QueueType
  <2>2. CASE DistFails
    BY <2>2, <1>1, <1>2 DEF DistFails, Stable, AuditCatches
  <2>3. CASE ListRestricted
    <3>1. AuditCatches'
      <4> SUFFICES ASSUME NEW c \in copied, <<c[1], c[2]>> \in RestrictedFiles,
                          c[1] \notin changed
                   PROVE  \E e \in listed' : e[1] = c[1] /\ Base[e[2]] = Base[c[3]]
        BY <2>3 DEF AuditCatches, ListRestricted
      <4>1. /\ <<c[1], c[2]>> \in Distfiles /\ status[c[1]] \in Published
            /\ c[3] \in dest /\ Normal[c[2]] # Outside /\ Base[c[3]] = Base[Normal[c[2]]]
        BY <1>1 DEF Stable
      <4>2. c[1] \in Ports /\ c[2] \in Names
        BY <4>1, DistfilesAssumption
      <4>3. <<c[1], c[2]>> \in MayNot /\ Find(dest, c[2]) # {}
        BY <4>1, <4>2 DEF MayNot, Joined, Find
      <4>4. PICK f \in Find(dest, c[2]) : <<c[1], f>> \in listed'
        BY <2>3, <4>2, <4>3 DEF ListRestricted
      <4>5. QED
        BY <4>1, <4>4, FindBase
    <3>2. QED
      BY <2>3, <3>1, <1>1, <1>2 DEF ListRestricted, Stable
  <2>4. ASSUME NEW r \in rows, SkipRow(r) PROVE CopiesKept'
    BY <2>4, <1>1, <1>2 DEF SkipRow, Stable, AuditCatches
  <2>5. ASSUME NEW r \in rows, NEW f \in Source, CopyFile(r, f) PROVE CopiesKept'
    <3>1. f \in Files /\ Base[f] = Base[Normal[r[2]]] /\ Normal[r[2]] # Outside
      BY <2>5, DistfilesAssumption DEF CopyFile, Find
    <3>2. QED
      BY <2>5, <3>1, <1>1, <1>2 DEF CopyFile, Stable, AuditCatches
  <2>6. QED
    BY <2>1, <2>2, <2>3, <2>4, <2>5 DEF DistStep
<1>5. QED
  BY <1>1, <1>3, <1>4 DEF ReleaseInv

LEMMA ReleaseStep == ReleaseInv /\ [Next]_release => ReleaseInv'
<1> SUFFICES ASSUME ReleaseInv, [Next]_release PROVE ReleaseInv'
  OBVIOUS
<1>1. CASE Next
  BY <1>1, ClusterKeeps, BlessStepKeeps, DistStepKeeps DEF Next
<1>2. CASE UNCHANGED release
  BY <1>2 DEF release, bless, draft, distcheck, columns, ReleaseInv, TypeOK, TablesType,
     BlessType, DistType, Cluster!QueueType, SnapshotKept, DependsKept, DependsListed,
     DependsLoaded, DependsComplete, CopiesKept, AuditCatches, OneTool, Stable
<1>3. QED
  BY <1>1, <1>2

(* The invariant of magus-bless and distcheck at work beside the cluster. *)
THEOREM ReleaseInvariant == Spec => []ReleaseInv
  BY InvInit, ReleaseStep, PTL DEF Spec

(* The tables and what the tools keep in hand have their types, whatever    *)
(* the ports, their dependencies and their files.                          *)
THEOREM ReleaseTypes == Spec => []TypeOK
  BY ReleaseInvariant, PTL DEF ReleaseInv

(* In an index that magus-bless has committed every dependency leads to a   *)
(* package of the index, unless it was reported or changed its verdict      *)
(* while magus-bless was at work.                                          *)
THEOREM IndexIsClosed == Spec => []DependsListed
<1>1. ReleaseInv => DependsListed
  BY DEF ReleaseInv, DependsKept
<1>2. QED
  BY <1>1, ReleaseInvariant, PTL

(* And none is missing between packages whose verdicts stayed, but for      *)
(* ports reported as skipped, if the second connection held.               *)
THEOREM IndexIsComplete == Spec => []DependsComplete
<1>1. ReleaseInv => DependsComplete
  BY DEF ReleaseInv, DependsLoaded
<1>2. QED
  BY <1>1, ReleaseInvariant, PTL

(* What query1 of distcheck lets through of the restricted files, query2    *)
(* lists.                                                                  *)
THEOREM RestrictedIsListed == Spec => []AuditCatches
<1>1. ReleaseInv => AuditCatches
  BY DEF ReleaseInv, CopiesKept
<1>2. QED
  BY <1>1, ReleaseInvariant, PTL

(* A run is marked blessed only with every publishable port of stable       *)
(* verdict in a committed index or reported as left out.                   *)
THEOREM BlessedIsAccounted == Spec => BlessedAccounted
<1> DEFINE Marked ==
      ~blessed /\ blessed' =>
        \A p \in Ports \ changed :
          status[p] \in Published => disk = "whole" /\ p \in packages \cup omitted
<1>1. ReleaseInv /\ [Next]_release => [Marked]_release
  <2> SUFFICES ASSUME ReleaseInv, [Next]_release, ~blessed, blessed'
               PROVE  bat = "mark"
    BY DEF ReleaseInv, SnapshotKept, Stable
  <2>1. CASE UNCHANGED release
    BY <2>1 DEF release, bless
  <2>2. CASE BlessStep
    BY <2>2 DEF ReleaseInv, TypeOK, BlessType, BlessStep, Query, CreateIndex, LastRow,
       LoadLists, CommitIndex, MarkBlessed, LoadDepends, BlessFails, NextRow
  <2>3. CASE UNCHANGED bless
    BY <2>3 DEF bless
  <2>4. QED
    BY <2>1, <2>2, <2>3 DEF Next
<1>2. QED
  BY <1>1, ReleaseInvariant, PTL DEF Spec, BlessedAccounted
=============================================================================
