----------------------------- MODULE MagusDistcheck -----------------------------
(***************************************************************************)
(* distcheck: copies the distribution files of a run that may be given     *)
(* away from one directory to another, then lists what it finds there that *)
(* may not.  A row of distfiles keeps its name as the port wrote it, with   *)
(* its site tag; the file on disk has the name without.                    *)
(***************************************************************************)
EXTENDS MagusTables

CONSTANTS Names,            \* file names as the tables have them
          Files,            \* paths of files below the two directories
          Normal,           \* normalize_distfile_name: the path a name stands for
          Base,             \* the last part of a path
          Distfiles,        \* the rows <<port, name>> of distfiles
          RestrictedFiles,  \* the rows <<port, name>> of restricted_distfiles
          Source            \* the files below the source directory

Outside == "outside"   \* a path that is absolute or climbs out of the directory

ASSUME DistfilesAssumption ==
  /\ Distfiles \subseteq Ports \X Names
  /\ RestrictedFiles \subseteq Ports \X Names
  /\ Source \subseteq Files /\ Outside \notin Files
  /\ Normal \in [Names -> Files \cup {Outside}]
  /\ DOMAIN Base = Files

VARIABLES
  dat,          \* where distcheck is
  rows,         \* the rows of the first query still to do
  dest,         \* the files below the destination directory
  copied,       \* what this execution copied: <<port, name, path>>
  listed        \* what it listed: <<port, path>>

distcheck == <<dat, rows, dest, copied, listed>>

NoRow == "none"

(* The names restricted_distfiles has for p, or the NULL of a left join. *)
Joined(p) ==
  LET names == {n \in Names : <<p, n>> \in RestrictedFiles}
  IN  IF names = {} THEN {NoRow} ELSE names

(* The paths below a directory at which a name may be found: its own, or    *)
(* any with the same last part.  One that leads outside is not found.      *)
Find(dir, n) ==
  IF Normal[n] \in dir
  THEN {Normal[n]}
  ELSE {f \in dir : Normal[n] # Outside /\ Base[f] = Base[Normal[n]]}

DistType ==
  /\ dat \in {"idle", "copy", "listed"}
  /\ rows \subseteq Ports \X Names \X (Names \cup {NoRow})
  /\ dest \subseteq Files
  /\ copied \subseteq Ports \X Names \X Files
  /\ listed \subseteq Ports \X Files

DistInit == dat = "idle" /\ rows = {} /\ dest = {} /\ copied = {} /\ listed = {}

(* The first query: every distfile of a tested port that may be given away, *)
(* joined with every restricted name of the port that differs from it.     *)
Query1 ==
  /\ dat \in {"idle", "listed"}
  /\ rows' = {r \in Ports \X Names \X (Names \cup {NoRow}) :
                /\ <<r[1], r[2]>> \in Distfiles /\ r[3] \in Joined(r[1])
                /\ r[1] \notin restricted /\ status[r[1]] \in Published
                /\ r[3] # r[2]}
  /\ dat' = "copy" /\ copied' = {} /\ listed' = {}
  /\ changed' = {}
  /\ UNCHANGED <<columns, pkg, dest>>

(* The file is not there, or copied already, or cannot be copied. *)
SkipRow(r) ==
  /\ dat = "copy" /\ r \in rows
  /\ rows' = rows \ {r}
  /\ UNCHANGED <<columns, pkg, changed, dat, dest, copied, listed>>

CopyFile(r, f) ==
  /\ dat = "copy" /\ r \in rows
  /\ f \in Find(Source, r[2]) \ dest
  /\ rows' = rows \ {r}
  /\ dest' = dest \cup {f}
  /\ copied' = copied \cup {<<r[1], r[2], f>>}
  /\ UNCHANGED <<columns, pkg, changed, dat, listed>>

(* A mistake: only whole ports are looked at.                               *)
MayNotWholePorts == {e \in Distfiles : status[e[1]] \in Published /\ e[1] \in restricted}

(* The second query: the distfiles that may not be given away. *)
MayNot ==
  {e \in Distfiles :
     status[e[1]] \in Published /\ (e[1] \in restricted \/ e[2] \in Joined(e[1]))}

(* It lists, for each of these, a file it finds in the destination.  A name *)
(* it does not find there is tried as it is written; what that leads to is  *)
(* no file that was copied.                                                *)
ListRestricted ==
  /\ dat = "copy" /\ rows = {}
  /\ dat' = "listed"
  /\ LET found == {e \in MayNot : Find(dest, e[2]) # {}}
     IN  \E at \in [found -> dest] :
           /\ \A e \in found : at[e] \in Find(dest, e[2])
           /\ listed' = {<<e[1], at[e]>> : e \in found}
  /\ UNCHANGED <<columns, pkg, changed, rows, dest, copied>>

(* An exception ends the program; what it copied stays. *)
DistFails ==
  /\ dat = "copy"
  /\ dat' = "idle" /\ rows' = {}
  /\ UNCHANGED <<columns, pkg, changed, dest, copied, listed>>

DistStep ==
  \/ Query1 \/ ListRestricted \/ DistFails
  \/ \E r \in rows : SkipRow(r) \/ \E f \in Source : CopyFile(r, f)
=============================================================================
