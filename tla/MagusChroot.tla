------------------------------- MODULE MagusChroot -------------------------------
(***************************************************************************)
(* The chroots of one machine: a reference tree unpacked from the bootstrap *)
(* tarball, and for each worker id a copy of it that builds modify and that *)
(* the next worker of that id cleans, guided by marker files and mounts.   *)
(* This is the variant with cpdup, without ZFS and memory disks.           *)
(***************************************************************************)
EXTENDS Naturals

CONSTANTS Workers,    \* the worker ids
          First,      \* the id with which the daemon prepares the reference tree
          Versions,   \* the bootstrap tarballs, in order: later ones replace earlier ones
          Nothing,    \* no tree, no checksum
          Mixed,      \* a tree that is not a whole unpacked tarball
          Faults      \* of die, kill, killMarker, crash, replace

ASSUME ChrootAssumption ==
  /\ First \in Workers
  /\ Versions \subseteq Nat /\ Nothing \notin Versions /\ Mixed \notin Versions
  /\ Nothing # Mixed

VARIABLES
  tarball,    \* the bootstrap tarball at its path
  daemon,     \* "down", "init" while it prepares the reference tree, or "up"
  refTree,    \* what the reference tree holds
  refSum,     \* its .checksum
  at,         \* where the process that uses a worker id is
  tree,       \* what a worker's root holds
  sum,        \* its .checksum
  clean,      \* the roots with a .clean marker
  dirty,      \* the roots with a .dirty marker
  mounts      \* what is mounted below a root

reference == <<refTree, refSum>>
roots == <<tree, sum, clean, dirty, mounts>>
chroot == <<tarball, daemon, reference, at, roots>>

Trees == Versions \cup {Nothing, Mixed}
Sums == Versions \cup {Nothing}
Loopbacks == {"mports", "src"}
Mounts == Loopbacks \cup {"dev"}   \* dev stands for all that is mounted after the loopbacks

Preparing == {"ref", "rmref", "untar", "check", "delete", "markers", "touch",
              "strict", "sync", "cpdup", "mount"}
ChrootPC == Preparing \cup {"idle", "ready", "marking", "use"}

TypeOK ==
  /\ tarball \in Versions
  /\ daemon \in {"down", "init", "up"}
  /\ refTree \in Trees /\ refSum \in Sums
  /\ at \in [Workers -> ChrootPC]
  /\ tree \in [Workers -> Trees] /\ sum \in [Workers -> Sums]
  /\ clean \subseteq Workers /\ dirty \subseteq Workers
  /\ mounts \in [Workers -> SUBSET Mounts]

Init ==
  /\ tarball \in Versions
  /\ daemon = "down"
  /\ refTree = Nothing /\ refSum = Nothing
  /\ at = [w \in Workers |-> "idle"]
  /\ tree = [w \in Workers |-> Nothing] /\ sum = [w \in Workers |-> Nothing]
  /\ clean = {} /\ dirty = {}
  /\ mounts = [w \in Workers |-> {}]

Go(w, from, to) ==
  /\ at[w] = from
  /\ at' = [at EXCEPT ![w] = to]
  /\ UNCHANGED <<tarball, daemon>>

(* init_chroot: the daemon prepares one chroot, and with it the reference   *)
(* tree, before it forks a worker.                                         *)
StartDaemon ==
  /\ daemon = "down"
  /\ daemon' = "init"
  /\ at' = [at EXCEPT ![First] = "ref"]
  /\ UNCHANGED <<tarball, reference, roots>>

(* A worker is forked and calls prep_chroot. *)
New(w) ==
  /\ daemon = "up"
  /\ Go(w, "idle", "ref")
  /\ UNCHANGED <<reference, roots>>

(* _create_reference_dir: nothing to do when the checksums agree. *)
CheckReference(w) ==
  /\ Go(w, "ref", IF refSum = tarball THEN "check" ELSE "rmref")
  /\ UNCHANGED <<reference, roots>>

(* A mistake: what is left of the tree gets a checksum of its own. *)
RemoveReferenceRehash(w) ==
  /\ Go(w, "rmref", "untar")
  /\ refTree' = Mixed /\ refSum' = Mixed
  /\ UNCHANGED roots

(* rmtree takes the files in any order, .checksum among them. *)
RemoveReference(w) ==
  /\ Go(w, "rmref", "untar")
  /\ refTree' = Mixed /\ refSum' \in {refSum, Nothing}
  /\ UNCHANGED roots

(* tar, mtree and the rest; the checksum comes last. *)
Untar(w) ==
  /\ Go(w, "untar", "check")
  /\ refTree' = tarball /\ refSum' = tarball
  /\ UNCHANGED roots

(* A mistake: the loopback is not looked at. *)
CheckLoopbackSkipped(w) ==
  /\ Go(w, "check", "markers")
  /\ UNCHANGED <<reference, roots>>

(* _init_cpdup: a root without the tree of ports below it is deleted. *)
CheckLoopback(w) ==
  /\ Go(w, "check", IF tree[w] # Nothing /\ "mports" \notin mounts[w]
                    THEN "delete" ELSE "markers")
  /\ UNCHANGED <<reference, roots>>

(* delete() does not look whether its umounts succeed.  Below what is still *)
(* mounted rmtree removes nothing, but it has removed something, and that   *)
(* is enough to go on.                                                     *)
Delete(w) ==
  /\ Go(w, "delete", "markers")
  /\ \E left \in SUBSET mounts[w] :
       /\ left # {} => "die" \in Faults
       /\ mounts' = [mounts EXCEPT ![w] = left]
       /\ tree' = [tree EXCEPT ![w] = IF left = {} THEN Nothing ELSE Mixed]
  /\ sum' = [sum EXCEPT ![w] = Nothing]
  /\ clean' = clean \ {w} /\ dirty' = dirty \ {w}
  /\ UNCHANGED reference

(* A clean root that matches the reference is used as it is. *)
UseClean(w) ==
  /\ w \in clean /\ sum[w] = tarball
  /\ Go(w, "markers", "ready")
  /\ UNCHANGED <<reference, roots>>

(* A clean root of an older bootstrap becomes a dirty one, in two steps. *)
ForgetClean(w) ==
  /\ w \in clean /\ sum[w] # tarball
  /\ Go(w, "markers", "touch")
  /\ clean' = clean \ {w}
  /\ UNCHANGED <<reference, tree, sum, dirty, mounts>>

Touch(w) ==
  /\ Go(w, "touch", "strict")
  /\ dirty' = dirty \cup {w}
  /\ UNCHANGED <<reference, tree, sum, clean, mounts>>

CleanDirty(w) ==
  /\ w \in dirty \ clean
  /\ Go(w, "markers", "strict")
  /\ UNCHANGED <<reference, roots>>

(* A mistake: _unmount_loopbacks without its argument ignores what fails. *)
UnmountAnyway(w) ==
  /\ Go(w, "strict", "sync")
  /\ \E left \in SUBSET mounts[w] : mounts' = [mounts EXCEPT ![w] = left]
  /\ UNCHANGED <<reference, tree, sum, clean, dirty>>

(* _clean: _unmount_loopbacks(1) goes on only when nothing is mounted.  The  *)
(* flags are cleared, which changes nothing that is told apart here.       *)
Unmount(w) ==
  /\ Go(w, "strict", "sync")
  /\ mounts' = [mounts EXCEPT ![w] = {}]
  /\ UNCHANGED <<reference, tree, sum, clean, dirty>>

(* Without a marker the root is taken for a new one. *)
MakeRoot(w) ==
  /\ w \notin clean \cup dirty
  /\ Go(w, "markers", "sync")
  /\ tree' = [tree EXCEPT ![w] = IF @ = Nothing THEN Mixed ELSE @]
  /\ UNCHANGED <<reference, sum, clean, dirty, mounts>>

(* _sync_reference_dir: cpdup takes the files in any order, the markers and *)
(* the checksum among them.  A tree that is equal to begin with stays so.  *)
SyncStart(w) ==
  /\ Go(w, "sync", "cpdup")
  /\ tree' = [tree EXCEPT ![w] = IF @ = refTree THEN @ ELSE Mixed]
  /\ sum' \in {sum, [sum EXCEPT ![w] = refSum]}
  /\ clean' \in {clean, clean \cup {w}}
  /\ dirty' \in {dirty, dirty \ {w}}
  /\ UNCHANGED <<reference, mounts>>

(* It succeeds; over what is still mounted it may or may not. *)
SyncDone(w) ==
  /\ Go(w, "cpdup", "mount")
  /\ tree' = [tree EXCEPT ![w] = refTree] /\ sum' = [sum EXCEPT ![w] = refSum]
  /\ clean' = clean \cup {w} /\ dirty' = dirty \ {w}
  /\ UNCHANGED <<reference, mounts>>

(* _mount_loopbacks: the loopbacks in any order, then the rest, which is    *)
(* mounted or, since nobody looks at the result, taken for it.  A loopback  *)
(* that is mounted already is mounted over, or that fails (Die).           *)
Mount(w, d) ==
  /\ d \notin mounts[w] \/ d = "dev"
  /\ d = "dev" => Loopbacks \subseteq mounts[w]
  /\ Go(w, "mount", IF d = "dev" THEN "ready" ELSE "mount")
  /\ mounts' = [mounts EXCEPT ![w] = @ \cup {d}]
  /\ UNCHANGED <<reference, tree, sum, clean, dirty>>

(* The daemon has prepared its chroot and begins to fork. *)
DaemonUp ==
  /\ daemon = "init" /\ at[First] = "ready"
  /\ daemon' = "up"
  /\ at' = [at EXCEPT ![First] = "idle"]
  /\ UNCHANGED <<tarball, reference, roots>>

(* A mistake: .dirty is written and .clean stays. *)
MarkDirtyKeepsClean(w) ==
  /\ daemon = "up"
  /\ Go(w, "ready", "marking")
  /\ UNCHANGED <<reference, roots>>

(* prep_chroot goes on: mark_dirty, in two steps, then the build. *)
MarkDirty(w) ==
  /\ daemon = "up"
  /\ Go(w, "ready", "marking")
  /\ clean' = clean \ {w}
  /\ UNCHANGED <<reference, tree, sum, dirty, mounts>>

MarkedDirty(w) ==
  /\ Go(w, "marking", "use")
  /\ dirty' = dirty \cup {w}
  /\ UNCHANGED <<reference, tree, sum, clean, mounts>>

(* Dependencies and distfiles are injected and make runs. *)
Build(w) ==
  /\ Go(w, "use", "use")
  /\ tree' = [tree EXCEPT ![w] = Mixed]
  /\ UNCHANGED <<reference, sum, clean, dirty, mounts>>

Exit(w) ==
  /\ Go(w, "use", "idle")
  /\ UNCHANGED <<reference, roots>>

(* The process that uses w ends; the daemon does too while it prepares. *)
Ends(w) ==
  /\ at[w] # "idle"
  /\ at' = [at EXCEPT ![w] = "idle"]
  /\ daemon' = IF daemon = "init" THEN "down" ELSE daemon
  /\ UNCHANGED tarball

(* A command fails and die ends the work on this chroot.  cpdup needs no   *)
(* fault to fail over a mount.                                             *)
Die(w) ==
  /\ at[w] \in {"untar", "cpdup", "mount"}
  /\ mounts[w] = {} \/ at[w] # "cpdup" => "die" \in Faults
  /\ Ends(w)
  /\ UNCHANGED <<reference, roots>>

(* The work ends with the umounts half done.  _clean dies when anything is  *)
(* still mounted, delete() when it cannot clear the flags below that; a     *)
(* signal ends either.                                                     *)
DieUnmount(w) ==
  /\ Faults \cap {"die", "kill"} # {}
  /\ at[w] \in {"strict", "delete"}
  /\ Ends(w)
  /\ \E left \in SUBSET mounts[w] : mounts' = [mounts EXCEPT ![w] = left]
  /\ UNCHANGED <<reference, tree, sum, clean, dirty>>

(* A signal ends the process between two statements; killMarker is the      *)
(* moment between the unlink of .clean and the creation of .dirty, in       *)
(* _init_cpdup as in mark_dirty.                                           *)
Kill(w) ==
  /\ (IF at[w] \in {"touch", "marking"} THEN "killMarker" ELSE "kill") \in Faults
  /\ Ends(w)
  /\ UNCHANGED <<reference, roots>>

(* rmtree is interrupted: files are missing. *)
KillDelete(w) ==
  /\ "kill" \in Faults
  /\ at[w] = "delete" /\ Ends(w)
  /\ \E left \in SUBSET mounts[w] :
       /\ left # {} => "die" \in Faults
       /\ mounts' = [mounts EXCEPT ![w] = left]
  /\ tree' = [tree EXCEPT ![w] = Mixed]
  /\ sum' \in {sum, [sum EXCEPT ![w] = Nothing]}
  /\ clean' \in {clean, clean \ {w}} /\ dirty' \in {dirty, dirty \ {w}}
  /\ UNCHANGED reference

(* The machine goes down, and with it everything that was mounted. *)
CrashMachine ==
  /\ "crash" \in Faults
  /\ daemon' = "down"
  /\ at' = [w \in Workers |-> "idle"]
  /\ mounts' = [w \in Workers |-> {}]
  /\ UNCHANGED <<tarball, reference, tree, sum, clean, dirty>>

(* The daemon stops when its workers have, or replaces the ports tree for a *)
(* new run, which empties the loopbacks, and starts again.                 *)
Stop ==
  /\ daemon = "up" /\ \A w \in Workers : at[w] = "idle"
  /\ daemon' = "down"
  /\ mounts' \in {mounts, [w \in Workers |-> mounts[w] \ {"mports"}]}
  /\ UNCHANGED <<tarball, reference, at, tree, sum, clean, dirty>>

(* A new bootstrap tarball is put in place between two starts. *)
Replace ==
  /\ "replace" \in Faults
  /\ daemon = "down" /\ \A w \in Workers : at[w] = "idle"
  /\ tarball' \in {v \in Versions : v > tarball}
  /\ UNCHANGED <<daemon, reference, at, roots>>

PrepareStep(w) ==
  \/ CheckReference(w) \/ RemoveReference(w) \/ Untar(w)
  \/ CheckLoopback(w) \/ Delete(w) \/ UseClean(w) \/ ForgetClean(w) \/ Touch(w)
  \/ CleanDirty(w) \/ Unmount(w) \/ MakeRoot(w) \/ SyncStart(w) \/ SyncDone(w)
  \/ \E d \in Mounts : Mount(w, d)

WorkerStep(w) == New(w) \/ MarkDirty(w) \/ MarkedDirty(w) \/ Build(w) \/ Exit(w)

FaultStep(w) == Die(w) \/ DieUnmount(w) \/ Kill(w) \/ KillDelete(w)

Next ==
  \/ StartDaemon \/ DaemonUp \/ Stop \/ CrashMachine \/ Replace
  \/ \E w \in Workers : PrepareStep(w) \/ WorkerStep(w) \/ FaultStep(w)

Spec == Init /\ [][Next]_chroot

(* new() returns a new directory or a cleaned up one: wherever processes    *)
(* were killed, commands failed or the machine went down before, and        *)
(* whatever bootstrap was in use then, what a worker is given is a whole    *)
(* copy of the current one (Chroot.pm:128-168).                            *)
ReadyIsReference == \A w \in Workers : at[w] = "ready" => tree[w] = tarball

(* Worker.pm:128: an interruption cannot leave modified state advertised as *)
(* clean.  A root nobody works on that would be taken as it is holds        *)
(* exactly the tree of its checksum.                                       *)
CleanIsWhole ==
  \A w \in clean : at[w] = "idle" /\ "mports" \in mounts[w] => tree[w] = sum[w]

(* Chroot.pm:617: cpdup must not sync over a loopback that is mounted.  It  *)
(* never meets the ports tree, and it meets another mount only in a root    *)
(* that delete() has just emptied, never in one that _clean brings up to    *)
(* date: there the umounts are checked.                                    *)
SyncUnmounted ==
  \A w \in Workers :
    /\ at[w] \in {"sync", "cpdup"} => "mports" \notin mounts[w]
    /\ at[w] = "sync" /\ mounts[w] # {} => sum[w] = Nothing /\ w \notin clean \cup dirty
=============================================================================
