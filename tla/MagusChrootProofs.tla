---------------------------- MODULE MagusChrootProofs ----------------------------
(***************************************************************************)
(* Chroots are right for any number of workers and bootstrap tarballs, as  *)
(* long as no process is killed between the two statements that exchange   *)
(* one marker for another.                                                 *)
(***************************************************************************)
EXTENDS MagusChroot, TLAPS

MarkersWhole == "killMarker" \notin Faults

USE DEF Trees, Sums, Loopbacks, Mounts, Preparing, ChrootPC

Before == {"idle", "ref", "rmref", "untar", "check"}
Synced == {"mount", "ready"}
After == ChrootPC \ Before

(* The reference tree is whole when its checksum is the one of the tarball, *)
(* and only the daemon replaces it, before it forks.                       *)
ReferenceOK ==
  /\ refSum = tarball => refTree = tarball
  /\ refSum # Nothing => refSum <= tarball
  /\ daemon = "up" => refSum = tarball
  /\ daemon = "down" => \A w \in Workers : at[w] = "idle"
  /\ daemon = "init" => \A w \in Workers \ {First} : at[w] = "idle"
  /\ \A w \in Workers :
       /\ at[w] \in After \cup {"check"} => refSum = tarball
       /\ at[w] \in {"rmref", "untar"} => daemon = "init" /\ refSum # tarball

(* A root that is mounted has a marker, and when it is .clean, it is whole. *)
Marked(w) ==
  "mports" \in mounts[w] =>
    w \in clean \cup dirty /\ (w \in clean => tree[w] = sum[w])

(* Nothing is mounted in a root, or delete() has just been at it. *)
Emptied(w) == "mports" \notin mounts[w] /\ (mounts[w] # {} => sum[w] = Nothing)

RootOK(w) ==
  /\ tree[w] = Nothing => w \notin clean \cup dirty /\ mounts[w] = {}
  /\ at[w] \in After \ {"delete", "markers"} => tree[w] # Nothing
  /\ at[w] \in Before => Marked(w)
  /\ at[w] = "delete" => "mports" \notin mounts[w]
  /\ at[w] = "markers" =>
       /\ w \in clean => tree[w] = sum[w]
       /\ w \notin clean \cup dirty => Emptied(w)
  /\ at[w] \in {"touch", "marking"} => w \notin clean
  /\ at[w] \in {"strict", "use"} => w \in dirty \ clean
  /\ at[w] = "sync" => Emptied(w) /\ (mounts[w] # {} => w \notin clean \cup dirty)
  /\ at[w] = "cpdup" => "mports" \notin mounts[w]
  /\ at[w] \in Synced => tree[w] = tarball /\ sum[w] = tarball /\ w \in clean

ChrootInv == TypeOK /\ ReferenceOK /\ \A w \in Workers : RootOK(w)

LEMMA ChrootInit == Init => ChrootInv
  BY ChrootAssumption
     DEF Init, ChrootInv, TypeOK, ReferenceOK, RootOK, Emptied, Marked, Before, After, Synced

(* What the step of one process leaves alone: everybody else's root. *)
Others(w) ==
  \A v \in Workers \ {w} :
    /\ at'[v] = at[v] /\ tree'[v] = tree[v] /\ sum'[v] = sum[v] /\ mounts'[v] = mounts[v]
    /\ v \in clean' <=> v \in clean
    /\ v \in dirty' <=> v \in dirty

LEMMA OthersKeep ==
  ASSUME NEW w \in Workers, Others(w), UNCHANGED tarball, \A v \in Workers : RootOK(v),
         RootOK(w)'
  PROVE  \A v \in Workers : RootOK(v)'
  BY DEF Others, RootOK, Emptied, Marked

LEMMA PrepareKeeps ==
  ASSUME ChrootInv, NEW w \in Workers, PrepareStep(w)
  PROVE  ChrootInv'
<1> USE ChrootAssumption DEF ChrootInv, Go, reference, roots
<1>0. ASSUME Delete(w)
      PROVE  /\ TypeOK' /\ mounts'[w] \subseteq mounts[w]
             /\ mounts'[w] # {} => tree'[w] # Nothing
  <2>1. PICK left \in SUBSET mounts[w] :
          /\ mounts' = [mounts EXCEPT ![w] = left]
          /\ tree' = [tree EXCEPT ![w] = IF left = {} THEN Nothing ELSE Mixed]
    BY <1>0 DEF Delete
  <2>2. left \in SUBSET Mounts
    BY DEF TypeOK
  <2>3. QED
    BY <1>0, <2>1, <2>2 DEF Delete, TypeOK
<1>1. TypeOK' /\ UNCHANGED <<tarball, daemon>>
  <2>1. CASE Delete(w)
    BY <2>1, <1>0 DEF Delete
  <2>2. CASE ~Delete(w)
    BY <2>2 DEF TypeOK, PrepareStep, CheckReference, RemoveReference, Untar, CheckLoopback,
       UseClean, ForgetClean, Touch, CleanDirty, Unmount, MakeRoot, SyncStart, SyncDone, Mount
  <2>3. QED
    BY <2>1, <2>2
<1>2. Others(w)
  BY DEF TypeOK, Others, PrepareStep, CheckReference, RemoveReference, Untar, CheckLoopback,
     Delete, UseClean, ForgetClean, Touch, CleanDirty, Unmount, MakeRoot, SyncStart,
     SyncDone, Mount
<1>3. ReferenceOK'
  <2> USE DEF TypeOK, ReferenceOK, After, Before
  <2>1. CASE CheckReference(w)
    BY <2>1, <1>1 DEF CheckReference
  <2>2. CASE RemoveReference(w) \/ Untar(w)
    BY <2>2, <1>1 DEF RemoveReference, Untar
  <2>3. CASE CheckLoopback(w)
    BY <2>3, <1>1 DEF CheckLoopback
  <2>4. CASE Delete(w) \/ UseClean(w) \/ ForgetClean(w) \/ Touch(w) \/ CleanDirty(w)
             \/ Unmount(w) \/ MakeRoot(w) \/ SyncStart(w) \/ SyncDone(w)
    BY <2>4, <1>1 DEF Delete, UseClean, ForgetClean, Touch, CleanDirty, Unmount, MakeRoot,
       SyncStart, SyncDone
  <2>5. CASE \E d \in Mounts : Mount(w, d)
    BY <2>5, <1>1 DEF Mount
  <2>6. QED
    BY <2>1, <2>2, <2>3, <2>4, <2>5 DEF PrepareStep
<1>4. RootOK(w)'
  <2> USE DEF RootOK, Emptied, Marked, TypeOK, After, Before, Synced
  <2>1. CASE CheckReference(w) \/ RemoveReference(w) \/ Untar(w) \/ CheckLoopback(w)
    BY <2>1 DEF CheckReference, RemoveReference, Untar, CheckLoopback
  <2>2. CASE UseClean(w) \/ ForgetClean(w) \/ Touch(w) \/ CleanDirty(w)
    BY <2>2 DEF UseClean, ForgetClean, Touch, CleanDirty
  <2>7. CASE Delete(w)
    <3>1. /\ at[w] = "delete" /\ at'[w] = "markers" /\ sum'[w] = Nothing
          /\ w \notin clean' \cup dirty'
      BY <2>7 DEF Delete
    <3>2. "mports" \notin mounts'[w] /\ (tree'[w] = Nothing => mounts'[w] = {})
      BY <3>1, <2>7, <1>0
    <3>3. QED
      BY <3>1, <3>2
  <2>3. CASE Unmount(w) \/ MakeRoot(w)
    BY <2>3 DEF Unmount, MakeRoot
  <2>4. CASE SyncStart(w) \/ SyncDone(w)
    BY <2>4 DEF SyncStart, SyncDone, ReferenceOK
  <2>5. CASE \E d \in Mounts : Mount(w, d)
    BY <2>5 DEF Mount
  <2>6. QED
    BY <2>1, <2>2, <2>3, <2>4, <2>5, <2>7 DEF PrepareStep
<1>5. QED
  BY <1>1, <1>2, <1>3, <1>4, OthersKeep

LEMMA WorkerKeeps ==
  ASSUME ChrootInv, NEW w \in Workers, WorkerStep(w)
  PROVE  ChrootInv'
<1> USE ChrootAssumption DEF ChrootInv, Go, reference, roots, WorkerStep, New, MarkDirty,
        MarkedDirty, Build, Exit
<1>1. TypeOK' /\ UNCHANGED <<tarball, daemon>>
  BY DEF TypeOK
<1>2. Others(w)
  BY DEF TypeOK, Others
<1>3. ReferenceOK'
  BY <1>1 DEF TypeOK, ReferenceOK, After, Before
<1>4. RootOK(w)'
  BY DEF RootOK, Emptied, Marked, TypeOK, After, Before, Synced
<1>5. QED
  BY <1>1, <1>2, <1>3, <1>4, OthersKeep

LEMMA FaultKeeps ==
  ASSUME MarkersWhole, ChrootInv, NEW w \in Workers, FaultStep(w)
  PROVE  ChrootInv'
<1> USE ChrootAssumption DEF ChrootInv, reference, roots
<1>1. UNCHANGED reference /\ Ends(w)
  BY DEF FaultStep, Die, DieUnmount, Kill, KillDelete
<1>2. Others(w)
  BY DEF TypeOK, Others, Ends, FaultStep, Die, DieUnmount, Kill, KillDelete
<1>3. ReferenceOK'
  BY <1>1 DEF TypeOK, ReferenceOK, After, Before, Ends
<1>4. TypeOK' /\ RootOK(w)'
  <2> USE DEF RootOK, Emptied, Marked, TypeOK, After, Before, Synced, Ends
  <2>1. CASE Die(w)
    BY <2>1 DEF Die
  <2>2. CASE DieUnmount(w)
    <3>1. PICK left \in SUBSET mounts[w] : mounts' = [mounts EXCEPT ![w] = left]
      BY <2>2 DEF DieUnmount
    <3>2. left \in SUBSET Mounts
      OBVIOUS
    <3>3. /\ TypeOK' /\ at'[w] = "idle" /\ mounts'[w] = left
          /\ UNCHANGED <<tree, sum, clean, dirty>>
      BY <2>2, <3>1, <3>2 DEF DieUnmount
    <3>4. RootOK(w)'
      BY <2>2, <3>3 DEF DieUnmount
    <3>5. QED
      BY <3>3, <3>4
  <2>3. CASE Kill(w)
    <3>1. at[w] \notin {"touch", "marking"}
      BY <2>3 DEF Kill, MarkersWhole
    <3>2. TypeOK' /\ at'[w] = "idle" /\ UNCHANGED <<tree, sum, clean, dirty, mounts>>
      BY <2>3 DEF Kill
    <3>3. Marked(w) /\ (tree[w] = Nothing => w \notin clean \cup dirty /\ mounts[w] = {})
      BY <3>1
    <3>4. QED
      BY <3>2, <3>3
  <2>4. CASE KillDelete(w)
    BY <2>4 DEF KillDelete
  <2>5. QED
    BY <2>1, <2>2, <2>3, <2>4 DEF FaultStep
<1>5. QED
  BY <1>1, <1>2, <1>3, <1>4, OthersKeep DEF Ends

LEMMA MachineKeeps ==
  ASSUME ChrootInv, StartDaemon \/ DaemonUp \/ Stop \/ CrashMachine \/ Replace
  PROVE  ChrootInv'
<1> USE ChrootAssumption DEF ChrootInv, reference, roots
<1>1. CASE StartDaemon
  BY <1>1 DEF StartDaemon, TypeOK, ReferenceOK, RootOK, Emptied, Marked, After, Before, Synced
<1>2. CASE DaemonUp
  BY <1>2 DEF DaemonUp, TypeOK, ReferenceOK, RootOK, Emptied, Marked, After, Before, Synced
<1>3. CASE Stop
  BY <1>3 DEF Stop, TypeOK, ReferenceOK, RootOK, Emptied, Marked, After, Before, Synced
<1>4. CASE CrashMachine
  BY <1>4 DEF CrashMachine, TypeOK, ReferenceOK, RootOK, Emptied, Marked, After, Before,
     Synced
<1>5. CASE Replace
  BY <1>5 DEF Replace, TypeOK, ReferenceOK, RootOK, Emptied, Marked, After, Before, Synced
<1>6. QED
  BY <1>1, <1>2, <1>3, <1>4, <1>5

LEMMA ChrootStep ==
  ASSUME MarkersWhole
  PROVE  ChrootInv /\ [Next]_chroot => ChrootInv'
<1> SUFFICES ASSUME ChrootInv, [Next]_chroot PROVE ChrootInv'
  OBVIOUS
<1>1. CASE Next
  BY <1>1, PrepareKeeps, WorkerKeeps, FaultKeeps, MachineKeeps DEF Next
<1>2. CASE UNCHANGED chroot
  BY <1>2 DEF chroot, reference, roots, ChrootInv, TypeOK, ReferenceOK, RootOK, Emptied, Marked
<1>3. QED
  BY <1>1, <1>2

(* The invariant holds wherever _init_cpdup is interrupted but there. *)
THEOREM ChrootInvariant == ASSUME MarkersWhole PROVE Spec => []ChrootInv
  BY ChrootInit, ChrootStep, PTL DEF Spec

(* The trees, the checksums and the markers have their types. *)
THEOREM ChrootTypes == ASSUME MarkersWhole PROVE Spec => []TypeOK
  BY ChrootInvariant, PTL DEF ChrootInv

(* A worker is given a whole copy of the current bootstrap, whatever         *)
(* happened to its root before.                                            *)
THEOREM ReadyIsWhole == ASSUME MarkersWhole PROVE Spec => []ReadyIsReference
<1>1. ChrootInv => ReadyIsReference
  BY DEF ChrootInv, RootOK, Synced, ReadyIsReference
<1>2. QED
  BY <1>1, ChrootInvariant, PTL

(* No interruption leaves a modified root behind that the next worker takes *)
(* for a clean one.                                                        *)
THEOREM CleanRootsAreWhole == ASSUME MarkersWhole PROVE Spec => []CleanIsWhole
<1>1. ChrootInv => CleanIsWhole
  BY DEF ChrootInv, RootOK, Before, Marked, CleanIsWhole, TypeOK
<1>2. QED
  BY <1>1, ChrootInvariant, PTL

(* And cpdup never runs over the ports tree, nor over any mount in a root   *)
(* that _clean works on: umounts that fail unseen in delete() leave other   *)
(* mounts in roots without checksum and markers only.                      *)
THEOREM SyncsUnmounted == ASSUME MarkersWhole PROVE Spec => []SyncUnmounted
<1>1. ChrootInv => SyncUnmounted
  BY DEF ChrootInv, RootOK, Emptied, SyncUnmounted
<1>2. QED
  BY <1>1, ChrootInvariant, PTL
=============================================================================
