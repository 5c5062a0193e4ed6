------------------------------- MODULE MagusWorker -------------------------------
(***************************************************************************)
(* The worker process of a lock (Magus::App::Slave::Worker), with the      *)
(* inner child that run_make_phase forks to work inside the chroot.        *)
(***************************************************************************)
EXTENDS MagusDB

Port(j) == job[j].port
PhaseOf(j) == job[j].phase

WStep(j, from, to) == pc[j] = from /\ Go(j, to)

(* run: the phase is marked running, and run_phase is entered. *)
Start(j) ==
  /\ WStep(j, "start", IF PhaseOf(j) = "scan" THEN "scan" ELSE "prep")
  /\ SetPhase(Port(j), PhaseOf(j), "running")
  /\ UNCHANGED <<status, pkg, locks, job, verdict, sig, daemons, admin>>

(* prep_chroot *)
PrepChroot(j) ==
  /\ WStep(j, "prep", "inject")
  /\ UNCHANGED <<db, job, verdict, sig, daemons, admin>>

(* The packages that must be copied into the chroot before make runs. *)
ToInject(j) ==
  CASE PhaseOf(j) = "build" -> build_depends_closure[Port(j)]
    [] PhaseOf(j) = "fetch" -> fetch_depends_closure[Port(j)]
    [] PhaseOf(j) = "test"  -> test_depends_closure[Port(j)]

(* Each dependency must be built and its package must be there; a test also *)
(* needs the port's own package.                                           *)
Injectable(j) ==
  /\ \A d \in ToInject(j) : Built(d) /\ d \in pkg
  /\ PhaseOf(j) = "test" => Port(j) \in pkg

(* inject_depends, inject_fetch_depends, inject_pkgfile, inject_distfiles   *)
Inject(j) ==
  /\ WStep(j, "inject", IF Injectable(j) THEN "make" ELSE "except")
  /\ UNCHANGED <<db, job, verdict, sig, daemons, admin>>

(* The inner child: PortTest's verdict, or 'internal' for an exception, is  *)
(* written by insert_results, for a build to ports.status first.           *)
InsertResults(j, r) ==
  /\ r = "internal" => "exception" \in Faults
  /\ \/ /\ PhaseOf(j) = "build"
        /\ WStep(j, "make", "record")
        /\ SetStatus(Port(j), r)
        /\ verdict' = [verdict EXCEPT ![j] = r]
        /\ UNCHANGED phase
     \/ /\ PhaseOf(j) # "build"
        /\ WStep(j, "make", "made")
        /\ SetPhase(Port(j), PhaseOf(j), r)
        /\ UNCHANGED <<status, verdict>>
  /\ UNCHANGED <<pkg, locks, job, sig, daemons, admin>>

ClearVerdict(j) == verdict' = [verdict EXCEPT ![j] = None]

(* insert_results goes on with the build's own phase row. *)
RecordPhase(j) ==
  /\ WStep(j, "record", "made")
  /\ SetPhase(Port(j), "build", verdict[j])
  /\ ClearVerdict(j)
  /\ UNCHANGED <<status, pkg, locks, job, sig, daemons, admin>>

(* The inner child loses the database: it exits with 0 all the same. *)
InnerLostDB(j) ==
  /\ "db" \in Faults
  /\ pc[j] \in Making
  /\ Go(j, "made")
  /\ ClearVerdict(j)
  /\ UNCHANGED <<db, job, sig, daemons, admin>>

(* The inner child is killed: the worker throws an exception. *)
InnerKilled(j) ==
  /\ "kill" \in Faults
  /\ pc[j] \in Making
  /\ Go(j, "except")
  /\ ClearVerdict(j)
  /\ UNCHANGED <<db, job, sig, daemons, admin>>

(* Back in run_phase: a good build uploads its package and its distfiles,   *)
(* a good fetch its distfiles.                                             *)
AfterMake(j) ==
  /\ WStep(j, "made",
           CASE PhaseOf(j) = "build" /\ Built(Port(j)) -> "upload"
             [] PhaseOf(j) = "fetch" /\ phase[Port(j)]["fetch"] \in Passed -> "uploadDist"
             [] OTHER -> "done")
  /\ UNCHANGED <<db, job, verdict, sig, daemons, admin>>

UploadPkgfile(j) ==
  /\ WStep(j, "upload", "uploadDist")
  /\ pkg' = pkg \cup {Port(j)}
  /\ UNCHANGED <<status, phase, locks, job, verdict, sig, daemons, admin>>

UploadDistfiles(j) ==
  /\ WStep(j, "uploadDist", "done")
  /\ UNCHANGED <<db, job, verdict, sig, daemons, admin>>

(* run_scan_phase: without the package the verdict is 'internal'; with it   *)
(* the scanners decide.                                                    *)
RunScan(j, r) ==
  /\ r \in IF Port(j) \in pkg THEN {"pass", "warn", "fail", "internal"}
                              ELSE {"internal"}
  /\ r = "internal" => Port(j) \notin pkg \/ "exception" \in Faults
  /\ WStep(j, "scan", "done")
  /\ SetPhase(Port(j), "scan", r)
  /\ UNCHANGED <<status, pkg, locks, job, verdict, sig, daemons, admin>>

(* run returns and the process exits. *)
Done(j) ==
  /\ pc[j] = "done"
  /\ Exit(j, "dead0")
  /\ UNCHANGED <<db, verdict, daemons, admin>>

(* A step of the worker throws: chroot, scp or fork of the inner child. *)
Throw(j) ==
  /\ "exception" \in Faults
  /\ pc[j] \in {"prep", "inject", "upload", "uploadDist"}
  /\ Go(j, "except")
  /\ UNCHANGED <<db, job, verdict, sig, daemons, admin>>

(* Mutants of SetInternal: a build's phase row, or another phase's, is not  *)
(* written, or ports.status is written whatever the phase.                 *)
SetInternalAnyPhase(j) ==
  /\ pc[j] = "except"
  /\ Exit(j, "dead0")
  /\ SetStatus(Port(j), "internal")
  /\ phase' = [phase EXCEPT ![Port(j)][PhaseOf(j)] = "internal",
                            ![Port(j)]["build"] = "internal"]
  /\ UNCHANGED <<pkg, locks, verdict, daemons, admin>>
SetInternalStatusOnly(j) ==
  /\ pc[j] = "except"
  /\ Exit(j, "dead0")
  /\ \/ PhaseOf(j) = "build" /\ SetStatus(Port(j), "internal") /\ UNCHANGED phase
     \/ /\ PhaseOf(j) # "build"
        /\ SetPhase(Port(j), PhaseOf(j), "internal")
        /\ UNCHANGED status
  /\ UNCHANGED <<pkg, locks, verdict, daemons, admin>>
SetInternalBuildOnly(j) ==
  \/ /\ PhaseOf(j) = "build"
     /\ WStep(j, "except", "exceptRecord")
     /\ SetStatus(Port(j), "internal")
     /\ UNCHANGED <<phase, pkg, locks, job, verdict, sig, daemons, admin>>
  \/ /\ PhaseOf(j) # "build"
     /\ pc[j] = "except"
     /\ Exit(j, "dead0")
     /\ UNCHANGED <<db, verdict, daemons, admin>>

(* run's own handler of such an exception marks the phase 'internal'; for a *)
(* build it writes ports.status first.                                     *)
SetInternal(j) ==
  /\ \/ /\ PhaseOf(j) = "build"
        /\ WStep(j, "except", "exceptRecord")
        /\ SetStatus(Port(j), "internal")
        /\ UNCHANGED <<phase, job, sig>>
     \/ /\ PhaseOf(j) # "build"
        /\ pc[j] = "except"
        /\ Exit(j, "dead0")
        /\ SetPhase(Port(j), PhaseOf(j), "internal")
        /\ UNCHANGED status
  /\ UNCHANGED <<pkg, locks, verdict, daemons, admin>>

RecordInternal(j) ==
  /\ pc[j] = "exceptRecord"
  /\ Exit(j, "dead0")
  /\ SetPhase(Port(j), "build", "internal")
  /\ UNCHANGED <<status, pkg, locks, verdict, daemons, admin>>

(* A statement of the worker itself fails: the exit code tells the daemon. *)
LostDB(j) ==
  /\ "db" \in Faults
  /\ pc[j] \in Busy \ {"prep", "upload"}
  /\ Exit(j, "dead6")
  /\ UNCHANGED <<db, verdict, daemons, admin>>

(* The worker is killed outside make: $? >> 8 is 0 for a signal. *)
Killed(j) ==
  /\ "kill" \in Faults
  /\ pc[j] \in Busy
  /\ Exit(j, "dead0")
  /\ UNCHANGED <<db, verdict, daemons, admin>>

(* SIGINT.  While the worker waits for make, its handler waits for the      *)
(* inner child and resets the port; anywhere else the worker just exits.   *)
Interrupt(j) ==
  /\ j \in sig
  /\ \/ pc[j] \in Making /\ Go(j, "intReset") /\ sig' = sig \ {j} /\ UNCHANGED job
     \/ pc[j] \in Busy /\ Exit(j, "dead0")
  /\ ClearVerdict(j)
  /\ UNCHANGED <<db, daemons, admin>>

InterruptReset(j) ==
  /\ WStep(j, "intReset", "intResetStatus")
  /\ ResetPhases(Port(j))
  /\ UNCHANGED <<status, pkg, locks, job, verdict, sig, daemons, admin>>

InterruptStatus(j) ==
  /\ pc[j] = "intResetStatus"
  /\ Exit(j, "dead0")
  /\ SetStatus(Port(j), "untested")
  /\ UNCHANGED <<phase, pkg, locks, verdict, daemons, admin>>
=============================================================================
