------------------------------ MODULE MagusDepends ------------------------------
(***************************************************************************)
(* The depends table of a run, and the sets of ports that Magus::Port      *)
(* computes from it.  A row <<p, t, d>> says that p depends on d with type *)
(* t.  The types the code tells apart are 'fetch' and 'test'; "build"      *)
(* stands for all the others (extract, patch, lib, run, pkg ...).          *)
(***************************************************************************)
CONSTANTS Ports,      \* the ports of the run
          Depends     \* the rows of the depends table

DepType == {"fetch", "build", "test"}

ASSUME DependsAssumption == Depends \subseteq (Ports \X DepType \X Ports)

InstallType == DepType \ {"test"}

(* The dependencies of p recorded under one of the given types. *)
DependsOf(p, types) == {d \in Ports : \E t \in types : <<p, t, d>> \in Depends}

(* S has every dependency, of those types, of each of its members. *)
IsClosed(S, types) == \A x \in S : DependsOf(x, types) \subseteq S

(* The least closed set that contains R: what the recursive walks collect. *)
Closure(R, types) ==
  {d \in Ports : \A S \in SUBSET Ports :
                    R \subseteq S /\ IsClosed(S, types) => d \in S}

(* What a build installs: every dependency but the ones needed for tests. *)
build_depends_closure ==
  [p \in Ports |-> Closure(DependsOf(p, InstallType), InstallType) \ {p}]

(* What a test installs: the port's own test dependencies as well, and     *)
(* below them only what is needed to install.                              *)
test_depends_closure ==
  [p \in Ports |-> Closure(DependsOf(p, DepType), InstallType) \ {p}]

(* What a fetch installs: the direct fetch dependencies and everything     *)
(* below them, of any type.                                                *)
fetch_depends_closure ==
  [p \in Ports |-> Closure(DependsOf(p, {"fetch"}), DepType) \ {p}]
=============================================================================
