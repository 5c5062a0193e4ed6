\* One machine with two workers; b builds on a.
SPECIFICATION Spec
CONSTANTS
  a = a
  b = b
  Ports = {a, b}
  Depends <- Pair
  Machines = {m1}
  Jobs = {j1, j2, j3}
  Slots = 2
  WorkerPhases <- FetchBuild
  Verdicts = {"pass"}
  Faults = {"exception", "db", "wakeup"}
  None = None
SYMMETRY JobSymmetry
INVARIANTS DependencyClosed DependsStable ReadyInstallable
