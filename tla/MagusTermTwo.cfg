\* A daemon with two workers is told to stop.
SPECIFICATION Spec
CONSTANTS
  a = a
  b = b
  Ports = {a, b}
  Depends = {}
  Machines = {m1}
  Jobs = {j1, j2}
  Slots = 2
  WorkerPhases <- FetchBuild
  Verdicts = {"pass"}
  Faults = {"term"}
  None = None
INVARIANTS KidsDeadBeforeSweep
