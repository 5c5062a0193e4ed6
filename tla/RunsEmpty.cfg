\* A run is taken for empty before its first fetch is over.
SPECIFICATION RunsSpec
CONSTANTS
  a = a
  Ports = {a}
  Depends = {}
  Machines = {m1}
  Jobs = {j1, j2}
  Slots = 1
  WorkerPhases <- FetchBuild
  Verdicts = {"pass"}
  Faults = {}
  None = None
INVARIANTS EmptyIsSettled
