\* Liveness after faults; one machine.
SPECIFICATION FairSpec
CONSTANTS
  a = a
  b = b
  Ports = {a, b}
  Depends <- Pair
  Machines = {m1}
  Jobs = {j1, j2}
  Slots = 1
  WorkerPhases <- FetchBuild
  Verdicts = {"pass", "fail"}
  Faults = {"kill", "crash", "unlock", "wakeup"}
  None = None
PROPERTIES SettlesAfterFaults
