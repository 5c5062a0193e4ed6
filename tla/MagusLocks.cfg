\* Two machines contend for the four phases of one port; exceptions, failed forks, crashes.
SPECIFICATION Spec
CONSTANTS
  a = a
  b = b
  Ports = {a}
  Depends = {}
  Machines = {m1, m2}
  Jobs = {j1, j2, j3}
  Slots = 1
  WorkerPhases <- AllPhases
  Verdicts = {"pass"}
  Faults = {"exception", "fork", "crash"}
  None = None
SYMMETRY Symmetry
INVARIANTS TypeOK MutualExclusion BuildRowAgrees RunningIsLocked
PROPERTIES ImplementsQueue
