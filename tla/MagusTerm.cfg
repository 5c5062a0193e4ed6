\* Daemons with one worker each are told to stop, at any point; the port is reset by hand.
SPECIFICATION FairSpec
CONSTANTS
  a = a
  b = b
  Ports = {a}
  Depends = {}
  Machines = {m1, m2}
  Jobs = {j1, j2}
  Slots = 1
  WorkerPhases <- OnlyFetch
  Verdicts = {"pass"}
  Faults = {"term", "termFork", "reset"}
  None = None
INVARIANTS ChildrenExclude ToldAreDead
PROPERTIES StopsWhenTold
