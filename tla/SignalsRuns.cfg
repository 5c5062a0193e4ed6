\* Three workers at a time come and go; statements and forks fail; new runs start.
SPECIFICATION Spec
CONSTANTS
  Kids = {k1, k2, k3, k4, k5}
  Slots = 3
  Faults = {"newrun", "fork", "commit"}
  NoKid = NoKid
SYMMETRY Symmetry
INVARIANTS TypeOK IdForEverySlot ReloadsIdle
PROPERTIES LocksPassedOn
CHECK_DEADLOCK FALSE
