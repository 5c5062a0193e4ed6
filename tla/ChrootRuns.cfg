\* Two workers, two bootstrap tarballs, every fault but a kill between two markers.
SPECIFICATION Spec
CONSTANTS
  Workers = {1, 2}
  First = 1
  Nothing = Nothing
  Mixed = Mixed
  Versions = {1, 2}
  Faults = {"die", "kill", "crash", "replace"}
INVARIANTS TypeOK ReadyIsReference CleanIsWhole SyncUnmounted
