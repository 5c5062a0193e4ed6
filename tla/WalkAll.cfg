\* All dependency tables over three ports.
SPECIFICATION Spec
CONSTANTS
  Ports = {"a", "b", "c"}
  self = "a"
  Names = {"a", "b", "c"}
  Tables <- MCTables
  Printed <- MCPrinted
INVARIANTS WalkIsClosure
PROPERTIES WalkEnds
CHECK_DEADLOCK FALSE
