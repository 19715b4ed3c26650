SPECIFICATION Spec
CONSTANTS
  PipeCap = 2
  MaxPackets = 3
  MaxViewers = 3
INVARIANTS
  ViewerMayStartFirst
CHECK_DEADLOCK FALSE
