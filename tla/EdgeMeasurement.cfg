SPECIFICATION Spec
CONSTANTS
  Period = 11
  TickLength = 4
  Wrap = 5
  Words = 5
  MEASUREMENTS = 3
  RoutineCycles = 1
  Offsets = {0}
  Jumps <- JumpSet
  MaxJumps = 1
  StartFrom = 0
  StartBy = 5
INVARIANTS
  StampsOffByAWrap
  NoEdgeLost
  DifferencesMeasured
PROPERTIES
  Finishes
CHECK_DEADLOCK FALSE
