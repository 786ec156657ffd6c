SPECIFICATION ClockSpec
CONSTANTS
  Cycles = 100
  Nanos = 100
  Latency = 5
  Phases = {0, 5, 60, 100, 105}
  Adjustments <- AdjustBoth
  Jumps <- JumpBoth
  Start = 400
  Word = 4096
  MaxTicks = 6
  MaxTorn = 2
  MaxSets = 1
CHECK_DEADLOCK FALSE
INVARIANTS
  ReadsTrue
  NeverDividesByZero
