SPECIFICATION Spec
CONSTANTS
  MaxForeign = 2
  Announces <- ThreeMasters
  Self <- MCSelf
  Own <- OwnOrdinary
  SlaveOnly = FALSE
  NoAdjust = FALSE
  NoResetClock = FALSE
  Mechanisms = {"E2E", "P2P"}
  MaxLoop = 1
CHECK_DEADLOCK FALSE
INVARIANTS
  TimersMatchState
  BestRecordStands
  DecisionStands
  MeasurementKeepsGoing
