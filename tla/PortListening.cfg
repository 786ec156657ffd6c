SPECIFICATION Spec
CONSTANTS
  MaxForeign = 2
  Announces <- BothMasters
  Self <- MCSelf
  Own <- OwnOrdinary
  SlaveOnly = TRUE
  NoAdjust = FALSE
  NoResetClock = FALSE
  Mechanisms = {"E2E"}
  MaxLoop = 1
CHECK_DEADLOCK FALSE
INVARIANT ListeningSilent
