SPECIFICATION FairSpec
CONSTANTS
  MaxForeign = 2
  Announces <- LeapMasters
  Self <- MCSelf
  Own <- OwnOrdinary
  SlaveOnly = TRUE
  NoAdjust = FALSE
  NoResetClock = FALSE
  Mechanisms = {"E2E"}
  MaxLoop = 1
CHECK_DEADLOCK FALSE
INVARIANTS
  FollowsRealMaster
PROPERTIES
  SilenceEndsFollowing
  FaultsAreCleared
