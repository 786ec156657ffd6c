SPECIFICATION FairSpec
CONSTANTS
  Masters = {m1}
  Day = 7
  Pause = 2
  Kind = 61
INVARIANTS
  WindowPaused
  PauseCanEnd
PROPERTIES
  PauseLastsLong
  PauseEnds
