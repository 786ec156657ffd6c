SPECIFICATION FairSpec
CONSTANTS
  Masters = {m1, m2}
  Day = 7
  Pause = 2
  Kind = 61
PROPERTY
  PauseEnds
