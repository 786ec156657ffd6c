SPECIFICATION ServoSpec
CONSTANTS
  Plants <- MCPlants
  Rounds = 3
  MaxFaults = 2
INVARIANTS
  ServoTypeOK
  DelayBounded
PROPERTIES
  StepLands
  Settles
