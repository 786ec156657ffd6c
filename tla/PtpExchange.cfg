SPECIFICATION Spec
CONSTANTS
  Masters = {m1, m2}
  SeqSize = 3
  LossyLoopback = FALSE
  MaxIssued = 5
  MaxInFlight = 2
SYMMETRY MasterSymmetry
CHECK_DEADLOCK FALSE
INVARIANTS
  DelayPaired
  OffsetPaired
PROPERTY
  DelaysGoForward
