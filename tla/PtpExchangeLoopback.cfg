SPECIFICATION Spec
CONSTANTS
  Masters = {m1, m2}
  SeqSize = 3
  LossyLoopback = TRUE
  MaxIssued = 3
  MaxInFlight = 2
CHECK_DEADLOCK FALSE
INVARIANT DelayPaired
