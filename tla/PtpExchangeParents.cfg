SPECIFICATION Spec
CONSTANTS
  Masters = {m1, m2}
  SeqSize = 3
  LossyLoopback = FALSE
  MaxIssued = 2
  MaxInFlight = 2
CHECK_DEADLOCK FALSE
INVARIANT DelayOfOneMaster
