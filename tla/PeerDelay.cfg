SPECIFICATION Spec
CONSTANTS
  Ports = {a, b}
  SeqSize = 3
  MaxRequests = 3
  MaxInFlight = 2
  MaxWaiting = 3
  MaxChanges = 2
SYMMETRY PortSymmetry
CHECK_DEADLOCK FALSE
INVARIANTS
  PeerDelayPaired
