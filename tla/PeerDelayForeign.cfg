SPECIFICATION Spec
CONSTANTS
  Ports = {a, b, c}
  SeqSize = 3
  MaxRequests = 2
  MaxInFlight = 2
  MaxWaiting = 1
  MaxChanges = 2
SYMMETRY PortSymmetry
CHECK_DEADLOCK FALSE
INVARIANT
  MeasuresOwnRequest
