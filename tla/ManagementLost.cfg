SPECIFICATION Spec
CONSTANTS
  Ports = {a, b}
  Ids = {"INITIALIZE"}
  SetTo = {1}
  Announced = {0}
  MaxRequests = 1
SYMMETRY PortSymmetry
CHECK_DEADLOCK FALSE
INVARIANT InitializeHappens
