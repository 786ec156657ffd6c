SPECIFICATION Spec
CONSTANTS
  Ports = {a, b}
  Ids = {"CLOCK_DESCRIPTION", "SLAVE_ONLY", "DOMAIN", "INITIALIZE", "DISABLE_PORT", "TIME"}
  SetTo = {1}
  Announced = {0}
  MaxRequests = 2
SYMMETRY PortSymmetry
CHECK_DEADLOCK FALSE
INVARIANTS
  AnswersEnd
  AnsweredWhereAsked
  PortsAgree
  HeapBalanced
  SlaveOnlyObeyed
