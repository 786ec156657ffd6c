SPECIFICATION Spec
CONSTANTS
  ManagementIds <- AllManagementIds
  Texts = {7, 128}
  MaxMessages = 3
INVARIANTS
  ReadAsPacked
  LeftoversAreZero
  WellSized
CHECK_DEADLOCK FALSE
