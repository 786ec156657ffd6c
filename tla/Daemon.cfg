SPECIFICATION Spec
CONSTANTS
  Slots = {s1, s2}
  Commands <- CommandSet
INVARIANTS
  SlavesRunAlone
  RefusedForAReason
  DescriptorsAccounted
PROPERTIES
  HearsAgain
