SPECIFICATION Spec
CONSTANTS
  LastVariant = 5
  Terminated = 3
  Candidates = 1
  NamedProbes = 1
  Parts = 3
  Resources <- MCResources
INVARIANTS
  SlotIsReturned
PROPERTIES
  LostRequestIsNeverTouched
