SPECIFICATION Spec
CONSTANTS
  Procs = {p1, p2}
  None = None
  Sources = {a, b}
  Length = 2
  MaxAttempts = 2
  MaxFaults = 1
  MaxRevision = 5
SYMMETRY Symmetry
INVARIANTS
  ConfirmedIsOnDevice
  ClaimExclusive
PROPERTIES
  ImplementsContract
CHECK_DEADLOCK FALSE
