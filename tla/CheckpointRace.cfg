SPECIFICATION ContendSpec
CONSTANTS
  Procs = {p1, p2, p3}
  None = None
  MaxFaults = 0
SYMMETRY Symmetry
INVARIANT ClaimExclusive
CHECK_DEADLOCK FALSE
