SPECIFICATION Spec
CONSTANTS
  Requests = {r1, r2, r3}
  None = None
  Faults = {"broadcast"}
  Overlapping = {}
SYMMETRY Symmetry
INVARIANTS
  NeverPaidBothWays
