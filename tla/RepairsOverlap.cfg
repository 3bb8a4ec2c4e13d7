SPECIFICATION Spec
CONSTANTS
  Requests = {r1, r2, r3}
  None = None
  Faults = {}
  Overlapping = {"repair"}
SYMMETRY Symmetry
INVARIANTS
  CompensatedAtMostOnce
