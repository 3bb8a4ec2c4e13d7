SPECIFICATION Spec
CONSTANTS
  Requests = {r1, r2, r3, r4}
  None = None
  Faults = {}
  Overlapping = {"reconcile"}
SYMMETRY Symmetry
INVARIANTS
  CompensatedAtMostOnce
  ReservationReturned
PROPERTIES
  KeepsPromise
