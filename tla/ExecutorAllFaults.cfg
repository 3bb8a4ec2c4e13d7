SPECIFICATION Spec
CONSTANTS
  Requests = {r1, r2, r3}
  None = None
  Faults = {"db", "broadcast", "crash"}
  Overlapping = {"execute", "repair", "reconcile", "cancel"}
SYMMETRY Symmetry
INVARIANTS
  TypeOK
  SingleAttempt
  LeaseInv
  TerminalMatchesMoney
PROPERTIES
  TreasuryMoves
