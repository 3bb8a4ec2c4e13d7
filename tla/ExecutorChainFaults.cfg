SPECIFICATION FairSpec
CONSTANTS
  Requests = {r1, r2, r3}
  None = None
  Faults = {"broadcast"}
  Overlapping = {"execute", "repair", "reconcile", "cancel"}
INVARIANTS
  StuckViewComplete
  NoDeadEnd
  LeaseHolderRuns
PROPERTIES
  AttemptConcludes
  LeaseReturned
