SPECIFICATION Spec
CONSTANTS
  Requests = {r1, r2, r3, r4}
  None = None
  Posted = {0, 2, 3, 10, 14}
  Fine = 2
  MaxMinor = 8
  Bps = 20
  RateScale = 2
  Mid = 3
  SrcScale = 2
  DstScale = 1
  Spread = 2
  PlatformFee = 1
  BridgeFee = 1
  Tiers <- SlippageTiers
  LastTier = 3
  ReviewAbove = 4
  FailAbove = 6
  Worlds <- Sampled
SYMMETRY Symmetry
INVARIANTS ApprovedScreened PromiseBelowMid LogTellsStatus NoneStranded
PROPERTIES SelectionStable
