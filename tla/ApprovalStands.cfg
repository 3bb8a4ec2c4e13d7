SPECIFICATION EscrowSpec
CONSTANTS
  Payments = {"p1", "p2", "p3"}
  Amount <- Amounts
  Float = 4
  Retries = 0
  Settings <- Short
CHECK_DEADLOCK FALSE
INVARIANTS NoStandingClaim
