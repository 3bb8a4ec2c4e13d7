SPECIFICATION ContractsSpec
CONSTANTS
  None = None
  TOKENS <- Symbols
  USDC = "usdc"
  Entities <- Profiles
  Mints <- Balances
  Decimals <- TokenDecimals
  Situations <- Sampled
  MaxRuns = 3
  MaxCrashes = 1
  Payments = {"p1", "p2", "p3"}
  Amount <- Amounts
  Float = 4
  Retries = 2
  Settings <- Senders
CHECK_DEADLOCK FALSE
INVARIANTS UsableWhenDone OneEscrow EscrowBacked ClaimCapped RefusedOnlyDisturbed
PROPERTIES KeysKept
