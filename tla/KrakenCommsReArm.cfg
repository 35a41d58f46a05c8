SPECIFICATION KrakenSpec
CONSTANTS
  Timeout = 1
  SeedRetry = 2
  ArmSpaced = TRUE
  MaxTime = 3
INVARIANT ArmHolds
