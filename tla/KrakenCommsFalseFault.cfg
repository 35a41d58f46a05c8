SPECIFICATION KrakenSpec
CONSTANTS
  Timeout = 1
  SeedRetry = 2
  ArmSpaced = FALSE
  MaxTime = 3
INVARIANT FaultMeansReferenceLost
