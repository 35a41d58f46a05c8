SPECIFICATION KrakenFairSpec
CONSTANTS
  Timeout = 1
  SeedRetry = 1
  ArmSpaced = FALSE
  MaxTime = 1
INVARIANTS ResumesFromColumn ObservedArmHolds
PROPERTIES ResetStopsMotor DisabledMotorStops
