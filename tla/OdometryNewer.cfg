SPECIFICATION Spec
CONSTANTS
  Epoch = 20
  Ulp = 1
  Rates = {1}
  History = 2
  Creep = 1
  MaxInFlight = 1
  MaxRestarts = 1
  MaxDrifts = 0
  MaxTime = 5
INVARIANT NewerIsIntegrated
CHECK_DEADLOCK FALSE
