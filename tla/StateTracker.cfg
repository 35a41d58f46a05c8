SPECIFICATION Spec
CONSTANTS
  p1 = p1
  p2 = p2
  r1 = r1
  Sensors <- MCSensors
  Steering = "steering"
  Producers <- MCProducers
  Readers <- MCReaders
  Threshold = 1
  InitialStamps <- MCGarbage
  ClockSteps <- MCSteps
  StartTime = 2
  MaxTime = 4
  MaxSteps = 1
INVARIANTS FreshWhenValid SteeringLagsOnlyInFlight
PROPERTY SteeringNeverRegresses
SYMMETRY MCSymmetry
CHECK_DEADLOCK FALSE
