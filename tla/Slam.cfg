SPECIFICATION Spec
CONSTANTS
  Confidences <- MCConfidences
  MinEvidence = 3
  Baseline = 1
  SolvePerFrame = 2
  InGraphMaxAge = 2
  UnconfirmedMaxAge = 3
  Gaps <- MCGaps
  Finite <- MCFinite
  MaxTime = 7
  MaxCandidates = 2
INVARIANTS ObservationsAdmitted LandmarkListedOnce SolveRecoversPruned ParkedCarConfirmsNothing
CHECK_DEADLOCK FALSE
