SPECIFICATION Spec
CONSTANTS
  Confidences <- MCConfidences
  MinEvidence = 3
  Baseline = 0
  SolvePerFrame = 2
  InGraphMaxAge = 2
  UnconfirmedMaxAge = 3
  Gaps <- MCGaps
  Finite <- MCFinite
  MaxTime = 7
  MaxCandidates = 2
INVARIANT ParkedCarConfirmsNothing
CHECK_DEADLOCK FALSE
