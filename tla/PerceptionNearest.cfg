SPECIFICATION Spec
CONSTANTS
  Points <- MCPoints
  MaxPoints = 4
  GridMin = 1
  GridMax = 6
  Bin = 3
  Floor = 0
  MinPerCell = 3
  Percent = 50
  Clearance = 0
  Tol = 2
  MinSize = 1
  MaxSize = 3
  MaxRange = 4
  NearRange = 2
  MidRange = 3
  Gate <- MCGate
  MaxHeight = 1
  MaxTop = 1
  MaxElongation = 1
  MinWidth = 1
  Cones = 2
  Dets = 2
  Cameras = 2
  MatchDistance = 2
  MaxScore = 2
  Buffers = {b1, b2}
  MaxFrames = 4
  MaxAttempts = 3
  MaxScans = 2
INVARIANT NearestColours
CHECK_DEADLOCK FALSE
