SPECIFICATION PipelineFairSpec
CONSTANTS
  LidarTimeout = 2
  MaxMissed = 1
  MaxClock = 4
INVARIANT PathKeepsUpWithPose
PROPERTIES NewestScanIsTaken StopReturns
CHECK_DEADLOCK FALSE
