SPECIFICATION PipelineSpec
CONSTANTS
  LidarTimeout = 2
  MaxMissed = 3
  MaxClock = 6
INVARIANT ValidMeansRecentPath
CHECK_DEADLOCK FALSE
