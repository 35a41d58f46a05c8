SPECIFICATION FairSpec
CONSTANTS
  m1 = m1
  m2 = m2
  m3 = m3
  config = config
  git = git
  q1 = q1
  Msgs <- MCMsgs
  Params <- MCParams
  InitialParams = config
  GitMetadata = git
  OpenResults <- MCMayFail
  MaxRestarts = 1
INVARIANT StopDrainsMessages
PROPERTIES ImplementsLog AcceptedIsWritten StopReturns
CHECK_DEADLOCK FALSE
