SPECIFICATION FairSpec
CONSTANTS
  MaxFrames = 2
  PacketSizes = {0, 1, 2, 3}
  MaxSamples = 5
  MaxDrops = 2
  MaxFailures = 1
  Epoch = 20
  Ulp = 2
  Rates = {0, 1, 2}
  History = 2
  Creep = 1
  MaxInFlight = 2
  MaxRestarts = 1
  MaxDrifts = 2
  MaxTime = 4
  Positions = {0, 1}
  MaxPlugs = 2
  MaxEvents = 2
  Known = {1, 2}
  Incomplete = {2}
  NoProto = {3}
  Foreign = {7, 8}
  Commands = {1, 2, 9}
  TxLimit = 1
  MaxCalls = 3
  Ports = {"eth"}
  MaxPackets = 3
INVARIANTS FramesArriveOnce StampWithinLatency BufferInOrder NoLostWakeup HeldTriggerDoesNotDrive EndsByRaceOrField ReceivedAsSent
PROPERTY UnpluggedStops
CHECK_DEADLOCK FALSE
