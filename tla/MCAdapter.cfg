SPECIFICATION FairSpec
CONSTANTS
  MaxMessages = 2
  MaxFrames = 3
  PipeRoom = 2
CHECK_DEADLOCK FALSE
INVARIANTS
  AckMeansDone
PROPERTIES
  ReturnsAlone
  BridgeReturns
