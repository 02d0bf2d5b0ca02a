SPECIFICATION Spec
CONSTANTS
  Mode = "enforce"
  Recording = TRUE
  Faults = {}
  ClientChunks <- ClientLines
  ServerChunks <- ServerLines
  ChanCap = 1
  MaxClient = 4
  MaxServer = 1
INVARIANTS
  GateHolds
  FramesAtomic
  NothingSilentlyLost
  TapsFollowWire
  ExitIsClean
PROPERTIES
  ImplementsGatedWire
CONSTRAINT MCStreams
CHECK_DEADLOCK FALSE
