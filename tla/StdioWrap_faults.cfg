SPECIFICATION WireSpec
CONSTANTS
  Mode = "monitor"
  Recording = FALSE
  Faults <- AllFaults
  ClientChunks <- MonitorClient
  ServerChunks <- MonitorServer
  ChanCap = 1
  MaxClient = 1
  MaxServer = 1
INVARIANTS
  DeliveredOnce
  NothingSilentlyLost
PROPERTIES
  WireNeverStalls
  ExitFollowsServer
CHECK_DEADLOCK FALSE
