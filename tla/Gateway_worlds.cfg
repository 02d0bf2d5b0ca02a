SPECIFICATION MCSpec
CONSTANTS
  Ids = {1, 2}
  ChannelCap = 2
  TrackCap = 2
  Clients = {1}
  Handlers = {h1, h2}
  MaxFrames = 3
  Setups <- AllSetups
  Files <- OneDraws
  Traffic <- MCTraffic
  Levels = 2
INVARIANTS
  NothingForbiddenReaches
  TriggersBounded
  ExchangesRecorded
  VersionsPaired
PROPERTIES
  ProtocolOnlyImproves
  SeedsReproduce
SYMMETRY Swaps
CHECK_DEADLOCK FALSE
