SPECIFICATION Spec
CONSTANTS
  Ids = {1, 2}
  ChannelCap = 8
  TrackCap = 4
  FreshIds = TRUE
  Recording = TRUE
  MaxFrames = 4
INVARIANTS
  RequestsComeFirst
CHECK_DEADLOCK FALSE
