SPECIFICATION ReadsSpec
CONSTANTS
  Ids = {a, b, c}
  ChannelCap = 2
  TrackCap = 2
  FreshIds = TRUE
  Recording = TRUE
  MaxFrames = 4
  Jobs <- MCJobs
  PageSize = 1
  MaxLimit = 2
  MaxEvents = 2
  Deletable = TRUE
INVARIANTS
  PinsAreAdvertisements
  AnswersAreMatched
  PagesTileTheSession
CONSTRAINT MCReading
SYMMETRY MCIds
CHECK_DEADLOCK FALSE
