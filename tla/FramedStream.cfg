SPECIFICATION AnySpec
CONSTANTS
  Byte <- MCByte
  NL = "nl"
  Cap = 2
  ReadMax = 4
  MaxFed = 8
  Symbol <- MCSymbol
  Caps = {1, 3}
  ChunkMax = 2
  MaxEvents = 7
INVARIANTS
  StreamKept
  CapHolds
  EventsAsSent
CHECK_DEADLOCK FALSE
