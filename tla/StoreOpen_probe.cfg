SPECIFICATION MCSpec
CONSTANTS
  Writers = {"first", "u1", "u2"}
  Readers = {"chooser", "cached", "q"}
  First = "first"
  Chooser = "chooser"
  Cached = "cached"
  Tables <- MCTables
  Messages = "messages"
  Columns <- MCColumns
  Start = {"none"}
  Renames = {TRUE}
  Configs = {"none"}
  MaxKills = 0
  MaxRestarts = 0
INVARIANT
  ProbeIsRight
CHECK_DEADLOCK FALSE
