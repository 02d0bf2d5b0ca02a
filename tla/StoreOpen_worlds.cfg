SPECIFICATION MCSpec
CONSTANTS
  Writers = {"first", "u1", "u2"}
  Readers = {"chooser", "cached", "q"}
  First = "first"
  Chooser = "chooser"
  Cached = "cached"
  Tables <- MCTables
  Messages = "messages"
  Columns <- MCColumns
  Start = {"none", "phase0", "old"}
  Renames = {TRUE, FALSE}
  Configs = {"none", "good", "broken", "missing"}
  MaxKills = 2
  MaxRestarts = 1
INVARIANTS
  OpenMeansCurrent
  CrashesAreHarmless
  ThreadsAreSafe
  CatchesUp
CHECK_DEADLOCK FALSE
