SPECIFICATION MCSpec
CONSTANTS
  Deleters = {"dashboard", "cli"}
  Commands = {"cli"}
  Jobs <- MCJobs
  Defs = {"def"}
  MaxSess = 2
  MaxRows = 1
  MaxTime = 2
INVARIANTS
  NoOrphans
  TotalsAreTrue
CHECK_DEADLOCK FALSE
