SPECIFICATION MCSpec
CONSTANTS
  Rows <- MCRows
  OwnIds = {7}
  Chatty = FALSE
  CanLeave = TRUE
  PipeCap = 1
  MaxSaid = 3
  SseCap = 2
  MaxSess = 2
  InFlight = 2
  Browsers <- MCBrowsers
  Deletable = TRUE
  Failing = TRUE
INVARIANTS
  ReplayIsOrderly
  ShownIsChosen
PROPERTIES
  AnswerIsKept
  ReplayEnds
  SelectionHeals
CHECK_DEADLOCK FALSE
