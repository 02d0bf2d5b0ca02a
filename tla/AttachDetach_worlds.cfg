SPECIFICATION MCSpec
CONSTANTS
  None = None
  NotAnArray = NotAnArray
  Upstreams = {u1, u2}
  Names <- MCNames
  Sanitize <- MCSanitize
  Ports = {1, 2}
  MaxRoutes = 2
  Cmds = {cmd, other}
  Files = {"cursor", "claude"}
  Places <- MCPlaces
  UserEntries <- MCEntries
  CanDamage = TRUE
INVARIANTS
  KeepsItsWord
  Recoverable
PROPERTIES
  RoutesStable
SYMMETRY MCSymmetry
CHECK_DEADLOCK FALSE
