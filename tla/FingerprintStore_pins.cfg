SPECIFICATION MCSpec
CONSTANTS
  Servers <- Both
  LegacyKey <- TwoLegacy
  Tools = {"read", "write"}
  Defs <- Defs4
  Hash <- PrefixHash
  LegacyRows <- OldRows
  Sessions = {1, 2}
  ServerOf <- TwoServers
  Lists <- Pairs
  MaxLists = 4
  MaxMishaps = 1
  Alphabet <- MCAlphabet
  Definitions <- MCDefinitions
  Words = {"node", "x"}
  MaxArgv = 3
INVARIANTS
  NeverRejected
  AlertsAreTrue
  BaselineKept
PROPERTIES
  KeysTellApart
CHECK_DEADLOCK FALSE
