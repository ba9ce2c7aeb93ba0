CONSTANTS
  t1 = t1
  t2 = t2
  MaxAge = 0
  Tolerance = 1
  TicksPerSec = 1
  MaxInt = 6
  Threads = {t1, t2}
  Trusted = {"op"}
  Configs <- RivalConfigs
  Requests <- RivalRequests
  KeySets <- RivalKeySets
  None = None
  Unreachable = Unreachable
  Canonical <- MCCanonical
  Jtis = {"a", "b"}
  Iats = {1}
  Cap = 1
  MaxMono = 3
  MaxWall = 3
SPECIFICATION Spec
SYMMETRY Symmetry
PROPERTY RecordsOnlyValidated
