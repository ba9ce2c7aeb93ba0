CONSTANTS
  t1 = t1
  t2 = t2
  MaxAge = 0
  Tolerance = 1
  TicksPerSec = 1
  MaxInt = 6
  Threads = {t1, t2}
  Trusted = {"op"}
  Configs <- EveryConfig
  Requests <- AllRequests
  KeySets <- MCKeySets
  None = None
  Unreachable = Unreachable
  Canonical <- MCCanonical
  Jtis = {"a", "b"}
  Iats <- MCIats
  Cap = 1
  MaxMono = 3
  MaxWall = 3
SPECIFICATION MCSpec
SYMMETRY Symmetry
INVARIANTS TypeOK ResolvesOnlyTrusted
PROPERTIES AdmitsOnlyConstrained AdmitsOnlyAuthentic AdmitsOnlyVouched SpendsOnlyAccepted ImplementsProofReplay PassesOnlyRecorded
