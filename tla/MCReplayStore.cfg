CONSTANTS
  t1 = t1
  t2 = t2
  a = a
  b = b
  Threads = {t1, t2}
  NoThread = NoThread
  Jtis = {a, b}
  Ttls = {0, 1, 2}
  Cap = 1
  MaxInstant = 4
  MaxTime = 3
SPECIFICATION FairSpec
INVARIANTS TypeOK NeverEvictsLive WithinCapacity
PROPERTIES OneNewPerWindow PoisonFailsClosed ImplementsTtlSet StarvedOnlyByProgress
