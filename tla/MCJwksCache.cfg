CONSTANTS
  t1 = t1
  t2 = t2
  op1 = op1
  op2 = op2
  Threads = {t1, t2}
  Issuers = {op1, op2}
  Nobody = Nobody
  Ttl = 2
  Latency = 1
  MaxKeys = 2
  Documents = {{"public", "symmetric"}, {"private", "unreadable"}}
  MaxGen = 2
  MaxTime = 5
SPECIFICATION Spec
SYMMETRY Symmetry
INVARIANTS TypeOK CacheSound
PROPERTIES BoundedStaleness
