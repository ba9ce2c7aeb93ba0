CONSTANTS
  c1 = c1
  c2 = c2
  c3 = c3
  op = op
  slow = slow
  None = None
  Callers = {c1, c2, c3}
  Hosts = {op, slow}
  Slow = {slow}
SPECIFICATION FairSpec
INVARIANTS TypeOK OwnAnswer ExactlyOneReply
PROPERTIES ShutdownCancelsNothing NoHeadOfLineBlocking ReleasedWhenGone
