CONSTANTS
  op = op
  Names = {op}
  pub = pub
  priv = priv
  loop = loop
  emb = emb
  Addrs = {pub, priv, loop, emb}
  Public <- MCPublic
  Loopback <- MCLoopback
  Embedded <- MCEmbedded
  Timeout = 1
  MaxBody = 1
  MaxRedirects = 1
  MaxSize = 2
SPECIFICATION FairSpec
INVARIANTS TypeOK ContactsOnlyPublic CleartextStaysLocal WholeBodyOrNone TimeBounded
PROPERTIES Answered
