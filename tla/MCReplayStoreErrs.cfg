CONSTANTS
  t1 = t1
  t2 = t2
  a = a
  b = b
  c = c
  Threads = {t1, t2}
  NoThread = NoThread
  Jtis = {a, b, c}
  Ttls = {0, 1, 2}
  Cap = 2
  MaxInstant = 9
  MaxTime = 3
SPECIFICATION Spec
SYMMETRY Symmetry
INVARIANT NeverErrs
