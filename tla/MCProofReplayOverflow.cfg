CONSTANTS
  t1 = t1
  t2 = t2
  a = a
  MaxAge = 1
  Tolerance = 0
  TicksPerSec = 2
  MaxInt = 6
  Threads = {t1, t2}
  Jtis = {a}
  Iats <- EdgeIats
  Cap = 1
  MaxMono = 6
  MaxWall = 7
SPECIFICATION Spec
SYMMETRY Symmetry
PROPERTY AcceptedWithinWindow
