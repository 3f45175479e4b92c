SPECIFICATION LiveSpec
CONSTANTS
  l1 = l1
  l2 = l2
  c1 = c1
  c2 = c2
  k1 = k1
  k2 = k2
  t1 = t1
  t2 = t2
  m1 = m1
  Listeners = {l1}
  Conns = {c1}
  Kicks = {k1}
  Timers = {t1}
  Manuals = {m1}
  NumPre = 2
  NumPost = 1
  NoCall = NoCall
  DoubleKick = FALSE
  LateServe = FALSE
  FatalServe = FALSE
\* The program ends.
CHECK_DEADLOCK FALSE
PROPERTIES
  ForcedShutdownEnds
  GracefulShutdownEnds
