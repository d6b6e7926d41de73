SPECIFICATION MCSpec
CONSTANTS
  m1 = m1
  Thread = {t0, t1, t2}
  Mutex = {m1}
  WaitQ = {m1}
  RunQ = runq
  NULL = null
  Boot = t0
  CancellableLockers = {t0, t1, t2}
  Killers = {t0, t1, t2}
PROPERTIES
  EintrMeansNotHeld
CHECK_DEADLOCK FALSE
