SPECIFICATION MCFairSpec
CONSTANTS
  m1 = m1
  Thread = {t0, t1, t2}
  Mutex = {m1, m2}
  WaitQ = {m1, m2}
  RunQ = runq
  NULL = null
  Boot = t0
  CancellableLockers = {t0, t1, t2}
  Killers = {t0, t1, t2}
INVARIANTS
  HeldMeansHolder
  WaitersBehindHolder
  PanicMeansUnknown
PROPERTIES
  ImplementsAbstractMutex
  PlainLockGranted
CHECK_DEADLOCK FALSE
