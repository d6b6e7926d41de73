SPECIFICATION FairSpec
CONSTANTS
  Thread = {idle, t1, t2}
  WaitQ = {waitq, diskq}
  RunQ = runq
  NULL = null
  Boot = idle
  IntrQ = {diskq}
INVARIANTS
  
  NoThreadLost
  IplIsThreadLocal
  SchedConsistent
PROPERTIES
  NoOvertaking
  RunnableRuns
