SPECIFICATION Spec
CONSTANTS
  idlep = idlep
  init = init
  pageoutd = pageoutd
  ta = ta
  tb = tb
  tc = tc
  td = td
  te = te
  tf = tf
  tg = tg
  daemonq = daemonq
  ioq = ioq
  prod = prod
  cons = cons
  rq = rq
  wq = wq
  p_wait = p_wait
  RunQ = runq
  NULL = null
  MaxSpawn = 4
INVARIANTS
  InitSeesExits
CHECK_DEADLOCK FALSE
