SPECIFICATION MCSpec
CONSTANTS
  Client = {small, large, kernel}
  PAGE_NSIZES = 3
  npages = 4
  S <- MCSizes
  small = small
  large = large
  Allocators <- MCAllocators
  Kernel = kernel
  sa_order <- MCorder
  sa_slab_nobjs <- MCnobjs
  NONE = none
  NULL = null
  User = {a, b}
  Pageoutd = pageoutd
  Vnode = {v1, v2}
  Frame = {f1, f2}
  Ino = {i1, i2}
  Page = {p1, p2}
  pageoutd_waitq = pageoutd_waitq
  alloc_waitq = alloc_waitq
  nfreepages_min = 0
  nfreepages_target = 1
  USER_MEM_LOW = 2
  USER_MEM_HIGH = 12
  Obj = {o1, o2, o3, o4, o5, o6}
INVARIANTS
  VnodeSleepersBehindBusy
SYMMETRY Symmetry
