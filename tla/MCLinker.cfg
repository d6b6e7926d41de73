SPECIFICATION MCSpec
CONSTANTS
  exe = exe
  liba = liba
  libb = libb
  libc = libc
  NONE = none
  NULL = null
  NUL = nul
  GARBAGE = garbage
INVARIANTS
  DependenciesLoaded
