SPECIFICATION MCSpec
CONSTANTS
  Proc = {p, q}
  File = {f, g}
  NFILES = 2
  RAMFS_MAX_FILES = 3
  PAGE_SIZE = 6
  DirentSize = 2
  Name = {a}
  OpenMode <- Modes
  Count = 6
  Offset <- Offsets
  Workload <- Workloads
  Device = {"CHR"}
  MaxLeak = 1
  MaxGone = 1
  NULL = null
  Thread = {f, g}
  NONE = none
INVARIANTS
  
  
  
  FreeListsSound
  TerminalShown
PROPERTIES
  ErrnoExact
SYMMETRY Symmetry
