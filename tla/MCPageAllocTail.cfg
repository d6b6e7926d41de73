SPECIFICATION Spec
CONSTANTS
  Client = {c1, c2}
  PAGE_NSIZES = 3
  npages = 5
  S <- MCSizes
INVARIANTS
  JoinsFreeBuddy
