SPECIFICATION FairSpec
CONSTANTS
  Modulus = 256
  MemAllocation = 32
  Arguments <- FirstSample
  MaxCross = 14
  Noise = 1
  MmapMayFail = TRUE
  Faults = FALSE
INVARIANTS TypeOK Bracket Accurate ReachBounded
PROPERTIES Halves
CHECK_DEADLOCK FALSE
