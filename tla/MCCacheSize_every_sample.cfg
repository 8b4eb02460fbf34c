SPECIFICATION FairSpec
CONSTANTS
  Modulus = 256
  MemAllocation = 32
  Arguments <- DeepSearches
  MaxCross = 6
  Noise = 0
  MmapMayFail = FALSE
  Faults = FALSE
INVARIANTS EverySampleAccurate
CHECK_DEADLOCK FALSE
