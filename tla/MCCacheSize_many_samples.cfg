SPECIFICATION FairSpec
CONSTANTS
  Modulus = 64
  MemAllocation = 32
  Arguments <- ManySamples
  MaxCross = 3
  Noise = 3
  MmapMayFail = TRUE
  Faults = TRUE
INVARIANTS SlotsOwned AllWritten Sorted
PROPERTIES SlotsKept Terminates
CHECK_DEADLOCK FALSE
