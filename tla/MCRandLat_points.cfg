SPECIFICATION FairSpec
CONSTANTS
  Counters = {"cpu_cycles(pf)"}
  PerfMayFail = TRUE
  Args <- SmallArgs
  Page = 4
  Stride = 2
  Word = 6
  Batch = 2
  Accesses = 4
  Faults = TRUE
INVARIANTS TypeOK SingleCycle AccessesMapped WholeBufferLoaded DescriptorsOwned
PROPERTY CallEnds
CHECK_DEADLOCK FALSE
