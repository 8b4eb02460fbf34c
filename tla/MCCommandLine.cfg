SPECIFICATION FairSpec
CONSTANTS
  Argvs <- SomeArgvs
  Entries <- SomeEntries
  MaxEntries = 3
  Page = 8
  Chunk = 4
  ListEntry = 2
  StackRoom = 2
  Supported = {"clock_gettime", "rdtsc", "perf_cpu_cycle"}
  Faults = TRUE
INVARIANTS TypeOK ArgumentsTaken CollectsThisTest WellFormedSafe
PROPERTY RunsThePlan
CHECK_DEADLOCK FALSE
