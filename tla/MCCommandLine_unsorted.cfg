SPECIFICATION FairSpec
CONSTANTS
  Argvs <- ScheduleArgvs
  Entries <- AscendingTests
  MaxEntries = 2
  Page = 8
  Chunk = 4
  ListEntry = 2
  StackRoom = 2
  Supported = {"clock_gettime"}
  Faults = FALSE
INVARIANT TestsInBuffer
CHECK_DEADLOCK FALSE
