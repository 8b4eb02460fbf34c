SPECIFICATION FairSpec
CONSTANTS
  t1 = t1
  t2 = t2
  t3 = t3
  a = a
  b = b
  NoThread = none
  Threads <- ThreeThreads
  Names <- TwoNames
  Asks <- OneMayDiffer
  MaxCalls = 1
  MaxPages = 1
  CallsMayFail = TRUE
INVARIANTS TypeOK OneMapping LockedLookupsSafe
PROPERTIES AnswersOnce CallsReturn
CHECK_DEADLOCK FALSE
