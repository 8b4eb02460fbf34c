SPECIFICATION FairSpec
CONSTANTS
  t1 = t1
  t2 = t2
  t3 = t3
  a = a
  b = b
  NoThread = none
  Threads <- ThreeThreads
  Names <- TwoNames
  Asks <- OneMayDiffer
  MaxCalls = 1
  MaxPages = 1
  CallsMayFail = FALSE
INVARIANTS ResultIsPage
CHECK_DEADLOCK FALSE
