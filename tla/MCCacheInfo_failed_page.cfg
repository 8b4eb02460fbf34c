SPECIFICATION FairSpec
CONSTANTS
  t1 = t1
  t2 = t2
  t3 = t3
  a = a
  b = b
  NoThread = none
  Threads <- TwoThreads
  Names <- OneName
  Asks <- TheSame
  MaxCalls = 1
  MaxPages = 1
  CallsMayFail = TRUE
INVARIANTS ResultIsPage
CHECK_DEADLOCK FALSE
