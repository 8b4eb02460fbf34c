SPECIFICATION FairSpec
CONSTANTS
  Counters = {"cpu_cycles(pf)", "llc_hits"}
  PerfMayFail = TRUE
  Chunk = 2
  Page = 4
  Word = 16
  Args <- SmallArgs
  Faults = TRUE
INVARIANTS TypeOK KiBNotOverrun CountedIsTouched CountersCoverLoops ResultsComplete
PROPERTY CallEnds
CHECK_DEADLOCK FALSE
