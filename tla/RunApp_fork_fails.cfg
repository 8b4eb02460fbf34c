SPECIFICATION FairSpec
CONSTANTS
  Intervals = {0, 1, 3}
  Datapoints = {1, 3}
  RowLength = 2
  PageLength = 4
  ShmMayFail = FALSE
  ForkMayFail = TRUE
  BufferMayFail = FALSE
  ExecMayFail = FALSE
  EvalMayFail = FALSE
  PidMayBeReused = FALSE
  AppMayBeKilled = FALSE
  SamplerMayBeKilled = FALSE
INVARIANTS OnlyAppStopped
CHECK_DEADLOCK FALSE
