SPECIFICATION FairSpec
CONSTANTS
  Intervals = {0, 1, 3}
  Datapoints = {0, 1, 2, 3, 5}
  RowLength = 2
  PageLength = 4
  ShmMayFail = TRUE
  ForkMayFail = TRUE
  BufferMayFail = TRUE
  ExecMayFail = TRUE
  EvalMayFail = FALSE
  PidMayBeReused = TRUE
  AppMayBeKilled = TRUE
  SamplerMayBeKilled = TRUE
INVARIANTS TypeOK MeasuredWhileStopped PageWhole RowKept SamplerOutlivesApp
PROPERTIES SamplesAsPromised SampledAgain
CHECK_DEADLOCK FALSE
