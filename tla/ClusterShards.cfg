\* An erasure-coded job.
CONSTANTS
  Node <- Three
  Level = {0, 1}
  Start <- Empty
  Watermark = 1
  Factor = 2
  DefaultFactor = 2
  DeadAfter = 1
  Erasure = TRUE
  Prompt = TRUE
  Nothing = Nothing
  Whole = Whole
  MaxFlight = 18
  MaxPasses = 0
  MaxFills = 0
  MaxLosses = 0
  MaxCrashes = 0
  Base = 4
  NoValue = NoValue
  Job = Job
  Total = 1
SPECIFICATION Spec
INVARIANT ShardsDistinct
