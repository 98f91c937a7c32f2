\* Late and skipped gossip, a stop, levels that stay.
CONSTANTS
  Node <- Three
  Level = {0, 1}
  Start <- Uneven
  Watermark = 2
  Factor = 2
  DefaultFactor = 3
  DeadAfter = 0
  Erasure = TRUE
  Prompt = FALSE
  Nothing = Nothing
  Whole = Whole
  MaxFlight = 4
  MaxPasses = 2
  MaxFills = 0
  MaxLosses = 1
  MaxCrashes = 0
  MaxLen = 5
  MaxN = 5
CHECK_DEADLOCK FALSE
SPECIFICATION Spec
INVARIANTS
  TypeOK
  BestClaimantsStay
  CoverageHolds
  LayoutSurvives
PROPERTY ReleaseLeavesFactor
