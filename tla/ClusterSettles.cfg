\* Timely gossip, a change of level.
CONSTANTS
  Node <- Three
  Level = {0, 1}
  Start <- Empty
  Watermark = 1
  Factor = 2
  DefaultFactor = 2
  DeadAfter = 1
  Erasure = FALSE
  Prompt = TRUE
  Nothing = Nothing
  Whole = Whole
  MaxFlight = 18
  MaxPasses = 0
  MaxFills = 1
  MaxLosses = 0
  MaxCrashes = 1
  Base = 4
  NoValue = NoValue
  Job = Job
  Total = 1
SPECIFICATION FairSpec
INVARIANTS
  AgreeOnceHeard
  GossipSurvives
PROPERTY Settles
