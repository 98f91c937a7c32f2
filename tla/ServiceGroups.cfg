\* Two groups, one joined at startup, channels of one slot.
CONSTANTS
  g1 = g1
  g2 = g2
  n1 = n1
  n2 = n2
  Group <- TwoGroups
  Name <- TwoNames
  Prefixes <- Apart
  Initial <- First
  MaxInputs = 3
  InCap = 2
  CtlCap = 1
  OutCap = 1
  RegCap = 1
  NetCap = 1
  Base = 4
  NoValue = NoValue
  SvsV3 = SvsV3
  OtherProtocol = OtherProtocol
  Text = Text
CHECK_DEADLOCK FALSE
SPECIFICATION FairSpec
INVARIANTS
  TypeOK
  LiveIsHandled
  CopiesAgree
  KeepsToGroup
  RepliesReach
  CommandsArrive
PROPERTIES
  Serves
  LeftComesToRest
