\* Two callers at once: 2 of 3, three operations, one fault; every call returns.
CONSTANTS
  K = 2
  N = 3
  t1 = t1
  t2 = t2
  w1 = w1
  w2 = w2
  w3 = w3
  Thread <- TwoThreads
  Wire <- TwoWires
  Uncodable <- NoWire
  None = None
  Bad = Bad
  BadHead = BadHead
  Nobody = Nobody
  MaxOps = 3
  MaxFaults = 1
CHECK_DEADLOCK FALSE
SPECIFICATION FairFSpec
INVARIANTS
  NoStaleShard
  HitIsRegular
  GetHits
  ContainsRegular
PROPERTIES
  FoundMovesOn
  IsRegister
  Returns
