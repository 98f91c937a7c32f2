\* 1 of 2: one rotten record.
CONSTANTS
  K = 1
  N = 2
  t1 = t1
  t2 = t2
  w1 = w1
  w2 = w2
  w3 = w3
  Thread <- OneThread
  Wire <- OneWire
  Uncodable <- NoWire
  None = None
  Bad = Bad
  BadHead = BadHead
  Nobody = Nobody
  MaxOps = 2
  MaxFaults = 1
CHECK_DEADLOCK FALSE
SPECIFICATION Spec
INVARIANT AnyKRebuild
