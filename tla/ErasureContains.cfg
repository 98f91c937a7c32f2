\* 3 of 4: an overwrite a kill cuts short.
CONSTANTS
  K = 3
  N = 4
  t1 = t1
  t2 = t2
  w1 = w1
  w2 = w2
  w3 = w3
  Thread <- OneThread
  Wire <- TwoWires
  Uncodable <- NoWire
  None = None
  Bad = Bad
  BadHead = BadHead
  Nobody = Nobody
  MaxOps = 2
  MaxFaults = 1
CHECK_DEADLOCK FALSE
SPECIFICATION Spec
INVARIANT ContainsAgreesWithGet
