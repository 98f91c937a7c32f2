\* 2 of 3, four held names and an own one after them, a scan with nothing
\* beside it.
CONSTANTS
  K = 2
  N = 3
  Name = {1, 2, 3, 4, 5}
  Own = {5}
  Limits = {2}
  MaxBeside = 0
SPECIFICATION Spec
INVARIANT NonePassedOver
