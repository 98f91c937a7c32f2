\* 2 of 3, four held names and one own between them.
CONSTANTS
  K = 2
  N = 3
  Name = {1, 2, 3, 4, 5}
  Own = {4}
  Limits = {2}
  MaxBeside = 1
SPECIFICATION Spec
INVARIANTS
  TypeOK
  NoGap
  RemovedStaysGone
  FullUnlessBroken
