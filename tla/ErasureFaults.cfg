\* One caller at a time, several faults, a wire that encode refuses.  With 2 of 4
\* a cut-short overwrite can split the stripes evenly.
CONSTANTS
  K = 2
  N = 4
  t1 = t1
  t2 = t2
  w1 = w1
  w2 = w2
  w3 = w3
  Thread <- OneThread
  Wire <- ThreeWires
  Uncodable <- Big
  None = None
  Bad = Bad
  BadHead = BadHead
  Nobody = Nobody
  MaxOps = 3
  MaxFaults = 3
CHECK_DEADLOCK FALSE
SYMMETRY Symmetry
SPECIFICATION Spec
INVARIANTS
  TypeOK
  AnyKRebuild
  OneOverwriteKeepsOne
  ReadHeals
  SyncedSurvives
  SyncHonest
