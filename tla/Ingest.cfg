\* One publisher whose second publication of three is rejected, the group joined
\* twice.
CONSTANTS
  alice = alice
  Publisher <- One
  Last <- Three
  Bad <- Second
  MaxJoins = 2
  MaxFails = 1
  MaxQueue = 1
CHECK_DEADLOCK FALSE
SPECIFICATION FairSpec
INVARIANTS
  TypeOK
  Honest
PROPERTIES
  KeepsPromise
  Converges
  StoresAllButFailed
