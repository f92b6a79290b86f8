SPECIFICATION FairSpec
CONSTANTS
  main = main
  Main = main
  NoThread = NoThread
  Dp = Dp
  Threads <- AllThreads
  Sems <- AllSems
  Start <- Initial
  N = 3
  Rounds = 2
INVARIANTS TypeOK NeighboursApart OnePermit NeverAborts OnePlace HaltsWhenDone
PROPERTIES LockRefined Completes
CHECK_DEADLOCK FALSE
