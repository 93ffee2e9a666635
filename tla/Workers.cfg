SPECIFICATION FairSpec
CONSTANTS
  Objects = {o1, o2}
  Finite = {o1}
  IValues = {1, 2}
  MaxStarts = 2
  MaxCrashes = 1
  NULL = NULL
INVARIANTS ProperUseIsSafe NoneLeft TokensConserved
PROPERTY DestroyedThreadsGo
CHECK_DEADLOCK FALSE
