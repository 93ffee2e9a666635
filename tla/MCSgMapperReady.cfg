SPECIFICATION FairSpec
CONSTANTS
  PAGE_SIZE = 4
  MaxCount = 14
  Starts <- MCStarts
  Counts <- MCCounts
INVARIANT MapperReady
CHECK_DEADLOCK FALSE
