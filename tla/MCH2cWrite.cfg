SPECIFICATION FairSpec
CONSTANTS
  Writers = {w1, w2}
  MaxDescs = 3
  MAX_EXTRA_ADJ = 1
  Buffers <- MCBuffers
  MaxConcurrent = 2
  SlowEngine = TRUE
  Faults = TRUE
INVARIANTS TypeOK StartsAtChain UnracedStartIsOwn OnlySubmitted StrayHasCause StoppedWhenUnused MappedArePinned
PROPERTY EveryCallEnds
CHECK_DEADLOCK FALSE
