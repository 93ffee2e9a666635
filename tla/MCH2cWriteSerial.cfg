SPECIFICATION FairSpec
CONSTANTS
  Writers = {w1, w2, w3}
  MaxDescs = 3
  MAX_EXTRA_ADJ = 1
  Buffers <- MCBuffers
  MaxConcurrent = 1
  SlowEngine = FALSE
  Faults = FALSE
PROPERTY KeepsPromise
CHECK_DEADLOCK FALSE
