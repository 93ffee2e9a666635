SPECIFICATION FairSpec
CONSTANTS
  Writers = {w1, w2}
  MaxDescs = 3
  MAX_EXTRA_ADJ = 1
  Buffers <- MCBuffers
  MaxConcurrent = 2
  SlowEngine = FALSE
  Faults = FALSE
INVARIANT WaitCompletes
CHECK_DEADLOCK FALSE
