SPECIFICATION Spec
CONSTANTS
  PAGE_SIZE = 4
  XDMA_DESC_MAX_BYTES = 15
  MAX_EXTRA_ADJ = 2
  DESC_SIZE = 2
  FETCH_PAGE = 8
  WORD = 16
  MaxEntries = 6
  MaxMerge = 3
  SGLs <- MCSGLs
  DescBuses <- MCDescBuses
  EpAddrs <- MCEpAddrs
INVARIANTS TypeOK InsideArray ChainComplete FetchesInside TransferExact DescWithinMax
CHECK_DEADLOCK FALSE
