SPECIFICATION WriteSpec
CONSTANTS
  PAGE_SIZE = 4
  XDMA_DESC_MAX_BYTES = 15
  MAX_EXTRA_ADJ = 2
  DESC_SIZE = 2
  FETCH_PAGE = 8
  WORD = 16
  MaxEntries = 5
  MaxCount = 14
  Starts <- MCStarts
  Counts <- MCCounts
  DescBuses <- MCDescBuses
  EpAddrs <- MCEpAddrs
  Frames = {0, 1, 2, 3}
INVARIANTS TypeOK TableFits NoBug SglExact PinsCounted ListFollows WholeBuffer PinnedWhileBuilt
PROPERTY TransferEnds
CHECK_DEADLOCK FALSE
