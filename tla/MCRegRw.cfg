SPECIFICATION Spec
CONSTANTS
  PAGE_SIZE = 4
  ULONG = 32
  MAP_SIZE = 8
  Procs = {p1, p2}
  NULL = NULL
  Bars <- MCBars
  Bytes <- MCBytes
  Contents <- MCContents
  Calls <- MCCalls
  Elsewhere <- MCElsewhere
  Requests <- MCRequests
INVARIANT MmapExact
PROPERTY AccessExact
CHECK_DEADLOCK FALSE
