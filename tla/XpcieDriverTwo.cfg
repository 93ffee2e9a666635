SPECIFICATION FairSpec
CONSTANTS
  Devices = {d1, d2}
  Users = {u1}
  MaxEnables = 3
  NULL = NULL
INVARIANT BarsKnown
CHECK_DEADLOCK FALSE
