SPECIFICATION FairSpec
CONSTANTS
  Devices = {d1}
  Users = {u1, u2}
  MaxEnables = 3
  NULL = NULL
INVARIANTS AccessMapped BarsKnown InUseUntouched UnboundIsClean CleanUnload MappingsBound
PROPERTY LoadSettles
CHECK_DEADLOCK FALSE
