SPECIFICATION FairSpec
CONSTANTS
  Threads = {t1, t2, t3}
  MODULUS = 3
  MaxCalls = 4
  NONE = NONE
INVARIANT NoRace
PROPERTIES IsAtomic CallsReturn
CHECK_DEADLOCK FALSE
