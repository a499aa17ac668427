SPECIFICATION FairSpec
CONSTANTS
  Cell = {c1, c2, c3}
  NULL = NULL
  Fd = {0, 1, 2}
  Interests <- MCInterests
  Exceptional = {0}
  MaxOps = 2
INVARIANT
  ListSound
PROPERTIES
  OrderlyDispatch
  WaitEnds
CHECK_DEADLOCK FALSE
