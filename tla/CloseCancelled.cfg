SPECIFICATION FairSpec
CONSTANTS
  Connects = {a1}
  Closes = {c1, c2}
  Ops = {o1}
  Limits = {0}
  MaxPermits = 1
  NoOne = NoOne
PROPERTY
  AlwaysDisconnects
CHECK_DEADLOCK FALSE
