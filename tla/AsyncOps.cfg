SPECIFICATION OpsSpec
CONSTANTS
  Connects = {a1, a2}
  Closes = {c1}
  Ops = {o1, o2, o3, q1}
  Limited = {o1, o2, o3}
  QueueTimeouts = TRUE
  Limits = {0, 2, 3}
  MaxPermits = 2
  NoOne = NoOne
SYMMETRY OpSymmetry
INVARIANTS
  PoolProtected
CHECK_DEADLOCK FALSE
