SPECIFICATION FairSpec
CONSTANTS
  Connects = {a1, a2, a3}
  Closes = {c1, c2}
  Ops = {o1}
  Limits = {0, 1}
  MaxPermits = 1
  NoOne = NoOne
INVARIANTS
  ConnectingHasOwner
  OneOpenClient
  PairedLimiter
PROPERTY
  ContractSpec
  ConnectingResolves
  ClosingResolves
\* Every call happens once, so a behaviour ends when all of them are over.
CHECK_DEADLOCK FALSE
