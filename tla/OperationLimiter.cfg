SPECIFICATION FairSpec
CONSTANTS
  Ops = {o1, o2, o3, o4}
  Limits = {0, 1, 2}
  Timeouts = {0, 50}
INVARIANTS
  PermitsConserved
  NoIdleSlot
PROPERTIES
  FirstComeFirstServed
  SlotsSpec
  EveryWaiterServed
\* Every operation is issued once, so a behaviour ends when all are over.
CHECK_DEADLOCK FALSE
