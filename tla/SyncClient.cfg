SPECIFICATION FairSpec
CONSTANTS
  Threads = {t1, t2}
  MaxSessions = 2
  Records = 1
  QueueSize = 1
  Limits = {0, 1, 9}
  MaxPermits = 5
INVARIANTS
  CallsKeepTheirSession
  BorrowedByOthersOnly
  NoSilentTruncation
PROPERTIES
  ContractSpec
  EveryCallReturns
