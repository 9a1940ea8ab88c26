SPECIFICATION Spec
CONSTANTS
  N = 1
  Retries = {1}
  Timeouts = {0}
  Durations = {0}
  BackoffBase = 1
  BackoffCap = 2
INVARIANT
  InDoubtCoversWrites
