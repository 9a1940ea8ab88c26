SPECIFICATION FairSpec
CONSTANTS
  Inits = {i1, i2}
  Shutdowns = {s1}
  Calls = {b1}
  Reads = {r1, r2}
  Builds = {"gil", "free-threaded"}
  NoOne = NoOne
INVARIANTS
  ActiveHasProvider
  OneConversion
PROPERTY
  FreeThreadedCallsReturn
\* Every thread makes one call, and under the GIL two of them can deadlock.
CHECK_DEADLOCK FALSE
