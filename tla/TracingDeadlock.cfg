SPECIFICATION FairSpec
CONSTANTS
  Inits = {i1}
  Shutdowns = {s1}
  Calls = {}
  Reads = {}
  Builds = {"gil"}
  NoOne = NoOne
PROPERTY
  TracingCallsReturn
CHECK_DEADLOCK FALSE
