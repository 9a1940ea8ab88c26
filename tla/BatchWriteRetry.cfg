SPECIFICATION Spec
CONSTANTS
  N = 2
  Retries = {0, 1, 2}
  Timeouts = {0, 3}
  Durations = {0, 1, 3}
  BackoffBase = 1
  BackoffCap = 2
INVARIANTS
  ResultsAreTheirOwn
  OnlyFailingResent
  RaisesOnlyUnanswered
  StatsAreTruthful
  WithinOneMoreWindow
PROPERTY
  GuardedNeverOverwrites
