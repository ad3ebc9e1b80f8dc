SPECIFICATION FairSpec
CONSTANTS
  a = a
  b = b
  Content = {a}
  Writers = {w1, w2}
  Checkers = {c1}
  InitialRoots <- OneRoot
  MaxInvocations = 2
  MaxFaults = 1
  MaxCrashes = 1
  TornErrors = FALSE
INVARIANT LockExclusive
PROPERTIES
  ComparisonIsCurrent
  EveryInvocationReturns
