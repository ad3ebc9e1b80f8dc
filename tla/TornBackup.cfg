SPECIFICATION Spec
CONSTANTS
  a = a
  b = b
  Content = {a, b}
  Writers = {w1}
  Checkers = {}
  InitialRoots <- CleanRoots
  MaxInvocations = 2
  MaxFaults = 1
  MaxCrashes = 0
  TornErrors = TRUE
INVARIANT RestoredIsPriorRoot
