SPECIFICATION Spec
CONSTANTS
  a = a
  b = b
  Content = {a, b}
  Writers = {w1, w2}
  Checkers = {}
  InitialRoots <- CleanRoots
  MaxInvocations = 2
  MaxFaults = 0
  MaxCrashes = 0
  TornErrors = FALSE
INVARIANT RacingWriterWaits
