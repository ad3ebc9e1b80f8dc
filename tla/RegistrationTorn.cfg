SPECIFICATION Spec
CONSTANTS
  a = a
  b = b
  Content = {a, b}
  Writers = {w1}
  Checkers = {}
  InitialRoots <- AllRoots
  MaxInvocations = 3
  MaxFaults = 2
  MaxCrashes = 1
  TornErrors = TRUE
INVARIANTS
  BackupHasJournal
  SuccessIsInstalled
  UpdatedIsComplete
