SPECIFICATION Spec
CONSTANTS
  a = a
  b = b
  Content = {a, b}
  Writers = {w1}
  Checkers = {}
  InitialRoots <- CrashRoots
  MaxInvocations = 3
  MaxFaults = 2
  MaxCrashes = 2
  TornErrors = FALSE
INVARIANTS
  TypeOK
  OutputChangeIsJournaled
  WholeParticipantsAreRecoverable
  FailureKeepsPriorRoot
  IndeterminateIsRecoverable
PROPERTY ImplementsAtomicRoot
