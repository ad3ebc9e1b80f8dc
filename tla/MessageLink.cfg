SPECIFICATION Spec
CONSTANTS
  Requests <- AllRequests
  MaxMatchStates = 24
CHECK_DEADLOCK FALSE
INVARIANTS
  PlansHoldWhatIsAsked
  NoLookupComesUpEmpty
  UnusedCanBePruned
  ModelsCoverPlans
