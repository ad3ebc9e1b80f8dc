SPECIFICATION Spec
CONSTANTS
  alice = alice
  bob = bob
  Principals = {alice, bob}
  Inventories = {v1}
  Intents = {i1}
  Reasons = {r1}
  GrantTables <- Tables
  MaxGenerations = 3
  MaxConfirmations = 1
  MaxSessions = 3
  MaxRevisions = 3
  MaxDraws = 2
  MaxPrepared = 2
  MaxConfirmed = 1
CHECK_DEADLOCK FALSE
INVARIANTS
  TypeOK
  ChainLinear
  RecordsAreOrdered
  BindingMatchesChain
PROPERTIES
  UnavailableIsFinal
  PublisherInForce
  ConfirmersInForce
