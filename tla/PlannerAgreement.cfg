SPECIFICATION Spec
CONSTANTS
  u = u
  v = v
  a = a
  b = b
  c = c
  Nowhere = Nowhere
  Ids = {a, b, c}
  Declarations <- MCDeclarations
  Edits <- MCEdits
  Inventories <- MCInventories
  Units <- Units2
  Scenes <- MCScenes
  HandMade <- MCHandMade
  MaxHistorySteps = 2
  MaxGenerations = 3
CHECK_DEADLOCK FALSE
INVARIANT PlannerAndCheckerAgree
