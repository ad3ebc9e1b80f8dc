SPECIFICATION Spec
CONSTANTS
  app = app
  web = web
  greeting = greeting
  farewell = farewell
  home = home
  shop = shop
  Delivery <- TwoTargets
  Keys <- TwoKeys
  Sources <- TwoSources
  Place <- Places
  Catalogs <- SmallCatalogs
  Uses <- SmallUses
  Operands = {web}
  MaxRuns = 2
  MaxEdits = 1
  MaxFaults = 1
  MaxCrashes = 1
INVARIANTS
  OutputsAreWhole
  ReportsAreTrue
  FailureStopsNoOther
