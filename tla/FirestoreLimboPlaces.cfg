SPECIFICATION LimboFairSpec
CONSTANTS
  k1 = k1
  k2 = k2
  k3 = k3
  k4 = k4
  listing = listing
  search = search
  Docs <- TwoDocs
  Views <- ListAndSearch
  Matching <- BothAnswer
  MaxConcurrent = 1
  MaxEdits = 1
  MaxBreaks = 1
  MaxRejections = 1
  MaxStops = 1
INVARIANTS
  EngineOK
  LimboIsBeingResolved
  SyncedIsTrue
PROPERTY LimboEnds
