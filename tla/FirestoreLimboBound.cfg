SPECIFICATION LimboSpec
CONSTANTS
  k1 = k1
  k2 = k2
  k3 = k3
  k4 = k4
  listing = listing
  search = search
  Docs <- FourDocs
  Views <- ListAndSearch
  Matching <- OneAnswersBoth
  MaxConcurrent = 2
  MaxEdits = 0
  MaxBreaks = 0
  MaxRejections = 0
  MaxStops = 0
INVARIANT ResolutionsBounded
