SPECIFICATION Spec
CONSTANTS
  Orders <- PromotionOrders
  Price = 3
  MaxUnits = 2
  MaxOpens = 2
  MaxRounds = 2
CHECK_DEADLOCK FALSE
VIEW RepeatView
CONSTRAINT MoreToCome
INVARIANTS
  TotalAgreesUnlessBare
  OnlyUnitsUnsaved
  OnlyMissingIsMarked
