SPECIFICATION Spec
CONSTANTS
  Foods = {burger}
  Promotions = {combo}
  Unavailable = Unavailable
  Price <- OnePrice
  MaxUnits = 2
  MaxId = 2
  MaxLag = 2
  MaxOpens = 1
  MaxRounds = 2
VIEW ScreenView
CONSTRAINT OneCalmScreen
INVARIANTS
  TypeOK
  TotalAgrees
  AnswersAimRight
  RowsTellTheTruth
  OnlyUnitsUnsaved
PROPERTY UnavailableForever
