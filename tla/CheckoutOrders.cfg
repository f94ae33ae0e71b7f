SPECIFICATION FairSpec
CONSTANTS
  Foods = {burger}
  Promotions = {combo}
  Unavailable = Unavailable
  Price <- OnePrice
  MaxUnits = 1
  MaxId = 2
  MaxLag = 2
  MaxOpens = 3
  MaxRounds = 2
CONSTRAINT OrdersOrQuestions
INVARIANTS
  RepeatIsLastOrder
  EveryProductAccounted
  OrderSurvivesKill
PROPERTY GoneIsNoticed
