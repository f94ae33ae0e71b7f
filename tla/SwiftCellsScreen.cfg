SPECIFICATION FairSpec
CONSTANTS
  Foods = {food}
  Promotions = {egg, bacon}
  Cells = {c1, c2}
  Indisponivel = Indisponivel
  Logo = Logo
  NoPicture = NoPicture
  Price <- Prices
  Height = 1
  MaxItems = 2
  MaxUnits = 2
  MaxPreps = 2
CHECK_DEADLOCK FALSE
INVARIANTS
  RowIsItsOwn
  SettledRows
PROPERTY PromotionsSettle
