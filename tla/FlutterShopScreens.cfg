SPECIFICATION ShopSpec
CONSTANTS
  Foods = {burger}
  Promotions = {combo}
  Extras = {"bacon"}
  Price <- Prices
  Charge <- ExtraCharges
  Menus = {"Refrigerante"}
  Options <- TwoOptions
  DrinkPrice <- DrinkPrices
  MaxUnits = 2
  MaxScreens = 3
CHECK_DEADLOCK FALSE
INVARIANTS
  ShopTypeOK
  ChargedIsNamed
  RowsCounted
  EverythingSaved
PROPERTY ImplementsSavedCart
