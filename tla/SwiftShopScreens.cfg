SPECIFICATION ShopSpec
CONSTANTS
  bacon = bacon
  egg = egg
  Foods = {burger}
  Promotions = {combo}
  Additionals = {bacon, egg}
  Price <- Prices
  AddPrice <- AddPrices
  Rows = 3
  Window = 2
  DrinkPrice <- DrinkPrices
  MaxUnits = 2
  MaxScreens = 2
CHECK_DEADLOCK FALSE
INVARIANTS
  ShownIsCharged
  LabelCoversOrder
  TappedIsOrdered
PROPERTY ImplementsSavedCart
