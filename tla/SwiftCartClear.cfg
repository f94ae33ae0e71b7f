SPECIFICATION Spec
CONSTANTS
  Products = {burger}
  Price <- Prices
  Short <- ShortSums
  MaxUnits = 2
  MaxId = 2
  MaxFailures = 1
PROPERTY ClearEmptiesItsList
