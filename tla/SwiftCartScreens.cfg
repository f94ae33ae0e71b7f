SPECIFICATION Spec
CONSTANTS
  Products = {burger}
  Price <- Prices
  Short <- ShortSums
  MaxUnits = 2
  MaxId = 3
  MaxFailures = 1
VIEW ScreensView
INVARIANTS
  TypeOK
  RowsMatchStore
  LabelAgrees
  RepeatIsLastOrder
  CutCopyIsPrefix
PROPERTY MessageIsWhatWasShown
