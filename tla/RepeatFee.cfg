SPECIFICATION Spec
CONSTANTS
  Orders <- TwoOrders
  Price = 3
  MaxUnits = 3
  MaxOpens = 2
  MaxRounds = 1
INVARIANT MessageChargesDelivery
