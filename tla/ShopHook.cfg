CONSTANTS
  MaxId = 2
  Pile = 2
  Stocks <- HeroBag
  Price = 1
  Fee = 1
  Peace = 1
  Snags <- AnyThing
  MaxDebt = 2
SPECIFICATION Spec
PROPERTIES
  SettledOutside
CHECK_DEADLOCK FALSE
