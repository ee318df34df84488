CONSTANTS
  MaxId = 2
  Pile = 2
  Stocks <- All
  Price = 1
  Fee = 1
  Peace = 1
  Snags <- SingleThings
  MaxDebt = 2
SPECIFICATION Spec
INVARIANTS
  TypeOK
  BillMatches
  OnePrice
  NoImpossible
PROPERTIES
  GoodsWhereTheyBelong
  SettledOutside
  NothingForNothing
CHECK_DEADLOCK FALSE
