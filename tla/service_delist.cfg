CONSTANTS
  w1 = w1
  red = red
  blue = blue
  Warehouses = {w1}
  Variants = {red, blue}
  Orders = {a, b}
  NoOrder = NoOrder
  MaxLine = 1
  Workers = {t1, t2}
  InitStock <- StockEnough
  FirstPk = 3
  MaxPk = 6
  Targets = {"CANCELLED"}
  StockRowsDeletable = TRUE
SPECIFICATION Spec
INVARIANTS
  UnitsConserved
  LockedRowsFresh
  ChannelTellsStock
PROPERTIES
  ImplementsOrderBook
\* Once every order is terminal and every row is gone, no request is left.
CHECK_DEADLOCK FALSE
