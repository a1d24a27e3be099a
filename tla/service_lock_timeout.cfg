CONSTANTS
  w1 = w1
  red = red
  blue = blue
  Warehouses = {w1}
  Variants = {red, blue}
  Orders = {a, b}
  NoOrder = NoOrder
  MaxLine = 1
  Workers = {t1, t2}
  InitStock <- StockScarce
  FirstPk = 3
  MaxPk = 3
  Targets = {"CONFIRMED", "CANCELLED"}
  StockRowsDeletable = FALSE
  Stalled = t2
SPECIFICATION StalledSpec
PROPERTIES
  ContendedRequestsFinish
CHECK_DEADLOCK FALSE
