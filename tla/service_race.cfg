CONSTANTS
  w1 = w1
  red = red
  blue = blue
  Warehouses = {w1}
  Variants = {red, blue}
  Orders = {a, b}
  NoOrder = NoOrder
  MaxLine = 2
  Workers = {t1, t2, t3}
  InitStock <- StockScarce
  FirstPk = 3
  MaxPk = 3
  Targets = {"CONFIRMED", "CANCELLED"}
  StockRowsDeletable = FALSE
SPECIFICATION Spec
SYMMETRY Symmetry
INVARIANTS
  TypeOK
  NoOversell
  UnitsConserved
  LockedRowsFresh
  NoDeadlock
PROPERTIES
  RefusalsAreHonest
\* Once every order is terminal and every identity is used, no request is left.
CHECK_DEADLOCK FALSE
