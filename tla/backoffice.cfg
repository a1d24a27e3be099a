CONSTANTS
  w1 = w1
  red = red
  Warehouses = {w1}
  Variants = {red}
  Orders = {a, b}
  NoOrder = NoOrder
  MaxLine = 1
  Workers = {t1, t2}
  InitStock <- StockOneVariant
  FirstPk = 2
  MaxPk = 3
  Targets = {"CANCELLED"}
  StockRowsDeletable = TRUE
  Pages = {"stock", "order"}
  Counts = {0, 1}
  Edits = {"PENDING", "CANCELLED"}
  MaxWrites = 3
SPECIFICATION OfficeSpec
SYMMETRY Symmetry
INVARIANTS
  LockedRowsFresh
PROPERTIES
  ServiceConserves
\* Once every order is gone and every identity is used, no request is left.
CHECK_DEADLOCK FALSE
