CONSTANTS
  w1 = w1
  red = red
  Warehouses = {w1}
  Variants = {red}
  Orders = {a, b}
  NoOrder = NoOrder
  MaxLine = 1
  Workers = {t1, t2}
  InitStock <- StockOneVariant
  FirstPk = 2
  MaxPk = 2
  Targets = {"CANCELLED"}
  StockRowsDeletable = FALSE
  Pages = {"stock"}
  Counts = {}
  Edits = {"PENDING", "CANCELLED"}
  MaxWrites = 2
SPECIFICATION OfficeSpec
INVARIANTS
  NoLostUpdate
