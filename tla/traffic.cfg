CONSTANTS
  w1 = w1
  red = red
  Warehouses = {w1}
  Variants = {red}
  Orders = {a, b}
  NoOrder = NoOrder
  MaxLine = 1
  Workers = {t1, t2}
  InitStock <- StockLast
  FirstPk = 3
  MaxPk = 3
  MaxEvents = 4
  Targets = {"CANCELLED"}
  StockRowsDeletable = FALSE
SPECIFICATION TrafficSpec
INVARIANTS
  AuditIsLifecycle
  AnswersHonest
PROPERTIES
  AloneNeverRefused
  SoldWhileListed
  CallsAnswered
\* Once every order is terminal and every identity is used, no call may be left.
CHECK_DEADLOCK FALSE
