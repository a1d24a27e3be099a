CONSTANTS
  Requests = {r1, r2}
  TTL = 2
  Poll = 1
  MaxTime = 2
  MaxSales = 1
  MaxFailures = 1
SPECIFICATION Spec
INVARIANTS
  TypeOK
  AnswersBounded
  PanelBounded
  StampIsHonest
PROPERTIES
  PanelCatchesUp
