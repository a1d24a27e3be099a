CONSTANTS
  MaxX = 2
  MaxY = 2
  MaxItems = 5
  Items <- Numbers
  Points <- Grid
  NoBin <- NoWhere
  Placements <- SortedPlacements
SPECIFICATION Spec
INVARIANTS
  EveryItemOnce
  TwoOptimal
  OracleIsExact
PROPERTIES
  SwapsShorten
  EnginesAgree
  PathsAnswered
\* Once the path is answered, nothing is left to do.
CHECK_DEADLOCK FALSE
