CONSTANTS
  Orders = {1, 2}
  Keys = {k}
  MaxNotes = 4
  MaxFailures = 2
  QueueSize = 1
  MaxRows = 1
  Limit = 1
SPECIFICATION FairSpec
INVARIANTS
  TypeOK
  InOrder
  StaleOnlyIfMissed
PROPERTIES
  HealthIsHonest
  BackOnline
\* Once every notification is committed and all is quiet, nothing is left to do.
CHECK_DEADLOCK FALSE
