CONSTANTS
  Orders = {1}
  Keys = {k}
  MaxNotes = 2
  MaxFailures = 1
  QueueSize = 2
  MaxRows = 2
  Limit = 2
SPECIFICATION Spec
INVARIANTS
  SelfHeals
\* Once every notification is committed and all is quiet, nothing is left to do.
CHECK_DEADLOCK FALSE
