CONSTANTS
  Clients = {c1, c2}
  Orders = {a}
  Stock = Stock
  Firehose = Firehose
  QueueSize = 1
  MaxEvents = 3
  Prompt = {c1}
SPECIFICATION FairSpec
INVARIANTS
  TypeOK
  OnlyOldLost
  DropsAccounted
  OnlyServedOrOrphaned
PROPERTIES
  ImplementsFeed
  FreshEventsArrive
\* Once every connection ended and every event is broadcast, nothing is left to do.
CHECK_DEADLOCK FALSE
