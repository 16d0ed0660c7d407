\* One request, five media packets through a queue of two, under thread
\* fairness; timeouts need not expire.
SPECIFICATION FairSpec
CONSTANTS
  r1 = r1
  Requests = {r1}
  None = None
  Capacity = 2
  MaxArrivals = 5
  Foreign <- ForeignPackets
CHECK_DEADLOCK FALSE
INVARIANTS
  QueueIsExact
  DeliveryInOrder
PROPERTIES
  FailureReachesCallers
  CloseEnds
  RequestsEnd
