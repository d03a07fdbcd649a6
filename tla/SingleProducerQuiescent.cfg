SPECIFICATION Spec
CONSTANTS
  BufferSize = 2
  MaxSequence = 4
  c1 = c1
  c2 = c2
  Consumers = {c1, c2}
  InitialConsumers = {c1}
  RequestSizes = {1, 2, 3}
  QuiescentUpdates = TRUE
INVARIANTS TypeOK NoDanglingRead NoOverrun BatchIntact
PROPERTIES LookingForRoomEnds PublishedIsHandled
CHECK_DEADLOCK FALSE
