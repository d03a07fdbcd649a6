SPECIFICATION SafeSpec
CONSTANTS
  BufferSize = 2
  MaxSequence = 4
  c1 = c1
  c2 = c2
  Consumers = {c1, c2}
  InitialConsumers = {c1}
  RequestSizes = {1}
  QuiescentUpdates = FALSE
INVARIANTS NoDanglingRead
CHECK_DEADLOCK FALSE
