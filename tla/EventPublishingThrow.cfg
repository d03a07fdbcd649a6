SPECIFICATION SafeSpec
CONSTANTS
  BufferSize = 2
  MaxSequence = 1
  p1 = p1
  p2 = p2
  c1 = c1
  c2 = c2
  c3 = c3
  Producers = {p1, p2}
  TheProducer = p1
  Pollers = {c1, c2, c3}
  GatedBy <- JoinGatedBy
  Batched = {c1, c2}
  BatchSize <- OneAndTwo
  RequestSizes = {2}
  MaxThrows = 1
INVARIANTS PublishesInFinally
CHECK_DEADLOCK FALSE
