SPECIFICATION Spec
CONSTANTS
  BufferSize = 2
  MaxSequence = 4
  Producers = {p1, p2}
  Consumers = {c1, c2}
  p1 = p1
  p2 = p2
  c1 = c1
  c2 = c2
  DependsOn <- PipelineDependsOn
  Upstream <- PipelineUpstream
  GatingConsumers = {c2}
  RequestSizes = {1, 2}
  MaxBatchSize = 2
  FlagModulus = 2
INVARIANTS TypeOK NoOverrun BatchIntact ClaimsPartition FlagsAreTruthful DependencyOrder
PROPERTIES ClaimedIsHandled ImplementsMulticast
CHECK_DEADLOCK FALSE
