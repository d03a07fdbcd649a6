SPECIFICATION Spec
CONSTANTS
  Capacity = 8
  MaxInput = 3
  MaxOutput = 2
INVARIANTS LossIsExplained
PROPERTIES RingsAreChannels InputIsRead
CHECK_DEADLOCK FALSE
