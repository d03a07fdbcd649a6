SPECIFICATION SafeSpec
CONSTANTS
  w1 = w1
  w2 = w2
  Waiters = {w1}
  MaxSequence = 1
  Kinds = {"LiteBlocking"}
  DelayedStores = {"LiteBlocking"}
  None = None
INVARIANTS NoLostWakeup
CHECK_DEADLOCK FALSE
