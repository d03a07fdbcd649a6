SPECIFICATION Spec
CONSTANTS
  w1 = w1
  w2 = w2
  Waiters = {w1, w2}
  MaxSequence = 0
  Kinds = {"Spinning", "Blocking", "TimeoutBlocking", "LiteBlocking", "LiteTimeoutBlocking"}
  DelayedStores = {"LiteTimeoutBlocking"}
  None = None
INVARIANTS TypeOK NoLostWakeup
PROPERTIES Delivered AlertEndsWait
CHECK_DEADLOCK FALSE
