SPECIFICATION SafeSpec
CONSTANTS
  h1 = h1
  h2 = h2
  Handlers = {h1, h2}
  BufferSize = 1
  MaxSequence = 1
INVARIANTS ShutdownDrainsStarted
CHECK_DEADLOCK FALSE
