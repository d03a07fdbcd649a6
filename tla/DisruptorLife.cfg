SPECIFICATION Spec
CONSTANTS
  h1 = h1
  h2 = h2
  Handlers = {h1, h2}
  BufferSize = 1
  MaxSequence = 2
INVARIANTS TypeOK ChainsHold ShutdownDrains
PROPERTIES ShutdownReturns DestructionEnds
CHECK_DEADLOCK FALSE
