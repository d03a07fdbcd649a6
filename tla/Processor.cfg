SPECIFICATION Spec
CONSTANTS
  r1 = r1
  r2 = r2
  h1 = h1
  h2 = h2
  Runners = {r1, r2}
  Halters = {h1, h2}
  MaxSequence = 2
  MaxBatchSize = 2
  MaxAttempts = 2
INVARIANTS TypeOK OneRunner Accounted
PROPERTIES SettledIsFinal HaltEndsRun Progress
CHECK_DEADLOCK FALSE
