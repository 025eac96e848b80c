SPECIFICATION Spec
CONSTANTS
  Worker = {w1}
  FirstWorker = w1
  Others = {o1}
  MaxFrames = 2
  MaxSockets = 1
  BehindLimit = 2
CHECK_DEADLOCK FALSE
INVARIANT NothingMissed
