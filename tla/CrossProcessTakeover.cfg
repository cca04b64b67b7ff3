SPECIFICATION Spec
CONSTANTS
  p1 = p1
  p2 = p2
  w1 = w1
  w2 = w2
  Proc <- TwoProc
  Worker = {w1, w2}
  Home <- TwoHome
  None = None
  MaxTurns = 2
  MaxAttempts = 1
  MaxGen = 4
  Disturbance = {}
  MaxDisturbances = 0
CHECK_DEADLOCK FALSE
INVARIANTS ArmedOwnsLease
