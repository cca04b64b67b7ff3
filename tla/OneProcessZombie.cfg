SPECIFICATION Spec
CONSTANTS
  p1 = p1
  p2 = p2
  w1 = w1
  w2 = w2
  Proc <- OneProc
  Worker = {w1, w2}
  Home <- OneHome
  None = None
  MaxTurns = 2
  MaxAttempts = 1
  MaxGen = 8
  Disturbance = {"crash", "heartbeat", "pause", "resume", "cancel", "throw", "failover", "lock", "factory"}
  MaxDisturbances = 3
CHECK_DEADLOCK FALSE
INVARIANTS ArmedOwnsLease GenerationsOrdered
