SPECIFICATION Spec
CONSTANTS
  p1 = p1
  p2 = p2
  w1 = w1
  w2 = w2
  Proc <- TwoProc
  Worker = {w1, w2}
  Home <- TwoHome
  None = None
  MaxTurns = 2
  MaxAttempts = 1
  MaxGen = 2
  Disturbance = {"cancel"}
  MaxDisturbances = 1
CHECK_DEADLOCK FALSE
SYMMETRY Exchange
VIEW Alive
INVARIANTS NoTurnGap
PROPERTIES TurnLogAppendOnly
