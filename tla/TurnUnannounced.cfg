SPECIFICATION TurnFairSpec
CONSTANTS
  Instr = {r1}
  NoInstr = NoInstr
  MaxTurns = 2
  MaxFaults = 1
  KeyWindow = 2
  MaxSends = 1
CHECK_DEADLOCK FALSE
PROPERTIES TerminalIsAnnounced
