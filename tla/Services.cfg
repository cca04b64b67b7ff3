SPECIFICATION ServicesSpec
CONSTANTS
  p1 = p1
  p2 = p2
  o1 = o1
  o2 = o2
  o3 = o3
  o4 = o4
  NoInstr = NoInstr
  Procs = {p1, p2}
  MaxCalls <- MCMaxCalls
  MaxCrashes = 1
  Instr = {r1, r2}
  MaxTurns = 2
  MaxFaults = 1
  KeyWindow = 2
  MaxSends = 2
  Callers = {c1, c2}
  edit1 = edit1
  edit2 = edit2
  run1 = run1
  Calls = {edit1, edit2, run1}
  PreviewOf <- MCPreviewOf
  Window = 2
  Suppress = 1
  MaxTime = 2
  MaxCards = 2
  MaxRestarts = 1
  Writers = {w1, w2}
  Clients = {k1}
  MaxEvents = 3
  MaxMishaps = 1
  Ops = {o1, o2, o3, o4}
  DependsOn <- MCDependsOn
  Batch <- MCBatch
  MaxDepFaults = 2
  Children = {1, 2, 3}
  MaxServerCrashes = 2
  Files = {f1, f2}
  Arrives = {f2}
  MaxVersion = 2
  Absent = Absent
  Torn = Torn
  NoJournal = NoJournal
  MaxUpdateFaults = 3
CHECK_DEADLOCK FALSE
INVARIANTS TypesOK HoldersExclude EvidenceOnce SucceededIsTold NewestAskIsDurable
  LogSequenced ReceivedInOrder RunsAfterPrerequisites BatchIsAtomic QueuedIsAwaited
  DriverHoldsClaim UpdateIsAtomic
PROPERTIES LockedUpdatesKept EveryCallReturns EveryTurnTold
  ImplementsRedirectBox OutcomesAreTheUsers EveryAskSettles
