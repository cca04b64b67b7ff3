SPECIFICATION FairSpec
CONSTANTS
  a = a
  b = b
  c = c
  L1 = L1
  L2 = L2
  gpu = gpu
  disk = disk
  k1 = k1
  k2 = k2
  k3 = k3
  k4 = k4
  None = None
  Op = {a, b}
  Lane = {L1, L2}
  Lock = {gpu, disk}
  Call = {k1, k2, k3, k4}
  LaneOf <- MCLaneOf
  LocksOf <- MCLocksOf
  LaneCap <- MCLaneCap
  GlobalCap = 2
  Unreadable = {a}
  MaxEvents = 2
CHECK_DEADLOCK FALSE
INVARIANT LocksBalanced
PROPERTIES QueueMoves QueuedCancelCompletes
