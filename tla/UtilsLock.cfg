CONSTANTS
  Procs = {p1, p2, p3}
  Timeouts = {0, 2}
  NoProc = NoProc
SPECIFICATION LockFairSpec
INVARIANTS CommandsExclusive HolderIsNamed
PROPERTY LockIsFreed
CHECK_DEADLOCK FALSE
