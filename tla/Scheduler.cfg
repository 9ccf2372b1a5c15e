CONSTANTS
  NULL = NULL
  main = m
  Coroutines = {m, c1, c2}
  Fds = {f1}
  Ops = {"suspend", "sleep", "timeout", "fdWait", "resume"}
  SwitchLimit = 3
  MaxStacks = 1
SPECIFICATION QuietSpec
INVARIANTS ReadyOnce NoDanglingEvent StackSafe VerdictMatches
PROPERTIES FdServed SleeperWakes
CHECK_DEADLOCK FALSE
