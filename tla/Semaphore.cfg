CONSTANTS
  t1 = t1
  t2 = t2
  m1 = m1
  m2 = m2
  c1 = c1
  NULL = NULL
  Threads = {t1, t2}
  Coroutines = {m1, c1, m2}
  home <- TwoHome
  main <- TwoMain
  Permits = 1
SPECIFICATION HSpec
INVARIANTS PermitsConserved OverdraftBounded NoStrandedWaiter
PROPERTY FreePermitIsUsed
CHECK_DEADLOCK FALSE
