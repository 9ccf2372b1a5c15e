CONSTANTS
  t1 = t1
  t2 = t2
  m1 = m1
  m2 = m2
  c1 = c1
  NULL = NULL
  MaxCount = 2
  Threads = {t1, t2}
  Coroutines = {m1, c1, m2}
  home <- TwoHome
  main <- TwoMain
SPECIFICATION HSpec
INVARIANTS WaitMeansZero NoStrandedWaiter
PROPERTIES ZeroReleases WokenReturns
CHECK_DEADLOCK FALSE
