CONSTANTS
  s1 = s1
  s2 = s2
  c1 = c1
  c2 = c2
  Sessions = {s1, s2}
  Jobs = {j1, j2, j3}
  Threads = {c1, c2}
  parent <- BothOfFirst
  MaxProcesses = 1
  NoFile = NoFile
  None = None
SPECIFICATION Spec
INVARIANTS Accounted LiveTrackersStay StaleSwept
SYMMETRY Symmetry
CHECK_DEADLOCK FALSE
