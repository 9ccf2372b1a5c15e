CONSTANTS
  t1 = t1
  m1 = m1
  c1 = c1
  c2 = c2
  NULL = NULL
  Threads = {t1}
  Coroutines = {m1, c1, c2}
  home <- TrioHome
  main <- OneMain
  Senders = {c1}
  Receivers = {m1}
  Capacity = 1
  Timed = TRUE
  Sleepers = {m1, c1, c2}
SPECIFICATION QuietSpec
INVARIANTS ReadyOnce RoomAfterWait DataAfterWait
PROPERTY BothEndsProgress
CHECK_DEADLOCK FALSE
