----------------------- MODULE CoroSemaphoreHistory -----------------------
(***************************************************************************)
(* The properties of CoroSemaphore that one race breaks: a release that    *)
(* pops nobody while an acquire of another thread is between its load of   *)
(* the count and its push.  The history variable `raced' records it; what  *)
(* follows from the race is not held against the properties, everything    *)
(* else is.                                                                *)
(***************************************************************************)
EXTENDS CoroSemaphore

VARIABLE raced
hvars == <<running, ready, pending, tpc, wakefd, live,
           count, semWaiters, spc, seen, popped, raced>>

RacedStep == \E c, d \in Coroutines :
               spc[c] = "pop" /\ spc'[c] = "out" /\ spc[d] = "enq"
HInit == Init /\ raced = FALSE
HNext == Next /\ raced' = (raced \/ RacedStep)
HSpec == HInit /\ [][HNext]_hvars /\ Fairness

\* acquire and release leave no waiter behind: while some coroutine waits,
\* every free permit is owed to one release has woken or is about to pop.
NoStrandedWaiter ==
  ~raced /\ semWaiters # <<>> => count <= Cardinality(Owed)

\* A permit does not stay free for ever while somebody waits for it in acquire.
FreePermitIsUsed ==
  semWaiters # <<>> /\ count > 0 ~> semWaiters = <<>> \/ count <= 0 \/ raced
=============================================================================
