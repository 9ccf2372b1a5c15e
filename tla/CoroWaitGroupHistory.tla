----------------------- MODULE CoroWaitGroupHistory -----------------------
(***************************************************************************)
(* The properties of CoroWaitGroup that two races between threads break,   *)
(* each recorded by a history variable: what follows from the race is not  *)
(* held against the properties.                                            *)
(*   missed  a done drained the list while a wait of another thread was    *)
(*           between its load of the count and its push                    *)
(*   reused  add was called between the fetchSub of the done that reached  *)
(*           zero and its drain                                            *)
(***************************************************************************)
EXTENDS CoroWaitGroup

VARIABLES missed, reused
hvars == <<running, ready, pending, tpc, wakefd, live,
           count, wgWaiters, wpc, toWake, sawZero, missed, reused>>

MissedStep == \E c, d \in Coroutines :
                wpc[c] = "drain" /\ wpc'[c] # "drain" /\ wpc[d] = "enq"
ReusedStep == count' > count /\ \E c \in Coroutines : wpc[c] = "drain"
HInit == Init /\ missed = FALSE /\ reused = FALSE
HNext == /\ Next
         /\ missed' = (missed \/ MissedStep)
         /\ reused' = (reused \/ ReusedStep)
HSpec == HInit /\ [][HNext]_hvars /\ Fairness

\* wait "waits for counter to reach zero": a coroutine it parked runs again
\* only if the count was zero at some moment of the call.
WaitMeansZero ==
  \A c \in Coroutines :
    ~reused /\ Executing(c) /\ wpc[c] = "parked" => sawZero[c]

\* Nobody waits for tasks that are already done: while the list is not empty
\* the count is positive or the done that took it to zero has yet to drain.
NoStrandedWaiter ==
  ~missed /\ wgWaiters # <<>> =>
    count > 0 \/ \E c \in Coroutines : wpc[c] = "drain"

\* A coroutine parked in wait leaves it once there is nothing to wait for.
ZeroReleases ==
  \A c \in Coroutines :
    wpc[c] = "parked" /\ count = 0 ~> wpc[c] = "out" \/ missed
=============================================================================
