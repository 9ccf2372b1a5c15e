-------------------------- MODULE MCCoroSemaphore --------------------------
(* Two threads for TLC, one of them with a second coroutine.               *)
EXTENDS CoroSemaphoreHistory

CONSTANTS t1, t2, m1, m2, c1

TwoHome == m1 :> t1 @@ c1 :> t1 @@ m2 :> t2
TwoMain == t1 :> m1 @@ t2 :> m2
=============================================================================
