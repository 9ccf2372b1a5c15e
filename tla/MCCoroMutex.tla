---------------------------- MODULE MCCoroMutex ----------------------------
(***************************************************************************)
(* Two threads for TLC, one with its main coroutine and a launched one,    *)
(* the other with its main coroutine.                                      *)
(***************************************************************************)
EXTENDS CoroMutex

CONSTANTS t1, t2, m1, m2, c1

TwoHome == m1 :> t1 @@ c1 :> t1 @@ m2 :> t2
TwoMain == t1 :> m1 @@ t2 :> m2
=============================================================================
