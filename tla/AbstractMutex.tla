--------------------------- MODULE AbstractMutex ---------------------------
(***************************************************************************)
(* What coro.Mutex promises its callers: one owner, and a queue of callers *)
(* served in the order in which they began to wait.  A caller waits only   *)
(* while there is an owner whose release will serve it, and a free lock is *)
(* never taken past a waiting caller.                                      *)
(***************************************************************************)
EXTENDS Naturals, Sequences, SequencesExt

CONSTANTS Coroutines, NULL
VARIABLES owner, queue

Init == owner = NULL /\ queue = <<>>

Acquire(c) == owner = NULL /\ queue = <<>> /\ owner' = c /\ UNCHANGED queue

Wait(c) == /\ owner \notin {NULL, c}
           /\ c \notin ToSet(queue)
           /\ queue' = Append(queue, c)
           /\ UNCHANGED owner

Release == /\ owner # NULL
           /\ \/ queue = <<>> /\ owner' = NULL /\ UNCHANGED queue
              \/ queue # <<>> /\ owner' = Head(queue) /\ queue' = Tail(queue)

Next == Release \/ \E c \in Coroutines : Acquire(c) \/ Wait(c)

Spec == Init /\ [][Next]_<<owner, queue>>
=============================================================================
