--------------------------- MODULE CoroSemaphore ---------------------------
(***************************************************************************)
(* coro.Semaphore of stdlib/coro.cxy.  spc[c]:                             *)
(*   "out"     holds no permit, in no method                               *)
(*   "load"    at acquire's `while (_count.load() <= 0)'                   *)
(*   "enq"     saw no permit, about to push on _waiters                    *)
(*   "susp"    pushed, about to suspend         "parked"  inside suspend   *)
(*   "sub"     saw a permit, about to fetchSub                             *)
(*   "cas"     in tryAcquire, seen[c] loaded                               *)
(*   "held"    holds a permit                                              *)
(*   "pop"     in release, count already raised                            *)
(*   "wake"    in release, popped[c] to be resumed                         *)
(*   "signal"  in resumeAndWake, pushed, no aeWakeup yet                   *)
(***************************************************************************)
EXTENDS CoroThreads, Integers

CONSTANT Permits  \* the initial count
ASSUME PermitsAssumption == Permits \in Nat
ASSUME ThreadsAssumption == IsFiniteSet(Threads) /\ Threads # {}

VARIABLES count,       \* Semaphore._count
          semWaiters,  \* Semaphore._waiters
          spc,         \* where each coroutine is
          seen,        \* seen[c]: the local `current' of tryAcquire
          popped       \* popped[c]: the local `waiter' of release

semVars == <<count, semWaiters, spc, seen, popped>>
vars == <<running, ready, pending, tpc, wakefd, live,
          count, semWaiters, spc, seen, popped>>

Init ==
  /\ ThreadInit
  /\ count = Permits
  /\ semWaiters = <<>>
  /\ spc = [c \in Coroutines |-> "out"]
  /\ seen = [c \in Coroutines |-> 0]
  /\ popped = [c \in Coroutines |-> NULL]

\* c executes the step at `from' and goes on to `to'.
At(c, from, to) == /\ Executing(c)
                   /\ spc[c] \in from
                   /\ spc' = [spc EXCEPT ![c] = to]

-----------------------------------------------------------------------------
(* acquire: the loop loads the count, then fetchSub takes the permit       *)

AcquireSees(c) == /\ count > 0
                  /\ At(c, {"out", "load"}, "sub")
                  /\ UNCHANGED <<threadVars, count, semWaiters, seen, popped>>

AcquireBlocks(c) == /\ count <= 0
                    /\ At(c, {"out", "load"}, "enq")
                    /\ UNCHANGED <<threadVars, count, semWaiters, seen, popped>>

AcquireEnqueue(c) == /\ At(c, {"enq"}, "susp")
                     /\ semWaiters' = Append(semWaiters, c)
                     /\ UNCHANGED <<threadVars, count, seen, popped>>

AcquireSuspend(c) == /\ At(c, {"susp"}, "parked")
                     /\ Suspend(home[c])
                     /\ UNCHANGED <<running, ready, pending, wakefd, live,
                                    count, semWaiters, seen, popped>>

\* suspend returned: the loop tests the count again.
MAcquireResumed(c) == /\ At(c, {"parked"}, "sub")
                      /\ UNCHANGED <<threadVars, count, semWaiters, seen, popped>>
AcquireResumed(c) == /\ At(c, {"parked"}, "load")
                     /\ UNCHANGED <<threadVars, count, semWaiters, seen, popped>>

AcquireTakes(c) == /\ At(c, {"sub"}, "held")
                   /\ count' = count - 1
                   /\ UNCHANGED <<threadVars, semWaiters, seen, popped>>

-----------------------------------------------------------------------------
(* tryAcquire: load, then compareAndSwap(current, current - 1)             *)

TryLoad(c) == /\ count > 0
              /\ At(c, {"out"}, "cas")
              /\ seen' = [seen EXCEPT ![c] = count]
              /\ UNCHANGED <<threadVars, count, semWaiters, popped>>

MTryTakes(c) == /\ At(c, {"cas"}, "held")
                /\ count' = seen[c] - 1
                /\ seen' = [seen EXCEPT ![c] = 0]
                /\ UNCHANGED <<threadVars, semWaiters, popped>>
TryTakes(c) == /\ count = seen[c]
               /\ At(c, {"cas"}, "held")
               /\ count' = seen[c] - 1
               /\ seen' = [seen EXCEPT ![c] = 0]
               /\ UNCHANGED <<threadVars, semWaiters, popped>>

TryFails(c) == /\ count # seen[c]
               /\ At(c, {"cas"}, "out")
               /\ seen' = [seen EXCEPT ![c] = 0]
               /\ UNCHANGED <<threadVars, count, semWaiters, popped>>

-----------------------------------------------------------------------------
(* release: fetchAdd, pop one waiter under the OS mutex, resume it         *)

Release(c) == /\ At(c, {"held"}, "pop")
              /\ count' = count + 1
              /\ UNCHANGED <<threadVars, semWaiters, seen, popped>>

MReleaseNoWaiter(c) == /\ semWaiters = <<>> \/ count > 0
                       /\ At(c, {"pop"}, "out")
                       /\ UNCHANGED <<threadVars, count, semWaiters, seen, popped>>
ReleaseNoWaiter(c) == /\ semWaiters = <<>>
                      /\ At(c, {"pop"}, "out")
                      /\ UNCHANGED <<threadVars, count, semWaiters, seen, popped>>

ReleasePop(c) == /\ semWaiters # <<>>
                 /\ At(c, {"pop"}, "wake")
                 /\ popped' = [popped EXCEPT ![c] = Head(semWaiters)]
                 /\ semWaiters' = Tail(semWaiters)
                 /\ UNCHANGED <<threadVars, count, seen>>

ReleaseHere(c) == /\ At(c, {"wake"}, "out")
                  /\ ResumeHere(c, popped[c])
                  /\ popped' = [popped EXCEPT ![c] = NULL]
                  /\ UNCHANGED <<count, semWaiters, seen>>

ReleaseThere(c) == /\ At(c, {"wake"}, "signal")
                   /\ ResumeThere(c, popped[c])
                   /\ UNCHANGED <<count, semWaiters, seen, popped>>

ReleaseSignal(c) == /\ At(c, {"signal"}, "out")
                    /\ WakeThere(popped[c])
                    /\ popped' = [popped EXCEPT ![c] = NULL]
                    /\ UNCHANGED <<count, semWaiters, seen>>

-----------------------------------------------------------------------------
SemStep(c) ==
  \/ AcquireSees(c) \/ AcquireBlocks(c) \/ AcquireEnqueue(c)
  \/ AcquireSuspend(c) \/ AcquireResumed(c) \/ AcquireTakes(c)
  \/ TryLoad(c) \/ TryTakes(c) \/ TryFails(c)
  \/ Release(c) \/ ReleaseNoWaiter(c) \/ ReleasePop(c)
  \/ ReleaseHere(c) \/ ReleaseThere(c) \/ ReleaseSignal(c)

UserStep(c) ==
  /\ \/ spc[c] \in {"out", "held"} /\ Yield(c)
     \/ spc[c] \in {"out", "held"} /\ \E d \in Coroutines : Async(c, d)
     \/ spc[c] = "out" /\ Epilogue(c)
  /\ UNCHANGED semVars

ThreadStep(t) == (Dispatch(t) \/ PollWakeup(t)) /\ UNCHANGED semVars

Next == \/ \E c \in Coroutines : SemStep(c) \/ UserStep(c)
        \/ \E t \in Threads : ThreadStep(t)

Spec == Init /\ [][Next]_vars

\* A thread always takes its next step, a coroutine inside a method too; one
\* that holds a permit eventually releases it, and one that runs eventually
\* yields.
Fairness ==
  /\ \A t \in Threads : WF_vars(ThreadStep(t))
  /\ \A c \in Coroutines :
       /\ WF_vars(spc[c] \notin {"out", "held"} /\ SemStep(c))
       /\ SF_vars(Release(c))
       /\ SF_vars(UserStep(c) /\ Suspend(home[c]))
FairSpec == Spec /\ Fairness

-----------------------------------------------------------------------------
(* Properties                                                              *)

Holders == {c \in Coroutines : spc[c] = "held"}

\* Permits are neither lost nor invented by the load, fetchSub, fetchAdd and
\* compareAndSwap of acquire, tryAcquire and release, on any threads.
PermitsConserved == count + Cardinality(Holders) = Permits

\* acquire "blocks if count is 0", up to one race: its load and its fetchSub are
\* two operations, so every other thread may take a permit in between, but a
\* coroutine that has seen a permit cannot be interrupted on its own thread.
\* With one thread the count is never negative.
OverdraftBounded == count >= 1 - Cardinality(Threads)

\* The coroutines a free permit may be meant for: popped by release and not yet
\* back in acquire's loop, past the test, or about to pop a waiter.
Owed == {c \in Coroutines :
           \/ spc[c] \in {"susp", "parked"} /\ c \notin ToSet(semWaiters)
           \/ spc[c] \in {"load", "sub", "pop"}}
=============================================================================
