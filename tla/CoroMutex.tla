----------------------------- MODULE CoroMutex -----------------------------
(***************************************************************************)
(* coro.Mutex of stdlib/coro.cxy: a lock whose waiters are coroutines of   *)
(* any thread.  An atomic flag is the lock, an OS mutex protects the FIFO  *)
(* list of waiters, and unlock hands the lock to the oldest waiter without *)
(* clearing the flag.                                                      *)
(*                                                                         *)
(* mpc[c] is where c is in lock, tryLock or unlock:                        *)
(*   "out"     not in the mutex, the lock is not c's                       *)
(*   "hold"    compareAndSwap succeeded, _holder not yet written           *)
(*   "enq"     compareAndSwap failed, about to take the OS mutex           *)
(*   "susp"    pushed on _waiters, about to call suspend                   *)
(*   "parked"  inside suspend                                              *)
(*   "in"      lock returned (or tryLock returned true)                    *)
(*   "clear"   in unlock, flag cleared, OS mutex held, _holder to be reset *)
(*   "resume"  in unlock, waiter popped, about to resume it                *)
(*   "signal"  in resumeAndWake, waiter pushed on pending, no aeWakeup yet *)
(***************************************************************************)
EXTENDS CoroThreads

VARIABLES locked,   \* Mutex._locked
          holder,   \* Mutex._holder
          waiters,  \* Mutex._waiters
          osMutex,  \* the coroutine whose thread holds Mutex._osMutex
          mpc,      \* where each coroutine is
          wakee     \* wakee[c]: the local `waiter' of c's unlock

mutexVars == <<locked, holder, waiters, osMutex, mpc, wakee>>
vars == <<running, ready, pending, tpc, wakefd, live,
          locked, holder, waiters, osMutex, mpc, wakee>>

MutexPC == {"out", "hold", "enq", "susp", "parked", "in", "clear", "resume",
            "signal"}

MutexTypeOK ==
  /\ locked \in BOOLEAN
  /\ holder \in Coroutines \union {NULL}
  /\ waiters \in Seq(Coroutines)
  /\ osMutex \in Coroutines \union {NULL}
  /\ mpc \in [Coroutines -> MutexPC]
  /\ wakee \in [Coroutines -> Coroutines \union {NULL}]

\* Every variable of the schedulers and of the mutex has its type.
TypeOK == ThreadTypeOK /\ MutexTypeOK

MutexInit ==
  /\ locked = FALSE
  /\ holder = NULL
  /\ waiters = <<>>
  /\ osMutex = NULL
  /\ mpc = [c \in Coroutines |-> "out"]
  /\ wakee = [c \in Coroutines |-> NULL]

Init == ThreadInit /\ MutexInit

Goto(c, label) == mpc' = [mpc EXCEPT ![c] = label]

-----------------------------------------------------------------------------
(* lock and tryLock                                                        *)

\* compareAndSwap(false, true) of lock or tryLock succeeds.
MAcquireCAS(c) ==
  /\ Executing(c)
  /\ mpc[c] = "out"
  /\ locked' = TRUE
  /\ Goto(c, "hold")
  /\ UNCHANGED <<threadVars, holder, waiters, osMutex, wakee>>
AcquireCAS(c) ==
  /\ Executing(c)
  /\ mpc[c] = "out"
  /\ ~locked
  /\ locked' = TRUE
  /\ Goto(c, "hold")
  /\ UNCHANGED <<threadVars, holder, waiters, osMutex, wakee>>

\* _holder = running(), and lock or tryLock returns.
SetHolder(c) ==
  /\ Executing(c)
  /\ mpc[c] = "hold"
  /\ holder' = c
  /\ Goto(c, "in")
  /\ UNCHANGED <<threadVars, locked, waiters, osMutex, wakee>>

\* compareAndSwap of lock fails.  (That of tryLock changes nothing.)
LockCASFails(c) ==
  /\ Executing(c)
  /\ mpc[c] = "out"
  /\ locked
  /\ Goto(c, "enq")
  /\ UNCHANGED <<threadVars, locked, holder, waiters, osMutex, wakee>>

\* lock pushes the running coroutine on _waiters under the OS mutex.
MLockEnqueue(c) ==
  /\ Executing(c)
  /\ mpc[c] = "enq"
  /\ osMutex = NULL
  /\ waiters' = <<c>> \o waiters
  /\ Goto(c, "susp")
  /\ UNCHANGED <<threadVars, locked, holder, osMutex, wakee>>
LockEnqueue(c) ==
  /\ Executing(c)
  /\ mpc[c] = "enq"
  /\ osMutex = NULL
  /\ waiters' = Append(waiters, c)
  /\ Goto(c, "susp")
  /\ UNCHANGED <<threadVars, locked, holder, osMutex, wakee>>

\* lock calls suspend.
LockSuspend(c) ==
  /\ Executing(c)
  /\ mpc[c] = "susp"
  /\ Suspend(home[c])
  /\ Goto(c, "parked")
  /\ UNCHANGED <<running, ready, pending, wakefd, live,
                 locked, holder, waiters, osMutex, wakee>>

\* suspend returns, and lock with it: the caller takes the lock for granted.
LockReturns(c) ==
  /\ Executing(c)
  /\ mpc[c] = "parked"
  /\ Goto(c, "in")
  /\ UNCHANGED <<threadVars, locked, holder, waiters, osMutex, wakee>>

-----------------------------------------------------------------------------
(* unlock                                                                  *)

\* No waiter: the flag is cleared while the OS mutex is held.
UnlockFree(c) ==
  /\ Executing(c)
  /\ mpc[c] = "in"
  /\ osMutex = NULL
  /\ waiters = <<>>
  /\ locked' = FALSE
  /\ osMutex' = c
  /\ Goto(c, "clear")
  /\ UNCHANGED <<threadVars, holder, waiters, wakee>>

\* _holder = null, then the OS mutex is released and unlock returns.
ClearHolder(c) ==
  /\ Executing(c)
  /\ mpc[c] = "clear"
  /\ holder' = NULL
  /\ osMutex' = NULL
  /\ Goto(c, "out")
  /\ UNCHANGED <<threadVars, locked, waiters, wakee>>

\* A waiter: it becomes the holder and the flag stays set.
UnlockHandoff(c) ==
  /\ Executing(c)
  /\ mpc[c] = "in"
  /\ osMutex = NULL
  /\ waiters # <<>>
  /\ wakee' = [wakee EXCEPT ![c] = Head(waiters)]
  /\ holder' = Head(waiters)
  /\ waiters' = Tail(waiters)
  /\ Goto(c, "resume")
  /\ UNCHANGED <<threadVars, locked, osMutex>>

\* The waiter belongs to this scheduler: direct resume.
ResumeLocal(c) ==
  /\ Executing(c)
  /\ mpc[c] = "resume"
  /\ home[wakee[c]] = home[c]
  /\ Resume(wakee[c])
  /\ wakee' = [wakee EXCEPT ![c] = NULL]
  /\ Goto(c, "out")
  /\ UNCHANGED <<running, pending, tpc, wakefd, live,
                 locked, holder, waiters, osMutex>>

\* The waiter belongs to another scheduler: resumeAndWake.
ResumeRemote(c) ==
  /\ Executing(c)
  /\ mpc[c] = "resume"
  /\ home[wakee[c]] # home[c]
  /\ PushPending(wakee[c])
  /\ Goto(c, "signal")
  /\ UNCHANGED <<running, ready, tpc, wakefd, live,
                 locked, holder, waiters, osMutex, wakee>>

\* ... which ends with aeWakeup on the waiter's event loop.
MSignal(c) ==
  /\ Executing(c)
  /\ mpc[c] = "signal"
  /\ wakee' = [wakee EXCEPT ![c] = NULL]
  /\ Goto(c, "out")
  /\ UNCHANGED <<threadVars, locked, holder, waiters, osMutex>>
Signal(c) ==
  /\ Executing(c)
  /\ mpc[c] = "signal"
  /\ AeWakeup(home[wakee[c]])
  /\ wakee' = [wakee EXCEPT ![c] = NULL]
  /\ Goto(c, "out")
  /\ UNCHANGED <<running, ready, pending, tpc, live,
                 locked, holder, waiters, osMutex>>

-----------------------------------------------------------------------------
(* Next-state relation                                                     *)

\* The steps inside lock, tryLock and unlock.
MutexStep(c) ==
  \/ AcquireCAS(c) \/ SetHolder(c) \/ LockCASFails(c) \/ LockEnqueue(c)
  \/ LockSuspend(c) \/ LockReturns(c)
  \/ UnlockFree(c) \/ ClearHolder(c) \/ UnlockHandoff(c)
  \/ ResumeLocal(c) \/ ResumeRemote(c) \/ Signal(c)

\* What a coroutine does outside the mutex's methods, holding the lock or not.
UserStep(c) ==
  /\ \/ mpc[c] \in {"out", "in"} /\ Yield(c)
     \/ mpc[c] \in {"out", "in"} /\ \E d \in Coroutines : Async(c, d)
     \/ mpc[c] = "out" /\ Epilogue(c)
  /\ UNCHANGED mutexVars

ThreadStep(t) == (Dispatch(t) \/ PollWakeup(t)) /\ UNCHANGED mutexVars

Next == \/ \E c \in Coroutines : MutexStep(c) \/ UserStep(c)
        \/ \E t \in Threads : ThreadStep(t)

Spec == Init /\ [][Next]_vars

\* A thread always takes its next step, and gets an OS mutex that is free
\* again and again; a coroutine that holds the lock eventually unlocks it, and
\* one that runs eventually yields the thread (scheduling is cooperative).
InMutex(c) == mpc[c] \notin {"out", "in"}
Fairness ==
  /\ \A t \in Threads : WF_vars(ThreadStep(t))
  /\ \A c \in Coroutines :
       /\ SF_vars(InMutex(c) /\ MutexStep(c))
       /\ SF_vars(UnlockFree(c) \/ UnlockHandoff(c))
       /\ SF_vars(UserStep(c) /\ Suspend(home[c]))

FairSpec == Spec /\ Fairness

\* The behaviours without the race of NoLostWakeup: no unlock finds _waiters
\* empty while a call of lock is between its failed compareAndSwap and its push.
RacelessNext ==
  /\ Next
  /\ ~ \E c, d \in Coroutines : mpc[d] = "enq" /\ UnlockFree(c)
RacelessSpec == Init /\ [][RacelessNext]_vars /\ Fairness

-----------------------------------------------------------------------------
(* Properties                                                              *)

\* The lock is c's: c won the compareAndSwap, or unlock popped it from the
\* waiters and lock is about to return in it.
Owns(c) == \/ mpc[c] \in {"hold", "in"}
           \/ mpc[c] \in {"susp", "parked"} /\ c \notin ToSet(waiters)

\* The lock has at most one owner, handoffs in flight included, and a clear
\* flag means it has none: no interleaving of lock, tryLock and unlock on any
\* threads lets two coroutines into the critical section.
MutualExclusion ==
  /\ \A c, d \in Coroutines : Owns(c) /\ Owns(d) => c = d
  /\ \A c \in Coroutines : Owns(c) => locked

\* A coroutine is in at most one of the lists that share Coroutine.link, and
\* at most once, the waiter an unlock has popped and not yet pushed included:
\* List.push's assertion never fails and no list is corrupted
\* (thread-sync-design.md, "Single Queue Membership Invariant").
Popped == {wakee[c] : c \in {d \in Coroutines : mpc[d] = "resume"}}
SingleQueueMembership ==
  /\ IsInjective(waiters)
  /\ Popped \intersect ToSet(waiters) = {}
  /\ \A t \in Threads :
       /\ IsInjective(ready[t])
       /\ IsInjective(pending[t])
       /\ ToSet(ready[t]) \intersect ToSet(pending[t]) = {}
       /\ \A c \in ToSet(ready[t]) \union ToSet(pending[t]) :
            home[c] = t /\ c \notin ToSet(waiters) \union Popped

\* What makes the two invariants above inductive: only a coroutine in lock's
\* slow path is waiting or popped; one that executes is in no scheduler list,
\* unless an unlock on another thread found it on its way to suspend, and
\* returns from lock only when it no longer waits; a waiter is handed over by
\* one unlock at a time; a coroutine without a stack is nowhere.
WaitersWait ==
  \A c \in ToSet(waiters) \union Popped : mpc[c] \in {"susp", "parked"}
ExecutingIsUnlinked ==
  \A c \in Coroutines : Executing(c) =>
    /\ c \notin ToSet(ready[home[c]])
    /\ mpc[c] # "susp" => c \notin ToSet(pending[home[c]]) \union Popped
    /\ mpc[c] = "parked" => c \notin ToSet(waiters)
OneHandoffPerWaiter ==
  /\ \A c \in Coroutines : mpc[c] \in {"resume", "signal"} => wakee[c] # NULL
  /\ \A c, d \in Coroutines :
       mpc[c] = "resume" /\ mpc[d] = "resume" /\ wakee[c] = wakee[d] => c = d
DeadAreUnlinked ==
  \A c \in Coroutines \ live :
    /\ mpc[c] = "out" /\ ~Executing(c)
    /\ \A t \in Threads : c \notin ToSet(ready[t]) \union ToSet(pending[t])
MutexInv == /\ TypeOK /\ MutualExclusion /\ SingleQueueMembership
            /\ WaitersWait /\ ExecutingIsUnlinked
            /\ OneHandoffPerWaiter /\ DeadAreUnlinked

\* A thread asleep in epoll with work in its pending list is about to be
\* woken: its wakeup fd is readable or the unlock that pushed the coroutine
\* has not reached aeWakeup yet.
SleeperIsSignalled ==
  \A t \in Threads :
    tpc[t] = "poll" /\ pending[t] # <<>> =>
      \/ wakefd[t]
      \/ \E c \in Coroutines : mpc[c] = "signal" /\ home[wakee[c]] = t

\* The coroutine unlock hands the lock to does return from lock, also when it
\* sleeps on another thread or was popped before it reached suspend.
HandoffArrives ==
  \A c \in Coroutines :
    mpc[c] \in {"susp", "parked"} /\ c \notin ToSet(waiters) ~> mpc[c] = "in"

\* Whoever calls lock gets it (thread-sync-design.md, "Starvation
\* prevention" and "verify no lost wakeups").
NoLostWakeup == \A c \in Coroutines : mpc[c] = "enq" ~> mpc[c] = "in"

\* The mutex implements AbstractMutex: owner and FIFO queue.
Owner == IF \E c \in Coroutines : Owns(c)
         THEN CHOOSE c \in Coroutines : Owns(c)
         ELSE NULL
Abstract == INSTANCE AbstractMutex WITH owner <- Owner, queue <- waiters
ImplementsAbstract == Abstract!Spec
=============================================================================
