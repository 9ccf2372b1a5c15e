---------------------------- MODULE CoroCondVar ----------------------------
(***************************************************************************)
(* coro.ConditionVariable of stdlib/coro.cxy, used with one coro.Mutex.    *)
(* wait and waitTimeout call the mutex's own unlock and lock, so their     *)
(* steps are those of CoroMutex with cpc as the return address.  cpc[c]:   *)
(*   "idle"    not in a method of the condition variable                   *)
(*   "unlock"  pushed on _waiters, in mutex.unlock() or about to suspend   *)
(*   "parked"  inside suspend or timeout                                   *)
(*   "relock"  resumed, in mutex.lock()                                    *)
(*   "wake"    in notify or notifyAll, toWake[c] still to be resumed       *)
(*   "signal"  in resumeAndWake for the head of toWake[c], pushed, no      *)
(*             aeWakeup yet                                                *)
(* The timer of waitTimeout is a member of `timers' while it is armed; its *)
(* expiry is the environment's choice.                                     *)
(***************************************************************************)
EXTENDS CoroMutex

CONSTANT Timed  \* the subset of BOOLEAN of wait kinds the program uses
ASSUME TimedAssumption == Timed \subseteq BOOLEAN

VARIABLES cvWaiters,  \* ConditionVariable._waiters
          cpc,        \* where each coroutine is
          toWake,     \* toWake[c]: the waiters c's notify has popped
          timed,      \* timed[c]: c is in waitTimeout
          timers,     \* the coroutines whose timer is armed
          byTimer     \* those whose timeout(ms) ended by its timer: `timedOut'

cvVars == <<cvWaiters, cpc, toWake, timed, timers, byTimer>>
allVars == <<running, ready, pending, tpc, wakefd, live,
             locked, holder, waiters, osMutex, mpc, wakee,
             cvWaiters, cpc, toWake, timed, timers, byTimer>>

CvInit ==
  /\ Init
  /\ cvWaiters = <<>>
  /\ cpc = [c \in Coroutines |-> "idle"]
  /\ toWake = [c \in Coroutines |-> <<>>]
  /\ timed = [c \in Coroutines |-> FALSE]
  /\ timers = {}
  /\ byTimer = {}

CvGoto(c, label) == cpc' = [cpc EXCEPT ![c] = label]

-----------------------------------------------------------------------------
(* wait and waitTimeout                                                    *)

\* Push the running coroutine on _waiters; mutex.unlock() is called next.
Wait(c, withTimeout) ==
  /\ Executing(c)
  /\ mpc[c] = "in" /\ cpc[c] = "idle"
  /\ cvWaiters' = Append(cvWaiters, c)
  /\ timed' = [timed EXCEPT ![c] = withTimeout]
  /\ CvGoto(c, "unlock")
  /\ UNCHANGED <<threadVars, mutexVars, toWake, timers, byTimer>>

\* unlock returned: suspend, or timeout(ms), which arms a timer first.
CvSuspend(c) ==
  /\ Executing(c)
  /\ mpc[c] = "out" /\ cpc[c] = "unlock"
  /\ timers' = IF timed[c] THEN timers \union {c} ELSE timers
  /\ Suspend(home[c])
  /\ CvGoto(c, "parked")
  /\ UNCHANGED <<running, ready, pending, wakefd, live, mutexVars,
                 cvWaiters, toWake, timed, byTimer>>

\* suspend returned; timeout deletes its time event.  mutex.lock() is next.
MCvResumed(c) ==
  /\ Executing(c)
  /\ cpc[c] = "parked"
  /\ timers' = timers \ {c}
  /\ byTimer' = byTimer \ {c}
  /\ CvGoto(c, "relock")
  /\ UNCHANGED <<threadVars, mutexVars, cvWaiters, toWake, timed>>
CvResumed(c) ==
  /\ Executing(c)
  /\ cpc[c] = "parked"
  /\ timers' = timers \ {c}
  /\ CvGoto(c, "relock")
  /\ UNCHANGED <<threadVars, mutexVars, cvWaiters, toWake, timed, byTimer>>

\* lock returned, and wait with it.
CvReturns(c) ==
  /\ Executing(c)
  /\ mpc[c] = "in" /\ cpc[c] = "relock"
  /\ timed' = [timed EXCEPT ![c] = FALSE]
  /\ CvGoto(c, "idle")
  /\ UNCHANGED <<threadVars, mutexVars, cvWaiters, toWake, timers, byTimer>>

\* A time event of t expires: eventLoopTimerFired resumes its coroutine.  The
\* loop looks at timers when it has nothing ready and, every 103 switches,
\* on the way into suspend's loop.
TimerFires(t, c) ==
  /\ c \in timers /\ home[c] = t
  /\ tpc[t] \in {"poll", "sched"}
  /\ timers' = timers \ {c}
  /\ byTimer' = byTimer \union {c}
  /\ Resume(c)
  /\ tpc' = [tpc EXCEPT ![t] = "sched"]
  /\ UNCHANGED <<running, pending, wakefd, live, mutexVars,
                 cvWaiters, cpc, toWake, timed>>

-----------------------------------------------------------------------------
(* notify and notifyAll: callable with or without the mutex                *)

MayNotify(c) == Executing(c) /\ mpc[c] \in {"in", "out"} /\ cpc[c] = "idle"

\* Pop the oldest waiter under the OS mutex.  (With none, nothing happens.)
Notify(c) ==
  /\ MayNotify(c)
  /\ cvWaiters # <<>>
  /\ toWake' = [toWake EXCEPT ![c] = <<Head(cvWaiters)>>]
  /\ cvWaiters' = Tail(cvWaiters)
  /\ CvGoto(c, "wake")
  /\ UNCHANGED <<threadVars, mutexVars, timed, timers, byTimer>>

\* Move all waiters to a local list under the OS mutex.
NotifyAll(c) ==
  /\ MayNotify(c)
  /\ cvWaiters # <<>>
  /\ toWake' = [toWake EXCEPT ![c] = cvWaiters]
  /\ cvWaiters' = <<>>
  /\ CvGoto(c, "wake")
  /\ UNCHANGED <<threadVars, mutexVars, timed, timers, byTimer>>

PopToWake(c) == /\ toWake' = [toWake EXCEPT ![c] = Tail(@)]
                /\ CvGoto(c, IF Len(toWake[c]) = 1 THEN "idle" ELSE "wake")

MWakeHere(c) ==
  /\ Executing(c)
  /\ cpc[c] = "wake"
  /\ ResumeHere(c, Head(toWake[c]))
  /\ byTimer' = byTimer \ {Head(toWake[c])}
  /\ CvGoto(c, IF Len(toWake[c]) = 1 THEN "idle" ELSE "wake")
  /\ UNCHANGED <<mutexVars, cvWaiters, toWake, timed, timers>>
WakeHere(c) ==
  /\ Executing(c)
  /\ cpc[c] = "wake"
  /\ ResumeHere(c, Head(toWake[c]))
  /\ byTimer' = byTimer \ {Head(toWake[c])}
  /\ PopToWake(c)
  /\ UNCHANGED <<mutexVars, cvWaiters, timed, timers>>

CvPushThere(c) ==
  /\ Executing(c)
  /\ cpc[c] = "wake"
  /\ ResumeThere(c, Head(toWake[c]))
  /\ byTimer' = byTimer \ {Head(toWake[c])}
  /\ CvGoto(c, "signal")
  /\ UNCHANGED <<mutexVars, cvWaiters, toWake, timed, timers>>

MCvSignal(c) ==
  /\ Executing(c)
  /\ cpc[c] = "signal"
  /\ PopToWake(c)
  /\ UNCHANGED <<threadVars, mutexVars, cvWaiters, timed, timers, byTimer>>
CvSignal(c) ==
  /\ Executing(c)
  /\ cpc[c] = "signal"
  /\ WakeThere(Head(toWake[c]))
  /\ PopToWake(c)
  /\ UNCHANGED <<mutexVars, cvWaiters, timed, timers, byTimer>>

-----------------------------------------------------------------------------
(* Next-state relation                                                     *)

\* The steps of the mutex's methods, called by the program or by wait.
CvMutexStep(c) ==
  /\ mpc[c] = "out" => cpc[c] \in {"idle", "relock"}
  /\ mpc[c] = "in" => cpc[c] \in {"idle", "unlock"}
  /\ mpc[c] = "parked" => cpc[c] \in {"idle", "relock"}
  /\ MutexStep(c)
  /\ UNCHANGED cvVars

CvUserStep(c) == cpc[c] = "idle" /\ UserStep(c) /\ UNCHANGED cvVars

CvStep(c) ==
  \/ \E b \in Timed : Wait(c, b)
  \/ CvSuspend(c) \/ CvResumed(c) \/ CvReturns(c)
  \/ Notify(c) \/ NotifyAll(c)
  \/ WakeHere(c) \/ CvPushThere(c) \/ CvSignal(c)

CvThreadStep(t) == ThreadStep(t) /\ UNCHANGED cvVars
CvTimerStep(t) == \E c \in Coroutines : TimerFires(t, c)

CvNext == \/ \E c \in Coroutines : CvMutexStep(c) \/ CvUserStep(c) \/ CvStep(c)
          \/ \E t \in Threads : CvThreadStep(t) \/ CvTimerStep(t)

\* What c's notify has popped and not yet pushed, and all such coroutines.
ToWake(c) == IF cpc[c] = "signal" THEN Tail(toWake[c]) ELSE toWake[c]
CvPopped == UNION {ToSet(ToWake(c)) : c \in Coroutines}

\* Any number of threads, waits and notifications.
CvSpec == CvInit /\ [][CvNext]_allVars

\* Sequences model intrusive lists exactly while a coroutine that is in two
\* lists is alone in both, and a Coroutine is only meaningful while it has a
\* stack; ExactSpec, for the run that has stale waiters, stops before that.
AllLists ==
  {waiters, cvWaiters} \union {ToWake(c) : c \in Coroutines}
  \union {ready[t] : t \in Threads} \union {pending[t] : t \in Threads}
ListsExact ==
  /\ \A l \in AllLists : IsInjective(l) /\ ToSet(l) \ {NULL} \subseteq live
  /\ \A l, m \in AllLists :
       l # m /\ ToSet(l) \intersect ToSet(m) # {} => Len(l) = 1 /\ Len(m) = 1
ExactSpec == CvInit /\ [][CvNext /\ ListsExact']_allVars

\* A wait that times out leaves its entry in _waiters, and Coroutine.link has
\* one place only: if another waiter is linked behind it, resume pushes it on
\* ready with the rest of _waiters in tow (the assertion in List.push); if a
\* notify has popped it, it is resumed twice; and whatever uses _waiters later
\* meets the entry of a coroutine that is in another list by then.  QuietSpec
\* has the programs and the timings without these cases, and assumes nothing
\* else: a timer expires only for the one waiter in the list, and once a wait
\* has timed out the condition variable is not used any more.
SoleExpiry == \A c \in byTimer' \ byTimer : cvWaiters = <<c>>
UnusedAfterTimeout == byTimer # {} => cvWaiters' = cvWaiters
QuietSpec == CvInit /\ [][CvNext /\ SoleExpiry /\ UnusedAfterTimeout]_allVars

-----------------------------------------------------------------------------
(* Properties                                                              *)

\* The entries of _waiters whose coroutine still waits; a wait that timed out
\* leaves its entry behind.
Waiting == {c \in ToSet(cvWaiters) :
              cpc[c] \in {"unlock", "parked"} /\ c \notin byTimer}

\* A coroutine that waits is in at most one of the condition's, the mutex's
\* and the schedulers' lists, and so is one that notify or notifyAll hands from
\* list to list ("Single Queue Membership Invariant").
CvSingleQueueMembership ==
  /\ SingleQueueMembership
  /\ IsInjective(cvWaiters)
  /\ Waiting \intersect CvPopped = {}
  /\ \A c, d \in Coroutines :
       c # d => ToSet(ToWake(c)) \intersect ToSet(ToWake(d)) = {}
  /\ \A c \in Waiting \union CvPopped :
       /\ c \notin ToSet(waiters) \union Popped
       /\ c \notin ToSet(ready[home[c]]) \union ToSet(pending[home[c]])

\* wait returns only after a notify popped its caller, and waitTimeout "returns
\* true if notified, false if timeout": whoever is past suspend and still in
\* _waiters was resumed by its timer.
TrueMeansNotified ==
  \A c \in ToSet(cvWaiters) : cpc[c] \in {"unlock", "parked"} \/ c \in byTimer

\* A thread asleep with work in its pending list is about to be woken by the
\* unlock, notify or notifyAll that pushed the work.
CvSleeperIsSignalled ==
  \A t \in Threads :
    tpc[t] = "poll" /\ pending[t] # <<>> =>
      \/ wakefd[t]
      \/ \E c \in Coroutines :
           \/ mpc[c] = "signal" /\ home[wakee[c]] = t
           \/ cpc[c] = "signal" /\ home[Head(toWake[c])] = t

=============================================================================
