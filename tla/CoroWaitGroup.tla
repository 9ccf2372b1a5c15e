--------------------------- MODULE CoroWaitGroup ---------------------------
(***************************************************************************)
(* coro.WaitGroup of stdlib/coro.cxy: a counter of unfinished tasks and a  *)
(* list of coroutines that wait for it to reach zero.  wpc[c]:             *)
(*   "out"     in none of the methods                                      *)
(*   "enq"     in wait, loaded a count other than zero                     *)
(*   "susp"    pushed on _waiters, about to suspend                        *)
(*   "parked"  inside suspend                                              *)
(*   "drain"   in done, its fetchSub took the count to zero                *)
(*   "wake"    in done, resuming toWake[c] one by one                      *)
(*   "signal"  in resumeAndWake, pushed, no aeWakeup yet                   *)
(* sawZero[c] is a history variable: the count was zero at some moment     *)
(* since c's wait began.                                                   *)
(***************************************************************************)
EXTENDS CoroThreads, Integers

CONSTANT MaxCount  \* bound on the count: how many tasks add may announce
ASSUME MaxCountAssumption == MaxCount \in Nat \ {0}

VARIABLES count,      \* WaitGroup._count
          wgWaiters,  \* WaitGroup._waiters
          wpc,        \* where each coroutine is
          toWake,     \* toWake[c]: the local list of c's done
          sawZero     \* history, see above

wgVars == <<count, wgWaiters, wpc, toWake, sawZero>>
vars == <<running, ready, pending, tpc, wakefd, live,
          count, wgWaiters, wpc, toWake, sawZero>>

Init ==
  /\ ThreadInit
  /\ count = 0
  /\ wgWaiters = <<>>
  /\ wpc = [c \in Coroutines |-> "out"]
  /\ toWake = [c \in Coroutines |-> <<>>]
  /\ sawZero = [c \in Coroutines |-> FALSE]

\* c executes the step at `from' and goes on to `to'.
At(c, from, to) == /\ Executing(c)
                   /\ wpc[c] = from
                   /\ wpc' = [wpc EXCEPT ![c] = to]

InWait(c) == wpc[c] \in {"enq", "susp", "parked"}

-----------------------------------------------------------------------------
(* add and done                                                            *)

\* add(n)
Add(c) == /\ Executing(c)
          /\ wpc[c] = "out"
          /\ \E n \in 1..(MaxCount - count) : count' = count + n
          /\ UNCHANGED <<threadVars, wgWaiters, wpc, toWake, sawZero>>

\* done: fetchSub(1).  Only the call that takes the count from one to zero
\* goes on to the waiters.  A task calls done once for each unit add announced.
MDone(c) ==
  /\ count > 0
  /\ At(c, "out", "drain")
  /\ count' = count - 1
  /\ sawZero' = [d \in Coroutines |-> sawZero[d] \/ (count = 1 /\ InWait(d))]
  /\ UNCHANGED <<threadVars, wgWaiters, toWake>>
MDoneAtZero(c) ==
  /\ count > 0
  /\ At(c, "out", IF count = 0 THEN "drain" ELSE "out")
  /\ count' = count - 1
  /\ sawZero' = [d \in Coroutines |-> sawZero[d] \/ (count = 1 /\ InWait(d))]
  /\ UNCHANGED <<threadVars, wgWaiters, toWake>>
Done(c) ==
  /\ count > 0
  /\ At(c, "out", IF count = 1 THEN "drain" ELSE "out")
  /\ count' = count - 1
  /\ sawZero' = [d \in Coroutines |-> sawZero[d] \/ (count = 1 /\ InWait(d))]
  /\ UNCHANGED <<threadVars, wgWaiters, toWake>>

\* Under the OS mutex all waiters move to the local list.
DoneDrain(c) ==
  /\ At(c, "drain", IF wgWaiters = <<>> THEN "out" ELSE "wake")
  /\ toWake' = [toWake EXCEPT ![c] = wgWaiters]
  /\ wgWaiters' = <<>>
  /\ UNCHANGED <<threadVars, count, sawZero>>

\* resumeWaiter(toWake.pop()), until the list is empty.
NextLabel(c) == IF Len(toWake[c]) = 1 THEN "out" ELSE "wake"
DoneWakesHere(c) ==
  /\ At(c, "wake", NextLabel(c))
  /\ ResumeHere(c, Head(toWake[c]))
  /\ toWake' = [toWake EXCEPT ![c] = Tail(@)]
  /\ UNCHANGED <<count, wgWaiters, sawZero>>
DoneWakesThere(c) ==
  /\ At(c, "wake", "signal")
  /\ ResumeThere(c, Head(toWake[c]))
  /\ UNCHANGED <<count, wgWaiters, toWake, sawZero>>
MDoneSignals(c) ==
  /\ At(c, "signal", NextLabel(c))
  /\ toWake' = [toWake EXCEPT ![c] = Tail(@)]
  /\ UNCHANGED <<threadVars, count, wgWaiters, sawZero>>
DoneSignals(c) ==
  /\ At(c, "signal", NextLabel(c))
  /\ WakeThere(Head(toWake[c]))
  /\ toWake' = [toWake EXCEPT ![c] = Tail(@)]
  /\ UNCHANGED <<count, wgWaiters, sawZero>>

-----------------------------------------------------------------------------
(* wait                                                                    *)

\* The load finds tasks.  (A wait that loads zero returns and changes nothing.)
WaitBlocks(c) ==
  /\ count # 0
  /\ At(c, "out", "enq")
  /\ UNCHANGED <<threadVars, count, wgWaiters, toWake, sawZero>>

WaitEnqueue(c) ==
  /\ At(c, "enq", "susp")
  /\ wgWaiters' = Append(wgWaiters, c)
  /\ UNCHANGED <<threadVars, count, toWake, sawZero>>

WaitSuspend(c) ==
  /\ At(c, "susp", "parked")
  /\ Suspend(home[c])
  /\ UNCHANGED <<running, ready, pending, wakefd, live,
                 count, wgWaiters, toWake, sawZero>>

\* suspend returns and wait with it, without looking at the count again.
WaitReturns(c) ==
  /\ At(c, "parked", "out")
  /\ sawZero' = [sawZero EXCEPT ![c] = FALSE]
  /\ UNCHANGED <<threadVars, count, wgWaiters, toWake>>

-----------------------------------------------------------------------------
WgStep(c) ==
  \/ Add(c) \/ Done(c) \/ DoneDrain(c)
  \/ DoneWakesHere(c) \/ DoneWakesThere(c) \/ DoneSignals(c)
  \/ WaitBlocks(c) \/ WaitEnqueue(c) \/ WaitSuspend(c) \/ WaitReturns(c)

UserStep(c) ==
  /\ wpc[c] = "out"
  /\ Yield(c) \/ Epilogue(c) \/ \E d \in Coroutines : Async(c, d)
  /\ UNCHANGED wgVars

ThreadStep(t) == (Dispatch(t) \/ PollWakeup(t)) /\ UNCHANGED wgVars

Next == \/ \E c \in Coroutines : WgStep(c) \/ UserStep(c)
        \/ \E t \in Threads : ThreadStep(t)

Spec == Init /\ [][Next]_vars

\* A thread always takes its next step, a coroutine inside a method too, and
\* one that runs eventually yields; nobody is obliged to call done.
Fairness ==
  /\ \A t \in Threads : WF_vars(ThreadStep(t))
  /\ \A c \in Coroutines :
       /\ WF_vars(wpc[c] # "out" /\ WgStep(c))
       /\ SF_vars(UserStep(c) /\ Suspend(home[c]))
FairSpec == Spec /\ Fairness

-----------------------------------------------------------------------------
(* Properties                                                              *)

\* A coroutine done has taken off the list does return from wait, on whatever
\* thread it sleeps.
WokenReturns ==
  \A c \in Coroutines :
    wpc[c] = "parked" /\ c \notin ToSet(wgWaiters) ~> wpc[c] = "out"
=============================================================================
