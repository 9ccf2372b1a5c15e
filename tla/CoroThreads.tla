---------------------------- MODULE CoroThreads ----------------------------
(***************************************************************************)
(* The coroutine schedulers of stdlib/coro.cxy as other threads see them.  *)
(* Every OS thread owns one CoroutineScheduler: a FIFO list `ready' only   *)
(* that thread touches, a list `pending' other threads push to under       *)
(* pendingMtx, and an event loop that sleeps in epoll until its wakeup fd  *)
(* is readable.  Coroutines never migrate: Coroutine.scheduler is written  *)
(* once, by prologue.                                                      *)
(*                                                                         *)
(* A sequence stands for an intrusive List[Coroutine].  That is exact as   *)
(* long as a coroutine is in at most one list, since all lists share the   *)
(* field Coroutine.link; the modules that add lists check that they keep   *)
(* it so (SingleQueueMembership).                                          *)
(*                                                                         *)
(* One step is at most one access to state another thread can see.  The    *)
(* fast path of processPending reads pending without the lock: a stale     *)
(* "empty" answer is the interleaving in which Dispatch precedes the push. *)
(*                                                                         *)
(* In this and the other modules MOp, MOpX, ... defined before Op are      *)
(* forms of Op with a plausible bug; nothing uses them except the mutation *)
(* tests of the properties.                                                *)
(***************************************************************************)
EXTENDS Naturals, Sequences, SequencesExt

CONSTANTS Threads,     \* OS threads that run coroutines
          Coroutines,  \* the Coroutine objects, one per stack slot
          home,        \* home[c]: the thread whose scheduler c points to
          main,        \* main[t]: the coroutine of t that is never launched
          NULL

ASSUME HomeAssumption == home \in [Coroutines -> Threads]
ASSUME MainAssumption == /\ main \in [Threads -> Coroutines]
                         /\ \A t \in Threads : home[main[t]] = t
ASSUME NullAssumption == NULL \notin Coroutines

VARIABLES running,  \* running[t]: CoroutineScheduler.running
          ready,    \* ready[t]: CoroutineScheduler.ready
          pending,  \* pending[t]: CoroutineScheduler.pending
          tpc,      \* tpc[t]: in user code, in suspend's loop, or in epoll
          wakefd,   \* wakefd[t]: the eventfd of t's event loop is readable
          live      \* the coroutines that have a stack

threadVars == <<running, ready, pending, tpc, wakefd, live>>

ThreadTypeOK ==
  /\ running \in [Threads -> Coroutines \union {NULL}]
  /\ ready \in [Threads -> Seq(Coroutines)]
  /\ pending \in [Threads -> Seq(Coroutines)]
  /\ tpc \in [Threads -> {"run", "sched", "poll"}]
  /\ wakefd \in [Threads -> BOOLEAN]
  /\ live \in SUBSET Coroutines

ThreadInit ==
  /\ running = main
  /\ ready = [t \in Threads |-> <<>>]
  /\ pending = [t \in Threads |-> <<>>]
  /\ tpc = [t \in Threads |-> "run"]
  /\ wakefd = [t \in Threads |-> FALSE]
  /\ live = {main[t] : t \in Threads}

\* c is the code its thread is executing now.
Executing(c) == tpc[home[c]] = "run" /\ running[home[c]] = c

-----------------------------------------------------------------------------
(* Pieces of the scheduler's methods that callers combine.                 *)

\* suspend() up to its loop: `running' keeps pointing at the caller.
Suspend(t) == tpc' = [tpc EXCEPT ![t] = "sched"]

\* resume(cr, res): push on the ready list of cr's own scheduler.
Resume(c) == ready' = [ready EXCEPT ![home[c]] = Append(@, c)]

\* resumeAndWake(cr, res) up to aeWakeup: push on pending under pendingMtx.
PushPending(c) == pending' = [pending EXCEPT ![home[c]] = Append(@, c)]

\* aeWakeup(loop): the eventfd of t becomes readable.
AeWakeup(t) == wakefd' = [wakefd EXCEPT ![t] = TRUE]

\* The event mask of the wakeup fd once aeCreateEventLoop returns: the
\* constructor registers wakeupCallback for AE_READABLE and then resets the
\* mask of every slot of the table to AE_NONE, the wakeup slot included.
WakeupMask == {}

\* resumeWaiter(waiter), called by c: a waiter of c's own scheduler is resumed
\* directly ...
ResumeHere(c, waiter) ==
  /\ home[waiter] = home[c]
  /\ Resume(waiter)
  /\ UNCHANGED <<running, pending, tpc, wakefd, live>>

\* ... and one of another scheduler by resumeAndWake, which pushes it on
\* pending and, in a step of its own, writes the eventfd.
ResumeThere(c, waiter) ==
  /\ home[waiter] # home[c]
  /\ PushPending(waiter)
  /\ UNCHANGED <<running, ready, tpc, wakefd, live>>
WakeThere(waiter) ==
  /\ AeWakeup(home[waiter])
  /\ UNCHANGED <<running, ready, pending, tpc, live>>

-----------------------------------------------------------------------------
(* Actions of a thread.                                                    *)

\* processPending moves what other threads pushed to the end of ready.
ProcessPending(t) == ready[t] \o pending[t]

\* One turn of suspend's loop: processPending, and the head of ready runs;
\* with nothing ready the loop enters aeProcessEvents.
Dispatch(t) ==
  LET queue == ProcessPending(t)
  IN  /\ tpc[t] = "sched"
      /\ pending' = [pending EXCEPT ![t] = <<>>]
      /\ \/ /\ queue = <<>>
            /\ tpc' = [tpc EXCEPT ![t] = "poll"]
            /\ UNCHANGED <<running, ready>>
         \/ /\ queue # <<>>
            /\ running' = [running EXCEPT ![t] = Head(queue)]
            /\ ready' = [ready EXCEPT ![t] = Tail(queue)]
            /\ tpc' = [tpc EXCEPT ![t] = "run"]
      /\ UNCHANGED <<wakefd, live>>

\* epoll returns because the wakeup fd is readable.  aeProcessEvents calls
\* wakeupCallback, which drains the fd, only if the slot's mask asks for it.
PollWakeup(t) ==
  /\ tpc[t] = "poll"
  /\ wakefd[t]
  /\ tpc' = [tpc EXCEPT ![t] = "sched"]
  /\ wakefd' = [wakefd EXCEPT ![t] = "AE_READABLE" \notin WakeupMask]
  /\ UNCHANGED <<running, ready, pending, live>>

-----------------------------------------------------------------------------
(* Actions of the coroutine a thread executes.                             *)

\* yld()
MYield(c) ==
  /\ Executing(c)
  /\ ready' = [ready EXCEPT ![home[c]] = <<c>> \o @]
  /\ Suspend(home[c])
  /\ UNCHANGED <<running, pending, wakefd, live>>
Yield(c) ==
  /\ Executing(c)
  /\ Resume(c)
  /\ Suspend(home[c])
  /\ UNCHANGED <<running, pending, wakefd, live>>

\* async: prologue takes a stack for d, queues the caller and runs d at once.
Async(c, d) ==
  /\ Executing(c)
  /\ d \notin live
  /\ home[d] = home[c]
  /\ Resume(c)
  /\ running' = [running EXCEPT ![home[c]] = d]
  /\ live' = live \union {d}
  /\ UNCHANGED <<pending, tpc, wakefd>>

\* epilogue: c's function returned, its stack goes back to the scheduler.
MEpilogueRuns(c) ==
  /\ Executing(c)
  /\ c \notin {main[t] : t \in Threads}
  /\ live' = live \ {c}
  /\ UNCHANGED <<running, ready, pending, tpc, wakefd>>
Epilogue(c) ==
  /\ Executing(c)
  /\ c \notin {main[t] : t \in Threads}
  /\ running' = [running EXCEPT ![home[c]] = NULL]
  /\ live' = live \ {c}
  /\ Suspend(home[c])
  /\ UNCHANGED <<ready, pending, wakefd>>
=============================================================================
