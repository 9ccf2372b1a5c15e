--------------------------- MODULE CoroScheduler ---------------------------
(***************************************************************************)
(* One CoroutineScheduler of stdlib/coro.cxy and its event loop (ae.c):    *)
(* the ready list, the switch counter that makes suspend poll while        *)
(* coroutines are ready, time events, file events with and without a       *)
(* timeout, and the cache of stacks.                                       *)
(*                                                                         *)
(* Scheduling is cooperative and nothing here is seen by another thread,   *)
(* so a step is what the code does between two points at which the         *)
(* environment can act.  spc:                                              *)
(*   "run"    the coroutine `running' executes user code                   *)
(*   "enter"  at suspend's test of the counter                             *)
(*   "loop"   in suspend's loop; blocked in epoll if nothing is ready      *)
(*                                                                         *)
(* A Coroutine lives at the top of its stack, so a coroutine and its stack *)
(* have one name.  A time event is named by its coroutine, the timer       *)
(* inside a file event by its fd.  A file event is waited for in one       *)
(* direction by one coroutine at a time; reading and writing differ only   *)
(* in the mask.  A time event marked AE_DELETED_EVENT_ID counts as gone.   *)
(***************************************************************************)
EXTENDS Naturals, FiniteSets, Sequences, SequencesExt, Lists

CONSTANTS Coroutines,   \* stacks, main's included
          main,         \* the coroutine that is not launched
          Fds,          \* file descriptors
          NULL,
          Ops,          \* what the program calls: "suspend", "sleep", ...
          SwitchLimit,  \* 103 in suspend
          MaxStacks     \* MAX_CACHED_STACKS

ASSUME SchedulerAssumption ==
  /\ main \in Coroutines
  /\ Coroutines \intersect Fds = {}
  /\ IsFiniteSet(Fds)
  /\ NULL \notin Coroutines \union Fds
  /\ Ops \subseteq {"suspend", "sleep", "timeout", "fdWait", "resume"}
  /\ SwitchLimit \in Nat \ {0}
  /\ MaxStacks \in Nat \ {0}

VARIABLES running,  \* CoroutineScheduler.running
          ready,    \* CoroutineScheduler.ready
          counter,  \* CoroutineScheduler.counter
          spc,      \* where the thread is
          op,       \* op[c]: the blocking call c is in, or "user"
          onFd,     \* onFd[c]: the fd c's fdWait is about
          result,   \* Coroutine.result
          timers,   \* aeEventLoop.timeEventHead, newest first
          expired,  \* the timers whose time has come
          event,    \* event[f]: clientData of a registered file event
          fdReady,  \* the fds the kernel would report
          live,     \* the coroutines that have not returned
          mapped,   \* the stacks mmap'ed and not yet munmap'ed
          stacks    \* CoroutineScheduler.stacks

vars == <<running, ready, counter, spc, op, onFd, result, timers, expired,
          event, fdReady, live, mapped, stacks>>
loopVars == <<timers, expired, event, fdReady>>
stackVars == <<live, mapped, stacks>>

Init ==
  /\ running = main
  /\ ready = <<>>
  /\ counter = 0
  /\ spc = "run"
  /\ op = [c \in Coroutines |-> "user"]
  /\ onFd = [c \in Coroutines |-> NULL]
  /\ result = [c \in Coroutines |-> "none"]
  /\ timers = <<>>
  /\ expired = {}
  /\ event = [f \in Fds |-> NULL]
  /\ fdReady = {}
  /\ live = {main}
  /\ mapped = {main}
  /\ stacks = <<>>

Executing(c) == spc = "run" /\ running = c

-----------------------------------------------------------------------------
(* What the running coroutine may call                                     *)

\* resume(cr, res)
Resume(c) == /\ ready' = Append(ready, c)
             /\ result' = [result EXCEPT ![c] = "none"]

\* aeAddTimeEvent puts the new timer at the head of the list.
AeAddTimeEvent(e) == timers' = <<e>> \o timers

\* The caller blocks in `call' and enters suspend.
Block(c, call) == /\ Executing(c)
                  /\ call \in Ops
                  /\ op' = [op EXCEPT ![c] = call]
                  /\ spc' = "enter"

\* yld()
Yield(c) == /\ Executing(c)
            /\ Resume(c)
            /\ spc' = "enter"
            /\ UNCHANGED <<running, counter, op, onFd, loopVars, stackVars>>

\* suspend(), or timeout(0): somebody else is to call resume.
Suspend(c) == /\ Block(c, "suspend")
              /\ UNCHANGED <<running, ready, counter, onFd, result, loopVars,
                             stackVars>>

\* sleep(ms) and timeout(ms) with ms > 0: aeCreateTimeEvent, then suspend.
AeCreateTimeEvent(c) == AeAddTimeEvent(c)
TimedBlock(c, call) ==
  /\ Block(c, call)
  /\ AeCreateTimeEvent(c)
  /\ UNCHANGED <<running, ready, counter, onFd, result, expired, event,
                 fdReady, stackVars>>
Sleep(c) == TimedBlock(c, "sleep")
Timeout(c) == TimedBlock(c, "timeout")

\* aeCreateFileEvent: register f for c, with the timer inside the event.
AeCreateFileEvent(c, f, withTimeout) ==
  /\ event' = [event EXCEPT ![f] = c]
  /\ IF withTimeout THEN AeAddTimeEvent(f) ELSE UNCHANGED timers

\* fdWaitRead and fdWaitWrite: aeCreateFileEvent, then suspend.  (The table of
\* the loop has room for f; otherwise the call fails and nothing changes.)
FdWait(c, f, withTimeout) ==
  /\ Block(c, "fdWait")
  /\ \A d \in Coroutines : onFd[d] # f
  /\ onFd' = [onFd EXCEPT ![c] = f]
  /\ AeCreateFileEvent(c, f, withTimeout)
  /\ UNCHANGED <<running, ready, counter, result, expired, fdReady, stackVars>>

\* resume(d, 0) of a coroutine that waits to be resumed.
ResumeOther(c, d) ==
  /\ Executing(c)
  /\ "resume" \in Ops
  /\ op[d] \in {"suspend", "timeout"}
  /\ d \notin ToSet(ready)
  /\ Resume(d)
  /\ UNCHANGED <<running, counter, spc, op, onFd, loopVars, stackVars>>

\* The caller reads or writes until the kernel has no more to report.
UseFd(c, f) ==
  /\ Executing(c)
  /\ f \in fdReady
  /\ event[f] = NULL
  /\ fdReady' = fdReady \ {f}
  /\ UNCHANGED <<running, ready, counter, spc, op, onFd, result, timers,
                 expired, event, stackVars>>

\* allocStack returns the oldest stack in the cache, or a new one.
AllocStack(d) ==
  \/ stacks # <<>> /\ d = Head(stacks) /\ stacks' = Tail(stacks) /\ UNCHANGED mapped
  \/ stacks = <<>> /\ d \notin mapped /\ mapped' = mapped \union {d} /\ UNCHANGED stacks

\* async: prologue queues the caller and runs d on the stack it allocates.
Async(c, d) ==
  /\ Executing(c)
  /\ AllocStack(d)
  /\ live' = live \union {d}
  /\ Resume(c)
  /\ running' = d
  /\ UNCHANGED <<counter, spc, op, onFd, loopVars>>

\* freeStack caches the stack.  At the limit it unmaps the oldest cached
\* stack instead and keeps no record of this one.
MFreeStackUnmaps(c) ==
  /\ stacks' = Append(stacks, c)
  /\ mapped' = IF Len(stacks) >= MaxStacks THEN mapped \ {c} ELSE mapped
FreeStack(c) ==
  \/ /\ Len(stacks) >= MaxStacks
     /\ stacks # <<>>
     /\ stacks' = Tail(stacks)
     /\ mapped' = mapped \ {Head(stacks)}
  \/ /\ Len(stacks) < MaxStacks
     /\ stacks' = Append(stacks, c)
     /\ UNCHANGED mapped

\* epilogue: the coroutine's function returned.
Epilogue(c) ==
  /\ Executing(c)
  /\ c # main
  /\ running' = NULL
  /\ live' = live \ {c}
  /\ FreeStack(c)
  /\ spc' = "enter"
  /\ UNCHANGED <<ready, counter, op, onFd, result, loopVars>>

-----------------------------------------------------------------------------
(* The event loop                                                          *)

\* The file events epoll_wait would report: registered and ready.
Reported == {f \in Fds : event[f] # NULL /\ f \in fdReady}

\* The timers left when the file events have been processed: the timer of an
\* event that fired is removed from the list.
MUnfired == timers
Unfired == Only(timers, ToSet(timers) \ Reported)

\* What processTimeEvents finds due, in the order of the list, and whom it
\* resumes for it: eventLoopTimerFired the coroutine of a time event,
\* aeFileEventTimeout the one of a file event.
Due == Only(Unfired, expired)
TimedOut == [i \in DOMAIN Due |-> IF Due[i] \in Fds THEN event[Due[i]] ELSE Due[i]]

\* aeProcessEvents: file events first, in whatever order epoll reports them;
\* eventLoopCallback resumes their coroutines and they stay registered.  Then
\* the time events: one that is due leaves the list, and a file event that is
\* due is deleted and resumed with AE_TIMEOUT.
AeProcessEvents ==
  \E fired \in SetToSeqs(Reported) :
    LET Served == [i \in DOMAIN fired |-> event[fired[i]]]
    IN  /\ ready' = ready \o Served \o TimedOut
        /\ result' = [c \in Coroutines |->
                        CASE c \in ToSet(Due) -> "timer"
                          [] c \in ToSet(TimedOut) \ ToSet(Due) -> "AE_TIMEOUT"
                          [] c \in ToSet(Served) \ ToSet(TimedOut) -> "event"
                          [] OTHER -> result[c]]
        /\ timers' = Only(Unfired, ToSet(Unfired) \ expired)
        /\ event' = [f \in Fds |-> IF f \in ToSet(Due) THEN NULL ELSE event[f]]
        /\ expired' = {}

\* suspend with a low counter goes straight to its loop.
MEnterLoop ==
  /\ spc = "enter"
  /\ spc' = "loop"
  /\ counter' = 0
  /\ UNCHANGED <<running, ready, op, onFd, result, loopVars, stackVars>>
EnterLoop ==
  /\ spc = "enter"
  /\ counter < SwitchLimit
  /\ spc' = "loop"
  /\ UNCHANGED <<running, ready, counter, op, onFd, result, loopVars, stackVars>>

\* After SwitchLimit switches it first calls eventLoopWait(0).
MEnterPolls ==
  /\ spc = "enter"
  /\ counter + 1 >= SwitchLimit
  /\ AeProcessEvents
  /\ counter' = 0
  /\ spc' = "loop"
  /\ UNCHANGED <<running, op, onFd, fdReady, stackVars>>
EnterPolls ==
  /\ spc = "enter"
  /\ counter >= SwitchLimit
  /\ AeProcessEvents
  /\ counter' = 0
  /\ spc' = "loop"
  /\ UNCHANGED <<running, op, onFd, fdReady, stackVars>>

\* Nothing is ready: eventLoopWait() sleeps until there is an event.
PollBlocks ==
  /\ spc = "loop"
  /\ ready = <<>>
  /\ Reported # {} \/ expired # {}
  /\ AeProcessEvents
  /\ counter' = 0
  /\ UNCHANGED <<running, spc, op, onFd, fdReady, stackVars>>

\* aeDeleteFileEvent and aeDeleteTimeEvent.
MAeDeleteFileEvent(f) == UNCHANGED event
AeDeleteFileEvent(f) == event' = [g \in Fds |-> IF g = f THEN NULL ELSE event[g]]
AeDeleteTimeEvent(c) == /\ timers' = Only(timers, ToSet(timers) \ {c})
                        /\ expired' = expired \ {c}

\* The head of ready runs, first the rest of the call it was blocked in:
\* fdWait deletes its file event, timeout its time event, and the result is
\* handed to the caller.
Dispatch ==
  LET c == Head(ready)
  IN  /\ spc = "loop"
      /\ ready # <<>>
      /\ ready' = Tail(ready)
      /\ counter' = counter + 1
      /\ running' = c
      /\ spc' = "run"
      /\ AeDeleteFileEvent(onFd[c])
      /\ AeDeleteTimeEvent(c)
      /\ op' = [op EXCEPT ![c] = "user"]
      /\ onFd' = [onFd EXCEPT ![c] = NULL]
      /\ result' = [result EXCEPT ![c] = "none"]
      /\ UNCHANGED <<fdReady, stackVars>>

-----------------------------------------------------------------------------
(* The environment                                                         *)

\* The kernel has something for f.
Arrive(f) ==
  /\ f \notin fdReady
  /\ fdReady' = fdReady \union {f}
  /\ UNCHANGED <<running, ready, counter, spc, op, onFd, result, timers,
                 expired, event, stackVars>>

\* A timer's time comes.
Expire(e) ==
  /\ e \in ToSet(timers) \ expired
  /\ expired' = expired \union {e}
  /\ UNCHANGED <<running, ready, counter, spc, op, onFd, result, timers,
                 event, fdReady, stackVars>>

-----------------------------------------------------------------------------
UserStep(c) ==
  \/ Yield(c) \/ Suspend(c) \/ Sleep(c) \/ Timeout(c) \/ Epilogue(c)
  \/ \E f \in Fds : UseFd(c, f) \/ \E b \in BOOLEAN : FdWait(c, f, b)
  \/ \E d \in Coroutines : ResumeOther(c, d) \/ Async(c, d)
LoopStep == EnterLoop \/ EnterPolls \/ PollBlocks \/ Dispatch

Next == \/ \E c \in Coroutines : UserStep(c)
        \/ LoopStep
        \/ \E f \in Fds : Arrive(f)
        \/ \E e \in Coroutines \union Fds : Expire(e)

Spec == Init /\ [][Next]_vars

\* The thread always takes its next step, the running coroutine eventually
\* gives it up (scheduling is cooperative), and time passes.
Fairness ==
  /\ WF_vars(LoopStep)
  /\ WF_vars(\E c \in Coroutines : UserStep(c) /\ spc' = "enter")
  /\ \A e \in Coroutines \union Fds : WF_vars(Expire(e))
FairSpec == Spec /\ Fairness

\* Nothing keeps the timer of timeout(ms) from firing once somebody resumed its
\* caller: eventLoopTimerFired then pushes a coroutine that is in ready.  The
\* quiet specification leaves out the steps into that race, and only those.
Quiet == ToSet(ready) \intersect expired = {}
QuietSpec == Init /\ [][Next /\ Quiet']_vars /\ Fairness

-----------------------------------------------------------------------------
(* Properties                                                              *)

\* No coroutine is pushed on ready while it is in it or runs: the assertion
\* `item.link == null' of List.push never fails and the list is never cyclic.
ReadyOnce ==
  /\ IsInjective(ready)
  /\ spc = "run" => running \notin ToSet(ready)

\* No event outlives its caller: what the event loop would resume is a
\* coroutine that has not returned and is blocked in the call that registered
\* the event, never a stack in the cache or one that was given out again.
NoDanglingEvent ==
  /\ \A f \in Fds : event[f] # NULL =>
       event[f] \in live /\ op[event[f]] = "fdWait" /\ onFd[event[f]] = f
  /\ \A e \in ToSet(timers) :
       IF e \in Fds THEN event[e] # NULL
                    ELSE e \in live /\ op[e] \in {"sleep", "timeout"}

\* What a blocking call will return is what happened, and nothing is left that
\* could resume its caller again: after AE_TIMEOUT the file event is no longer
\* registered, after an event its timer is no longer in the list, and a sleep
\* ends by its own timer.
VerdictMatches ==
  \A c \in ToSet(ready) :
    /\ op[c] = "sleep" => result[c] = "timer" /\ c \notin ToSet(timers)
    /\ op[c] = "fdWait" =>
         /\ onFd[c] \notin ToSet(timers)
         /\ \/ result[c] = "event" /\ event[onFd[c]] = c
            \/ result[c] = "AE_TIMEOUT" /\ event[onFd[c]] = NULL

\* The stack a coroutine executes on, or will, is mapped and not in the cache.
StackSafe ==
  \A c \in live \union ToSet(ready) :
    c \in live /\ c \in mapped /\ c \notin ToSet(stacks)

\* The counter keeps busy coroutines from starving the event loop: even if
\* some coroutine is always ready, an fd that is ready while it is waited for
\* is served, and a sleeper whose time has come runs.
FdServed ==
  \A f \in Fds : event[f] # NULL /\ f \in fdReady ~> event[f] = NULL
SleeperWakes ==
  \A c \in Coroutines : op[c] \in {"sleep", "timeout"} ~> op[c] = "user"
=============================================================================
