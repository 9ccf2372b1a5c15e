---------------------------- MODULE CoroChannel ----------------------------
(***************************************************************************)
(* coro.Channel of stdlib/coro.cxy: a bounded buffer between coroutines of *)
(* one thread.  A sender that finds the buffer full leaves itself in _in,  *)
(* a receiver that finds it empty in _out, and each waits with timeout(dd) *)
(* until the other side calls resume.  There is one slot per side.         *)
(*                                                                         *)
(* Messages carry no data here: the buffer is its size.  What a call does  *)
(* between two suspensions is one step.  chpc[c] is the call c is parked   *)
(* in, "send", "receive" or "sleep" (any other wait for the event loop),   *)
(* or "out".                                                               *)
(***************************************************************************)
EXTENDS CoroThreads

CONSTANTS Senders, Receivers,  \* the coroutines that use either end
          Capacity,            \* CircularBuffer._capacity
          Timed,               \* whether calls may pass dd > 0
          Sleepers             \* the coroutines that also sleep

ASSUME ChannelAssumption == /\ Senders \subseteq Coroutines
                            /\ Receivers \subseteq Coroutines
                            /\ Capacity \in Nat \ {0}
                            /\ Timed \in BOOLEAN
                            /\ Sleepers \subseteq Coroutines
                            /\ \A c, d \in Coroutines : home[c] = home[d]

VARIABLES size,     \* CircularBuffer._size
          in,       \* Channel._in
          out,      \* Channel._out
          chpc,     \* where each coroutine is
          timers,   \* the coroutines whose timeout has a time event
          byTimer,  \* those whose last resume was by that event
          dropped,  \* history: `_buffer.push(&&x) catch discard' discarded
          missed    \* history: `_buffer.pop() catch' returned null

chVars == <<size, in, out, chpc, timers, byTimer, dropped, missed>>
vars == <<running, ready, pending, tpc, wakefd, live,
          size, in, out, chpc, timers, byTimer, dropped, missed>>

Init ==
  /\ ThreadInit
  /\ size = 0
  /\ in = NULL
  /\ out = NULL
  /\ chpc = [c \in Coroutines |-> "out"]
  /\ timers = {}
  /\ byTimer = {}
  /\ dropped = FALSE
  /\ missed = FALSE

\* resume(waiter, 0), if there is one.
ResumeIfAny(waiter) ==
  IF waiter = NULL THEN UNCHANGED ready ELSE Resume(waiter)

\* timeout(dd): park the caller, with a time event if dd > 0.
Park(c, call, withTimeout) ==
  /\ chpc' = [chpc EXCEPT ![c] = call]
  /\ timers' = IF withTimeout THEN timers \union {c} ELSE timers
  /\ Suspend(home[c])
  /\ UNCHANGED <<running, ready, pending, wakefd, live, byTimer, size,
                 dropped, missed>>

\* timeout(dd) returns: its time event is deleted.
Unpark(c) ==
  /\ chpc' = [chpc EXCEPT ![c] = "out"]
  /\ timers' = timers \ {c}
  /\ byTimer' = byTimer \ {c}

-----------------------------------------------------------------------------
(* send                                                                    *)

\* The rest of send: push, or discard if there is no room, and resume _out.
Push ==
  /\ size' = IF size = Capacity THEN size ELSE size + 1
  /\ dropped' = (dropped \/ size = Capacity)
  /\ ResumeIfAny(out)
  /\ UNCHANGED <<running, pending, tpc, wakefd, live, missed>>

Send(c) == /\ Executing(c)
           /\ chpc[c] = "out"
           /\ size < Capacity
           /\ Push
           /\ UNCHANGED <<in, out, chpc, timers, byTimer>>

SendBlocks(c, withTimeout) == /\ Executing(c)
                              /\ chpc[c] = "out"
                              /\ size = Capacity
                              /\ in' = c
                              /\ Park(c, "send", withTimeout)
                              /\ UNCHANGED out

SendResumed(c) == /\ Executing(c)
                  /\ chpc[c] = "send"
                  /\ c \notin byTimer
                  /\ in' = NULL
                  /\ Unpark(c)
                  /\ Push
                  /\ UNCHANGED out

MSendTimesOut(c) == /\ Executing(c)
                    /\ chpc[c] = "send"
                    /\ c \in byTimer
                    /\ in' = NULL
                    /\ Unpark(c)
                    /\ Push
                    /\ UNCHANGED out
SendTimesOut(c) == /\ Executing(c)
                   /\ chpc[c] = "send"
                   /\ c \in byTimer
                   /\ in' = NULL
                   /\ Unpark(c)
                   /\ UNCHANGED <<threadVars, out, size, dropped, missed>>

-----------------------------------------------------------------------------
(* receive                                                                 *)

\* The rest of receive: resume `waiter', the sender found in _in, and pop.
Pop(waiter) ==
  /\ size' = IF size = 0 THEN 0 ELSE size - 1
  /\ missed' = (missed \/ size = 0)
  /\ ResumeIfAny(waiter)
  /\ UNCHANGED <<running, pending, tpc, wakefd, live, dropped>>

MReceive(c) == /\ Executing(c)
               /\ chpc[c] = "out"
               /\ size > 0
               /\ Pop(NULL)
               /\ UNCHANGED <<in, out, chpc, timers, byTimer>>
Receive(c) == /\ Executing(c)
              /\ chpc[c] = "out"
              /\ size > 0
              /\ Pop(in)
              /\ UNCHANGED <<in, out, chpc, timers, byTimer>>

ReceiveBlocks(c, withTimeout) == /\ Executing(c)
                                 /\ chpc[c] = "out"
                                 /\ size = 0
                                 /\ out' = c
                                 /\ Park(c, "receive", withTimeout)
                                 /\ UNCHANGED in

MReceiveResumed(c) == /\ Executing(c)
                      /\ chpc[c] = "receive"
                      /\ c \notin byTimer
                      /\ Unpark(c)
                      /\ Pop(in)
                      /\ UNCHANGED <<in, out>>
ReceiveResumed(c) == /\ Executing(c)
                     /\ chpc[c] = "receive"
                     /\ c \notin byTimer
                     /\ out' = NULL
                     /\ Unpark(c)
                     /\ Pop(in)
                     /\ UNCHANGED in

MReceiveTimesOut(c) == /\ Executing(c)
                       /\ chpc[c] = "receive"
                       /\ out' = NULL
                       /\ Unpark(c)
                       /\ Pop(in)
                       /\ UNCHANGED in
ReceiveTimesOut(c) == /\ Executing(c)
                      /\ chpc[c] = "receive"
                      /\ c \in byTimer
                      /\ out' = NULL
                      /\ Unpark(c)
                      /\ UNCHANGED <<threadVars, in, size, dropped, missed>>

-----------------------------------------------------------------------------
(* The event loop                                                          *)

\* A coroutine waits for the event loop outside the channel ...
Sleep(c) == /\ Executing(c)
            /\ chpc[c] = "out"
            /\ Park(c, "sleep", TRUE)
            /\ UNCHANGED <<in, out>>

\* ... and returns from that.
Awake(c) == /\ Executing(c)
            /\ chpc[c] = "sleep"
            /\ Unpark(c)
            /\ UNCHANGED <<threadVars, in, out, size, dropped, missed>>

\* The event loop resumes the coroutines whose time has come, one or more, in
\* the order of its list: when nothing is ready and, every 103 switches, on the
\* way into suspend's loop, with whatever is ready.  (The 103 are not counted:
\* that poll may happen whenever the thread is in suspend.)
PollTimers(t) ==
  /\ tpc[t] \in {"poll", "sched"}
  /\ \E due \in SUBSET timers \ {{}} : \E order \in SetToSeqs(due) :
       /\ timers' = timers \ due
       /\ byTimer' = byTimer \union due
       /\ ready' = [ready EXCEPT ![t] = @ \o order]
  /\ tpc' = [tpc EXCEPT ![t] = "sched"]
  /\ UNCHANGED <<running, pending, wakefd, live, size, in, out, chpc,
                 dropped, missed>>

-----------------------------------------------------------------------------
SenderStep(c) == \/ Send(c) \/ SendResumed(c) \/ SendTimesOut(c)
                 \/ \E b \in {FALSE, Timed} : SendBlocks(c, b)
ReceiverStep(c) == \/ Receive(c) \/ ReceiveResumed(c) \/ ReceiveTimesOut(c)
                   \/ \E b \in {FALSE, Timed} : ReceiveBlocks(c, b)

UserStep(c) ==
  /\ chpc[c] = "out"
  /\ Yield(c) \/ \E d \in Coroutines : Async(c, d)
  /\ UNCHANGED chVars
SleeperStep(c) == Sleep(c) \/ Awake(c)

ThreadStep(t) == Dispatch(t) /\ UNCHANGED chVars

Next == \/ \E c \in Senders : SenderStep(c)
        \/ \E c \in Receivers : ReceiverStep(c)
        \/ \E c \in Sleepers : SleeperStep(c)
        \/ \E c \in Coroutines : UserStep(c)
        \/ \E t \in Threads : ThreadStep(t) \/ PollTimers(t)

Spec == Init /\ [][Next]_vars

\* The thread takes its next step, and a coroutine that runs eventually uses
\* its end of the channel, and eventually yields.
Fairness ==
  /\ \A t \in Threads : WF_vars(ThreadStep(t))
  /\ \A c \in Senders : SF_vars(SenderStep(c))
  /\ \A c \in Receivers : SF_vars(ReceiverStep(c))
  /\ \A c \in Coroutines : SF_vars(UserStep(c) /\ Suspend(home[c]))
FairSpec == Spec /\ Fairness

\* The timings in which nobody runs between the expiry of a call's timeout and
\* the return of that call: it expires when nothing is ready, and is the first
\* in the list of that poll.  Otherwise the other end, or the timer after it,
\* resumes the call a second time.  Sleeps may end at any time.
TimeoutFirst ==
  \A c \in byTimer' \ byTimer :
    chpc[c] \in {"send", "receive"} =>
      ready[home[c]] = <<>> /\ Head(ready'[home[c]]) = c
\* Time passes, and the poll on the way into suspend is reached even if others
\* yield for ever: a sleep ends.
SleepEnds(c) == /\ chpc[c] = "sleep"
                /\ \E t \in Threads : PollTimers(t)
                /\ c \in byTimer' \ byTimer
QuietSpec ==
  /\ Init
  /\ [][Next /\ TimeoutFirst]_vars
  /\ Fairness
  /\ \A c \in Sleepers : SF_vars(SleepEnds(c) /\ TimeoutFirst)
  /\ \A c \in Sleepers : WF_vars(Awake(c))

\* The programs the channel's two slots and its buffer serve: one sender and
\* one receiver, and the capacity CircularBuffer.init really gives.
OneEach == /\ \A c, d \in Senders : c = d
           /\ \A c, d \in Receivers : c = d
           /\ Capacity = 1

-----------------------------------------------------------------------------
(* Properties                                                              *)

\* send: "We will get here if there is room"; no message is discarded.
RoomAfterWait == ~dropped

\* receive: "We should never get here"; a receiver that was resumed finds a
\* message.
DataAfterWait == ~missed

\* No coroutine is pushed on ready twice: List.push's assertion
\* `item.link == null' holds.
ReadyOnce == \A t \in Threads : /\ IsInjective(ready[t])
                                /\ tpc[t] = "run" => running[t] \notin ToSet(ready[t])

\* Once both ends exist they do not wait for each other: a parked sender gets
\* on because of the receiver, a parked receiver because of the sender.
BothEndsProgress ==
  \A c \in Senders \union Receivers :
    chpc[c] \in {"send", "receive"} /\ Senders \union Receivers \subseteq live
      ~> chpc[c] = "out"
=============================================================================
