------------------------- MODULE CoroChannelProofs -------------------------
(***************************************************************************)
(* Proofs about CoroChannel for one sender, one receiver and any other     *)
(* coroutines of their thread: no message is dropped, no receive comes     *)
(* back empty handed and nobody is pushed on ready twice, as long as       *)
(* nobody runs between the expiry of a call's timeout and the return of    *)
(* that call (TimeoutFirst); and without that restriction if no call has   *)
(* a timeout.                                                              *)
(***************************************************************************)
EXTENDS CoroChannel, QueueLemmas, FiniteSetTheorems

-----------------------------------------------------------------------------
(* The inductive invariant                                                 *)

Calls == {"out", "send", "receive", "sleep"}

ChTypeOK ==
  /\ ThreadTypeOK
  /\ size \in {0, 1}
  /\ in \in Coroutines \union {NULL}
  /\ out \in Coroutines \union {NULL}
  /\ chpc \in [Coroutines -> Calls]
  /\ timers \in SUBSET Coroutines
  /\ IsFiniteSet(timers)
  /\ byTimer \in SUBSET Coroutines

\* The thread runs a coroutine that is not in ready, sleeps only with nothing
\* ready, and knows no coroutine without a stack.
Scheduled ==
  /\ ReadyOnce
  /\ \A t \in Threads :
       /\ pending[t] = <<>>
       /\ tpc[t] = "poll" => ready[t] = <<>>
       /\ tpc[t] = "run" => running[t] \in live
       /\ ToSet(ready[t]) \subseteq live
  /\ \A c \in Coroutines \ live : chpc[c] = "out"

\* _in is the sender parked in send, _out the receiver parked in receive.
SlotsMatch ==
  /\ \A c \in Coroutines : chpc[c] = "send" <=> in = c
  /\ \A c \in Coroutines : chpc[c] = "receive" <=> out = c
  /\ in # NULL => in \in Senders
  /\ out # NULL => out \in Receivers

\* c runs or is about to.
Up(c) == Executing(c) \/ c \in ToSet(ready[home[c]])

\* A sender was resumed because the buffer is empty, a receiver because it is
\* full, unless its timer resumed it; who was not resumed waits rightly.
ResumedForACause ==
  /\ in # NULL /\ in \notin byTimer => (size = 0 <=> Up(in))
  /\ out # NULL /\ out \notin byTimer => (size = 1 <=> Up(out))

\* A call whose timeout expired runs before anybody else does.
TimedOutRunsNext ==
  \A c \in byTimer :
    /\ chpc[c] # "out"
    /\ chpc[c] \in {"send", "receive"} =>
         \/ Executing(c)
         \/ /\ tpc[home[c]] = "sched"
            /\ ready[home[c]] # <<>> /\ Head(ready[home[c]]) = c

\* A time event belongs to a call it has not resumed yet ...
TimersArmed == \A c \in timers : chpc[c] # "out" /\ c \notin byTimer

\* ... and nothing else resumes a sleep.
SleepsAreDown == \A c \in timers : chpc[c] = "sleep" => ~Up(c)

ChInv == /\ ChTypeOK /\ Scheduled /\ SlotsMatch /\ ResumedForACause
         /\ TimedOutRunsNext /\ TimersArmed /\ SleepsAreDown
         /\ RoomAfterWait /\ DataAfterWait

\* All coroutines of a channel are on one thread.
LEMMA OneThread ==
  ASSUME NEW t \in Threads
  PROVE  (\A u \in Threads : u = t) /\ \A c \in Coroutines : home[c] = t
  BY HomeAssumption, MainAssumption, ChannelAssumption

\* At first nobody uses the channel.
LEMMA ChInitially == Init => ChInv
<1> SUFFICES ASSUME Init PROVE ChInv
  OBVIOUS
<1> USE HomeAssumption, MainAssumption, NullAssumption DEF Init, ThreadInit
<1>1. ChTypeOK
  BY EmptyQueue, FS_EmptySet DEF ChTypeOK, ThreadTypeOK, Calls
<1>2. Scheduled
  BY EmptyQueue DEF Scheduled, ReadyOnce
<1>3. /\ SlotsMatch /\ ResumedForACause /\ TimedOutRunsNext
      /\ TimersArmed /\ SleepsAreDown
  BY DEF SlotsMatch, ResumedForACause, TimedOutRunsNext, TimersArmed,
         SleepsAreDown
<1> QED
  BY <1>1, <1>2, <1>3 DEF ChInv, RoomAfterWait, DataAfterWait

\* What the running coroutine knows: it is the only one up besides ready, no
\* other call has timed out.
LEMMA RunnerKnows ==
  ASSUME ChInv, NEW c \in Coroutines, Executing(c)
  PROVE  /\ home[c] \in Threads /\ c \in live
         /\ c \notin ToSet(ready[home[c]])
         /\ \A d \in Coroutines : home[d] = home[c]
         /\ \A u \in Threads : u = home[c]
         /\ \A d \in Coroutines : Executing(d) <=> d = c
         /\ \A d \in Coroutines :
              d # c /\ chpc[d] \in {"send", "receive"} => d \notin byTimer
<1>1. home[c] \in Threads
  BY HomeAssumption
<1>2. /\ \A d \in Coroutines : home[d] = home[c]
      /\ \A u \in Threads : u = home[c]
  BY <1>1, OneThread
<1>3. \A d \in Coroutines : Executing(d) <=> d = c
  BY <1>2 DEF Executing
<1>4. \A d \in Coroutines :
        d # c /\ chpc[d] \in {"send", "receive"} => d \notin byTimer
  BY <1>2, <1>3 DEF ChInv, TimedOutRunsNext, Executing
<1>5. c \in live /\ c \notin ToSet(ready[home[c]])
  BY <1>1 DEF ChInv, Scheduled, ReadyOnce, Executing
<1> QED
  BY <1>1, <1>2, <1>3, <1>4, <1>5

\* timeout(dd) arms and deletes one time event at a time.
LEMMA TimersStayFinite ==
  ASSUME ChTypeOK, NEW c \in Coroutines
  PROVE  /\ timers \union {c} \in SUBSET Coroutines
         /\ IsFiniteSet(timers \union {c})
         /\ timers \ {c} \in SUBSET Coroutines
         /\ IsFiniteSet(timers \ {c})
  BY FS_AddElement, FS_RemoveElement DEF ChTypeOK

\* Resuming the partner w of the running coroutine, if there is one: w is
\* parked and nobody resumed it yet.
LEMMA ResumePartner ==
  ASSUME ChInv, NEW c \in Coroutines, Executing(c),
         NEW w \in Coroutines \union {NULL}, ResumeIfAny(w),
         w # NULL => w \in live /\ ~Up(w),
         UNCHANGED <<running, pending, tpc, wakefd, live>>,
         \A d \in Coroutines \ live : chpc'[d] = "out"
  PROVE  /\ ThreadTypeOK' /\ Scheduled'
         /\ \A d \in Coroutines : Up(d)' <=> Up(d) \/ d = w
<1>1. /\ home[c] \in Threads
      /\ \A d \in Coroutines : home[d] = home[c]
      /\ \A u \in Threads : u = home[c]
      /\ \A d \in Coroutines : Executing(d) <=> d = c
      /\ c \notin ToSet(ready[home[c]])
  BY RunnerKnows
<1>2. PICK t : t = home[c]
  OBVIOUS
<1>3. ThreadTypeOK /\ Scheduled /\ tpc[t] = "run" /\ running[t] = c
  BY <1>2 DEF ChInv, ChTypeOK, Executing
<1>4. \A d \in Coroutines : Executing(d)' <=> Executing(d)
  BY DEF Executing
<1>5. CASE w = NULL
  <2>1. ready' = ready
    BY <1>5 DEF ResumeIfAny
  <2> QED
    BY <1>3, <1>4, <1>5, <2>1, NullAssumption
    DEF ThreadTypeOK, Scheduled, ReadyOnce, Up
<1>6. CASE w # NULL
  <2>1. /\ w \in Coroutines /\ w \in live /\ home[w] = t /\ w # c
        /\ w \notin ToSet(ready[t]) /\ t \in Threads
    BY <1>1, <1>2, <1>6 DEF Up
  <2>2. ready' = [ready EXCEPT ![t] = Append(ready[t], w)]
    BY <1>6, <2>1 DEF ResumeIfAny, Resume
  <2>3. ready[t] \in Seq(Coroutines) /\ IsInjective(ready[t])
    BY <1>3, <2>1 DEF ThreadTypeOK, Scheduled, ReadyOnce
  <2>4. /\ ready'[t] \in Seq(Coroutines) /\ IsInjective(ready'[t])
        /\ ToSet(ready'[t]) = ToSet(ready[t]) \union {w}
        /\ ready' \in [Threads -> Seq(Coroutines)]
    BY <1>3, <2>1, <2>2, <2>3, PushQueue DEF ThreadTypeOK
  <2>5. ThreadTypeOK'
    BY <1>3, <2>4 DEF ThreadTypeOK
  <2>6. \A d \in Coroutines : Up(d)' <=> Up(d) \/ d = w
    BY <1>1, <1>2, <1>4, <2>4 DEF Up
  <2>7. ReadyOnce'
    BY <1>1, <1>2, <1>3, <2>1, <2>4 DEF ReadyOnce
  <2>8. Scheduled'
    <3>1. ASSUME NEW u \in Threads
          PROVE  /\ pending'[u] = <<>>
                 /\ tpc'[u] = "poll" => ready'[u] = <<>>
                 /\ tpc'[u] = "run" => running'[u] \in live'
                 /\ ToSet(ready'[u]) \subseteq live'
      <4>1. u = t
        BY <1>1, <1>2
      <4> QED
        BY <1>3, <2>1, <2>4, <4>1 DEF Scheduled
    <3> QED
      BY <2>7, <3>1 DEF Scheduled
  <2> QED
    BY <2>5, <2>6, <2>8
<1> QED
  BY <1>5, <1>6

-----------------------------------------------------------------------------
\* send with room, or resumed into it: the buffer was empty, and the receiver
\* that waits for a message is resumed once.
LEMMA SendKeeps ==
  ASSUME OneEach, ChInv, NEW c \in Senders, Send(c) \/ SendResumed(c)
  PROVE  ChInv'
<1>1. c \in Coroutines /\ Executing(c) /\ chpc[c] \in {"out", "send"}
  BY ChannelAssumption DEF Send, SendResumed
<1>2. /\ c \in live /\ \A d \in Coroutines : Executing(d) <=> d = c
      /\ \A d \in Coroutines :
           d # c /\ chpc[d] \in {"send", "receive"} => d \notin byTimer
  BY <1>1, RunnerKnows
<1>3. /\ ChTypeOK /\ Scheduled /\ SlotsMatch /\ ResumedForACause
      /\ TimedOutRunsNext /\ TimersArmed /\ SleepsAreDown
      /\ RoomAfterWait /\ DataAfterWait
  BY DEF ChInv
<1>4. size = 0
  <2>1. CASE Send(c)
    BY <1>3, <2>1 DEF Send, OneEach, ChTypeOK
  <2>2. CASE SendResumed(c)
    <3>1. in = c /\ c \notin byTimer /\ Up(c) /\ c # NULL
      BY <1>1, <1>3, <2>2, NullAssumption DEF SendResumed, SlotsMatch, Up
    <3> QED
      BY <1>3, <3>1 DEF ResumedForACause
  <2> QED
    BY <2>1, <2>2
<1>5. /\ in' = NULL /\ UNCHANGED out /\ size' = 1 /\ ~dropped'
      /\ chpc' = [chpc EXCEPT ![c] = "out"]
      /\ timers' = timers \ {c} /\ byTimer' = byTimer \ {c}
      /\ ResumeIfAny(out)
      /\ UNCHANGED <<running, pending, tpc, wakefd, live>> /\ UNCHANGED missed
  <2>1. CASE Send(c)
    <3>1. in = NULL
      BY <1>1, <1>3, <2>1 DEF Send, SlotsMatch, OneEach
    <3>2. c \notin timers /\ c \notin byTimer
      BY <1>3, <2>1 DEF Send, TimedOutRunsNext, TimersArmed
    <3>3. chpc = [chpc EXCEPT ![c] = "out"]
      BY <1>1, <1>3, <2>1 DEF Send, ChTypeOK
    <3>4. /\ UNCHANGED <<in, out, chpc, timers, byTimer>> /\ Push
      BY <2>1 DEF Send
    <3>5. size # Capacity
      BY <1>4 DEF OneEach
    <3>6. ~dropped' /\ size' = 1
      <4>1. size' = 1
        BY <1>4, <3>4, <3>5 DEF Push
      <4>2. ~dropped /\ ~(size = Capacity)
        BY <1>3, <1>4, <3>4, <3>5 DEF RoomAfterWait
      <4>3. ~dropped'
        BY <4>2, <3>4, Zenon DEF Push
      <4> QED
        BY <4>1, <4>3
    <3> QED
      BY <3>1, <3>2, <3>3, <3>4, <3>6 DEF Push
  <2>2. CASE SendResumed(c)
    <3>1. in' = NULL /\ UNCHANGED out /\ Push /\ Unpark(c)
      BY <2>2 DEF SendResumed
    <3>2. size # Capacity
      BY <1>4 DEF OneEach
    <3>3. ~dropped' /\ size' = 1
      <4>1. size' = 1
        BY <1>4, <3>1, <3>2 DEF Push
      <4>2. ~dropped /\ ~(size = Capacity)
        BY <1>3, <1>4, <3>1, <3>2 DEF RoomAfterWait
      <4>3. ~dropped'
        BY <4>2, <3>1, Zenon DEF Push
      <4> QED
        BY <4>1, <4>3
    <3> QED
      BY <3>1, <3>3 DEF Push, Unpark
  <2> QED
    BY <2>1, <2>2
<1>6. /\ chpc'[c] = "out" /\ \A d \in Coroutines \ {c} : chpc'[d] = chpc[d]
  BY <1>1, <1>3, <1>5 DEF ChTypeOK
<1>7. out # NULL => /\ out \in Coroutines /\ out # c /\ out \in live /\ ~Up(out)
                    /\ out \notin byTimer /\ chpc[out] = "receive"
  <2> SUFFICES ASSUME out # NULL
               PROVE  /\ out \in Coroutines /\ out # c /\ out \in live /\ ~Up(out)
                      /\ out \notin byTimer /\ chpc[out] = "receive"
    OBVIOUS
  <2>1. out \in Coroutines /\ chpc[out] = "receive" /\ out # c
    BY <1>1, <1>3 DEF ChTypeOK, SlotsMatch
  <2>2. out \notin byTimer /\ out \in live
    BY <1>2, <1>3, <2>1 DEF Scheduled
  <2>3. ~Up(out)
    BY <1>3, <1>4, <2>2 DEF ResumedForACause
  <2> QED
    BY <2>1, <2>2, <2>3
<1>8. \A d \in Coroutines \ live : chpc'[d] = "out"
  BY <1>2, <1>3, <1>6 DEF Scheduled
<1>9. /\ ThreadTypeOK' /\ Scheduled'
      /\ \A d \in Coroutines : Up(d)' <=> Up(d) \/ d = out
  <2>1. out \in Coroutines \union {NULL}
    BY <1>3 DEF ChTypeOK
  <2> QED
    BY <1>1, <1>5, <1>7, <1>8, <2>1, ResumePartner
<1>10. ChTypeOK'
  <2>1. IsFiniteSet(timers') /\ timers' \in SUBSET Coroutines
    BY <1>1, <1>3, <1>5, TimersStayFinite
  <2>2. chpc' \in [Coroutines -> Calls]
    BY <1>3, <1>5 DEF ChTypeOK, Calls
  <2> QED
    BY <1>3, <1>5, <1>9, <2>1, <2>2 DEF ChTypeOK
<1>11. SlotsMatch'
  <2>1. \A d \in Coroutines \ {c} : chpc[d] # "send"
    BY <1>3, NullAssumption DEF SlotsMatch, OneEach
  <2> QED
    BY <1>3, <1>5, <1>6, <1>7, <2>1, NullAssumption DEF SlotsMatch
<1>12. ResumedForACause'
  BY <1>5, <1>7, <1>9 DEF ResumedForACause
<1>13. TimedOutRunsNext'
  <2>1. ASSUME NEW d \in byTimer'
        PROVE  chpc'[d] # "out" /\ chpc'[d] \notin {"send", "receive"}
    BY <1>2, <1>3, <1>5, <1>6, <2>1 DEF TimedOutRunsNext, ChTypeOK
  <2> QED
    BY <2>1 DEF TimedOutRunsNext
<1>14. TimersArmed' /\ SleepsAreDown'
  <2>1. ASSUME NEW d \in timers'
        PROVE  /\ d \in timers /\ d \in Coroutines /\ chpc'[d] = chpc[d]
               /\ byTimer' \subseteq byTimer
    BY <1>3, <1>5, <1>6, <2>1 DEF ChTypeOK
  <2>2. ASSUME NEW d \in timers', chpc[d] = "sleep" PROVE ~Up(d)'
    BY <1>3, <1>7, <1>9, <2>1, <2>2, NullAssumption DEF SleepsAreDown
  <2> QED
    BY <1>3, <2>1, <2>2 DEF TimersArmed, SleepsAreDown
<1> QED
  BY <1>3, <1>5, <1>9, <1>10, <1>11, <1>12, <1>13, <1>14
  DEF ChInv, RoomAfterWait, DataAfterWait

\* receive with a message, or resumed because of one: the buffer was full, and
\* the sender that waits for room is resumed once.
LEMMA ReceiveKeeps ==
  ASSUME OneEach, ChInv, NEW c \in Receivers, Receive(c) \/ ReceiveResumed(c)
  PROVE  ChInv'
<1>1. c \in Coroutines /\ Executing(c) /\ chpc[c] \in {"out", "receive"}
  BY ChannelAssumption DEF Receive, ReceiveResumed
<1>2. /\ c \in live /\ \A d \in Coroutines : Executing(d) <=> d = c
      /\ \A d \in Coroutines :
           d # c /\ chpc[d] \in {"send", "receive"} => d \notin byTimer
  BY <1>1, RunnerKnows
<1>3. /\ ChTypeOK /\ Scheduled /\ SlotsMatch /\ ResumedForACause
      /\ TimedOutRunsNext /\ TimersArmed /\ SleepsAreDown
      /\ RoomAfterWait /\ DataAfterWait
  BY DEF ChInv
<1>4. size = 1
  <2>1. CASE Receive(c)
    BY <1>3, <2>1 DEF Receive, ChTypeOK
  <2>2. CASE ReceiveResumed(c)
    <3>1. out = c /\ c \notin byTimer /\ Up(c) /\ c # NULL
      BY <1>1, <1>3, <2>2, NullAssumption DEF ReceiveResumed, SlotsMatch, Up
    <3> QED
      BY <1>3, <3>1 DEF ResumedForACause
  <2> QED
    BY <2>1, <2>2
<1>5. /\ out' = NULL /\ UNCHANGED in /\ size' = 0 /\ ~missed'
      /\ chpc' = [chpc EXCEPT ![c] = "out"]
      /\ timers' = timers \ {c} /\ byTimer' = byTimer \ {c}
      /\ ResumeIfAny(in)
      /\ UNCHANGED <<running, pending, tpc, wakefd, live>> /\ UNCHANGED dropped
  <2>1. CASE Receive(c)
    <3>1. out = NULL
      BY <1>1, <1>3, <2>1 DEF Receive, SlotsMatch, OneEach
    <3>2. c \notin timers /\ c \notin byTimer
      BY <1>3, <2>1 DEF Receive, TimedOutRunsNext, TimersArmed
    <3>3. chpc = [chpc EXCEPT ![c] = "out"]
      BY <1>1, <1>3, <2>1 DEF Receive, ChTypeOK
    <3>4. /\ UNCHANGED <<in, out, chpc, timers, byTimer>> /\ Pop(in)
      BY <2>1 DEF Receive
    <3>5. ~missed' /\ size' = 0
      <4>1. size' = 0
        BY <1>4, <3>4 DEF Pop
      <4>2. ~missed /\ ~(size = 0)
        BY <1>3, <1>4, <3>4 DEF DataAfterWait
      <4>3. ~missed'
        BY <4>2, <3>4, Zenon DEF Pop
      <4> QED
        BY <4>1, <4>3
    <3> QED
      BY <3>1, <3>2, <3>3, <3>4, <3>5 DEF Pop
  <2>2. CASE ReceiveResumed(c)
    <3>1. out' = NULL /\ UNCHANGED in /\ Pop(in) /\ Unpark(c)
      BY <2>2 DEF ReceiveResumed
    <3>2. ~missed' /\ size' = 0
      <4>1. size' = 0
        BY <1>4, <3>1 DEF Pop
      <4>2. ~missed /\ ~(size = 0)
        BY <1>3, <1>4, <3>1 DEF DataAfterWait
      <4>3. ~missed'
        BY <4>2, <3>1, Zenon DEF Pop
      <4> QED
        BY <4>1, <4>3
    <3> QED
      BY <3>1, <3>2 DEF Pop, Unpark
  <2> QED
    BY <2>1, <2>2
<1>6. /\ chpc'[c] = "out" /\ \A d \in Coroutines \ {c} : chpc'[d] = chpc[d]
  BY <1>1, <1>3, <1>5 DEF ChTypeOK
<1>7. in # NULL => /\ in \in Coroutines /\ in # c /\ in \in live /\ ~Up(in)
                   /\ in \notin byTimer /\ chpc[in] = "send"
  <2> SUFFICES ASSUME in # NULL
               PROVE  /\ in \in Coroutines /\ in # c /\ in \in live /\ ~Up(in)
                      /\ in \notin byTimer /\ chpc[in] = "send"
    OBVIOUS
  <2>1. in \in Coroutines /\ chpc[in] = "send" /\ in # c
    BY <1>1, <1>3 DEF ChTypeOK, SlotsMatch
  <2>2. in \notin byTimer /\ in \in live
    BY <1>2, <1>3, <2>1 DEF Scheduled
  <2>3. ~Up(in)
    BY <1>3, <1>4, <2>2 DEF ResumedForACause
  <2> QED
    BY <2>1, <2>2, <2>3
<1>8. \A d \in Coroutines \ live : chpc'[d] = "out"
  BY <1>2, <1>3, <1>6 DEF Scheduled
<1>9. /\ ThreadTypeOK' /\ Scheduled'
      /\ \A d \in Coroutines : Up(d)' <=> Up(d) \/ d = in
  <2>1. in \in Coroutines \union {NULL}
    BY <1>3 DEF ChTypeOK
  <2> QED
    BY <1>1, <1>5, <1>7, <1>8, <2>1, ResumePartner
<1>10. ChTypeOK'
  <2>1. IsFiniteSet(timers') /\ timers' \in SUBSET Coroutines
    BY <1>1, <1>3, <1>5, TimersStayFinite
  <2>2. chpc' \in [Coroutines -> Calls]
    BY <1>3, <1>5 DEF ChTypeOK, Calls
  <2> QED
    BY <1>3, <1>5, <1>9, <2>1, <2>2 DEF ChTypeOK
<1>11. SlotsMatch'
  <2>1. \A d \in Coroutines \ {c} : chpc[d] # "receive"
    BY <1>3, NullAssumption DEF SlotsMatch, OneEach
  <2> QED
    BY <1>3, <1>5, <1>6, <1>7, <2>1, NullAssumption DEF SlotsMatch
<1>12. ResumedForACause'
  BY <1>5, <1>7, <1>9 DEF ResumedForACause
<1>13. TimedOutRunsNext'
  <2>1. ASSUME NEW d \in byTimer'
        PROVE  chpc'[d] # "out" /\ chpc'[d] \notin {"send", "receive"}
    BY <1>2, <1>3, <1>5, <1>6, <2>1 DEF TimedOutRunsNext, ChTypeOK
  <2> QED
    BY <2>1 DEF TimedOutRunsNext
<1>14. TimersArmed' /\ SleepsAreDown'
  <2>1. ASSUME NEW d \in timers'
        PROVE  /\ d \in timers /\ d \in Coroutines /\ chpc'[d] = chpc[d]
               /\ byTimer' \subseteq byTimer
    BY <1>3, <1>5, <1>6, <2>1 DEF ChTypeOK
  <2>2. ASSUME NEW d \in timers', chpc[d] = "sleep" PROVE ~Up(d)'
    BY <1>3, <1>7, <1>9, <2>1, <2>2, NullAssumption DEF SleepsAreDown
  <2> QED
    BY <1>3, <2>1, <2>2 DEF TimersArmed, SleepsAreDown
<1> QED
  BY <1>3, <1>5, <1>9, <1>10, <1>11, <1>12, <1>13, <1>14
  DEF ChInv, RoomAfterWait, DataAfterWait

-----------------------------------------------------------------------------
\* A step that leaves the timed out calls alone, taken by a running coroutine:
\* the others' calls have not timed out, so TimedOutRunsNext asks nothing of
\* ready.
LEMMA OthersInTime ==
  ASSUME ChInv, NEW c \in Coroutines, Executing(c), chpc[c] = "out",
         byTimer' = byTimer, \A d \in Coroutines \ {c} : chpc'[d] = chpc[d]
  PROVE  TimedOutRunsNext' /\ c \notin byTimer
<1>1. \A d \in Coroutines :
        d # c /\ chpc[d] \in {"send", "receive"} => d \notin byTimer
  BY RunnerKnows
<1>2. c \notin byTimer /\ byTimer \subseteq Coroutines /\ TimedOutRunsNext
  BY DEF ChInv, ChTypeOK, TimedOutRunsNext
<1>3. ASSUME NEW d \in byTimer'
      PROVE  chpc'[d] # "out" /\ chpc'[d] \notin {"send", "receive"}
  BY <1>1, <1>2, <1>3 DEF TimedOutRunsNext
<1> QED
  BY <1>2, <1>3 DEF TimedOutRunsNext

\* timeout(dd) up to its suspension: the caller is no longer up, nothing else
\* changes for the others.
LEMMA ParkKeeps ==
  ASSUME ChInv, NEW c \in Coroutines, Executing(c), chpc[c] = "out",
         NEW call \in Calls \ {"out"}, NEW b \in BOOLEAN, Park(c, call, b)
  PROVE  /\ ThreadTypeOK' /\ Scheduled' /\ TimedOutRunsNext'
         /\ timers' \in SUBSET Coroutines /\ IsFiniteSet(timers')
         /\ chpc' \in [Coroutines -> Calls] /\ chpc'[c] = call
         /\ \A d \in Coroutines \ {c} : chpc'[d] = chpc[d]
         /\ TimersArmed' /\ SleepsAreDown'
         /\ ~Up(c)' /\ \A d \in Coroutines \ {c} : Up(d)' <=> Up(d)
         /\ c \notin byTimer
<1>1. /\ home[c] \in Threads /\ c \in live
      /\ c \notin ToSet(ready[home[c]])
      /\ \A d \in Coroutines : home[d] = home[c]
      /\ \A u \in Threads : u = home[c]
      /\ \A d \in Coroutines : Executing(d) <=> d = c
  BY RunnerKnows
<1>2. /\ ThreadTypeOK /\ Scheduled /\ chpc \in [Coroutines -> Calls]
      /\ TimersArmed /\ SleepsAreDown
      /\ timers \in SUBSET Coroutines /\ IsFiniteSet(timers)
  BY DEF ChInv, ChTypeOK
<1>3. /\ chpc' = [chpc EXCEPT ![c] = call]
      /\ tpc' = [tpc EXCEPT ![home[c]] = "sched"]
      /\ UNCHANGED <<running, ready, pending, wakefd, live, byTimer>>
      /\ timers' = timers \/ timers' = timers \union {c}
  BY DEF Park, Suspend
<1>4. /\ chpc' \in [Coroutines -> Calls] /\ chpc'[c] = call
      /\ \A d \in Coroutines \ {c} : chpc'[d] = chpc[d]
  BY <1>2, <1>3
<1>5. timers' \in SUBSET Coroutines /\ IsFiniteSet(timers')
  <2>1. ChTypeOK
    BY DEF ChInv
  <2> QED
    BY <1>2, <1>3, <2>1, TimersStayFinite
<1>7. TimedOutRunsNext' /\ c \notin byTimer
  BY <1>3, <1>4, OthersInTime
<1>8. tpc' \in [Threads -> {"run", "sched", "poll"}] /\ tpc'[home[c]] = "sched"
  BY <1>1, <1>2, <1>3 DEF ThreadTypeOK
<1>9. ThreadTypeOK'
  BY <1>2, <1>3, <1>8 DEF ThreadTypeOK
<1>10. Scheduled'
  <2>1. ReadyOnce'
    BY <1>1, <1>2, <1>3, <1>8 DEF Scheduled, ReadyOnce
  <2>2. \A d \in Coroutines \ live' : chpc'[d] = "out"
    BY <1>1, <1>2, <1>3, <1>4 DEF Scheduled
  <2>3. ASSUME NEW u \in Threads
        PROVE  /\ pending'[u] = <<>> /\ tpc'[u] = "sched"
               /\ ToSet(ready'[u]) \subseteq live'
    BY <1>1, <1>2, <1>3, <1>8 DEF Scheduled
  <2> QED
    BY <2>1, <2>2, <2>3 DEF Scheduled
<1>11. ~Up(c)' /\ \A d \in Coroutines \ {c} : Up(d)' <=> Up(d)
  BY <1>1, <1>3, <1>8 DEF Up, Executing
<1>12. TimersArmed' /\ SleepsAreDown'
  BY <1>2, <1>3, <1>4, <1>7, <1>11 DEF TimersArmed, SleepsAreDown
<1> QED
  BY <1>4, <1>5, <1>7, <1>9, <1>10, <1>11, <1>12

\* A full send, an empty receive and a sleep park their caller, which is the
\* only coroutine of its side.
LEMMA BlockKeeps ==
  ASSUME OneEach, ChInv, NEW c \in Coroutines, NEW b \in BOOLEAN,
         \/ c \in Senders /\ SendBlocks(c, b)
         \/ c \in Receivers /\ ReceiveBlocks(c, b)
         \/ Sleep(c)
  PROVE  ChInv'
<1>1. /\ ChTypeOK /\ SlotsMatch /\ ResumedForACause
      /\ RoomAfterWait /\ DataAfterWait
  BY DEF ChInv
<1>2. Executing(c) /\ chpc[c] = "out"
  BY DEF SendBlocks, ReceiveBlocks, Sleep
<1>3. in # c /\ out # c
  BY <1>1, <1>2 DEF SlotsMatch
<1>4. ASSUME NEW call \in Calls \ {"out"}, NEW w \in BOOLEAN, Park(c, call, w),
             SlotsMatch', ResumedForACause',
             in' \in {in, c}, out' \in {out, c}
      PROVE  ChInv'
  <2>1. UNCHANGED <<size, byTimer, dropped, missed>>
    BY <1>4 DEF Park
  <2>2. /\ ThreadTypeOK' /\ Scheduled' /\ TimedOutRunsNext'
        /\ timers' \in SUBSET Coroutines /\ IsFiniteSet(timers')
        /\ chpc' \in [Coroutines -> Calls]
        /\ TimersArmed' /\ SleepsAreDown'
    BY <1>2, <1>4, ParkKeeps
  <2>3. ChTypeOK'
    BY <1>1, <1>4, <2>1, <2>2 DEF ChTypeOK
  <2> QED
    BY <1>1, <1>4, <2>1, <2>2, <2>3 DEF ChInv, RoomAfterWait, DataAfterWait
<1>5. CASE c \in Senders /\ SendBlocks(c, b)
  <2>1. size = 1 /\ in' = c /\ out' = out /\ Park(c, "send", b)
    BY <1>5 DEF SendBlocks, OneEach
  <2>2. /\ chpc'[c] = "send" /\ \A d \in Coroutines \ {c} : chpc'[d] = chpc[d]
        /\ ~Up(c)' /\ \A d \in Coroutines \ {c} : Up(d)' <=> Up(d)
        /\ size' = size /\ byTimer' = byTimer
    <3>1. "send" \in Calls \ {"out"}
      BY DEF Calls
    <3> QED
      BY <1>2, <2>1, <3>1, ParkKeeps DEF Park
  <2>3. \A d \in Coroutines \ {c} : chpc[d] # "send"
    BY <1>1, <1>5, NullAssumption DEF SlotsMatch, OneEach
  <2>4. SlotsMatch'
    BY <1>1, <1>2, <1>3, <1>5, <2>1, <2>2, <2>3 DEF SlotsMatch
  <2>5. ResumedForACause'
    BY <1>1, <1>3, <2>1, <2>2 DEF ResumedForACause, ChTypeOK
  <2> QED
    BY <1>4, <2>1, <2>4, <2>5 DEF Calls
<1>6. CASE c \in Receivers /\ ReceiveBlocks(c, b)
  <2>1. size = 0 /\ out' = c /\ in' = in /\ Park(c, "receive", b)
    BY <1>6 DEF ReceiveBlocks
  <2>2. /\ chpc'[c] = "receive"
        /\ \A d \in Coroutines \ {c} : chpc'[d] = chpc[d]
        /\ ~Up(c)' /\ \A d \in Coroutines \ {c} : Up(d)' <=> Up(d)
        /\ size' = size /\ byTimer' = byTimer
    <3>1. "receive" \in Calls \ {"out"}
      BY DEF Calls
    <3> QED
      BY <1>2, <2>1, <3>1, ParkKeeps DEF Park
  <2>3. \A d \in Coroutines \ {c} : chpc[d] # "receive"
    BY <1>1, <1>6, NullAssumption DEF SlotsMatch, OneEach
  <2>4. SlotsMatch'
    BY <1>1, <1>2, <1>3, <1>6, <2>1, <2>2, <2>3 DEF SlotsMatch
  <2>5. ResumedForACause'
    BY <1>1, <1>3, <2>1, <2>2 DEF ResumedForACause, ChTypeOK
  <2> QED
    BY <1>4, <2>1, <2>4, <2>5 DEF Calls
<1>7. CASE Sleep(c)
  <2>1. out' = out /\ in' = in /\ Park(c, "sleep", TRUE)
    BY <1>7 DEF Sleep
  <2>2. /\ chpc'[c] = "sleep"
        /\ \A d \in Coroutines \ {c} : chpc'[d] = chpc[d]
        /\ \A d \in Coroutines \ {c} : Up(d)' <=> Up(d)
        /\ size' = size /\ byTimer' = byTimer
    <3>1. "sleep" \in Calls \ {"out"}
      BY DEF Calls
    <3> QED
      BY <1>2, <2>1, <3>1, ParkKeeps DEF Park
  <2>3. SlotsMatch'
    BY <1>1, <1>2, <1>3, <2>1, <2>2 DEF SlotsMatch
  <2>4. ResumedForACause'
    BY <1>1, <1>3, <2>1, <2>2 DEF ResumedForACause, ChTypeOK
  <2> QED
    BY <1>4, <2>1, <2>3, <2>4 DEF Calls
<1> QED
  BY <1>5, <1>6, <1>7

\* A call that timed out clears its slot and returns without touching the
\* buffer or anybody else; so does a sleep.
LEMMA ReturnKeeps ==
  ASSUME ChInv, NEW c \in Coroutines,
         SendTimesOut(c) \/ ReceiveTimesOut(c) \/ Awake(c)
  PROVE  ChInv'
<1>1. /\ ChTypeOK /\ Scheduled /\ SlotsMatch /\ ResumedForACause
      /\ TimedOutRunsNext /\ TimersArmed /\ SleepsAreDown
      /\ RoomAfterWait /\ DataAfterWait
  BY DEF ChInv
<1>2. /\ UNCHANGED <<running, ready, pending, tpc, wakefd, live>>
      /\ UNCHANGED <<size, dropped, missed>>
      /\ Unpark(c) /\ Executing(c)
  BY DEF SendTimesOut, ReceiveTimesOut, Awake, threadVars
<1>3. /\ in' = IF chpc[c] = "send" THEN NULL ELSE in
      /\ out' = IF chpc[c] = "receive" THEN NULL ELSE out
  BY DEF SendTimesOut, ReceiveTimesOut, Awake
<1>4. /\ chpc' \in [Coroutines -> Calls] /\ chpc'[c] = "out"
      /\ \A d \in Coroutines \ {c} : chpc'[d] = chpc[d]
      /\ timers' = timers \ {c} /\ byTimer' = byTimer \ {c}
  BY <1>1, <1>2 DEF Unpark, ChTypeOK, Calls
<1>5. /\ \A d \in Coroutines : Up(d)' <=> Up(d)
      /\ \A d \in Coroutines : Executing(d)' <=> Executing(d)
  BY <1>2 DEF Up, Executing
<1>6. ChTypeOK'
  <2>1. IsFiniteSet(timers') /\ timers' \in SUBSET Coroutines
    BY <1>1, <1>4, TimersStayFinite
  <2>2. ThreadTypeOK'
    BY <1>1, <1>2 DEF ChTypeOK, ThreadTypeOK
  <2> QED
    BY <1>1, <1>2, <1>3, <1>4, <2>1, <2>2 DEF ChTypeOK
<1>7. Scheduled'
  BY <1>1, <1>2, <1>4 DEF Scheduled, ReadyOnce
<1>8. SlotsMatch'
  <2>1. \A d \in Coroutines : chpc'[d] = "send" <=> in' = d
    BY <1>1, <1>3, <1>4, NullAssumption DEF SlotsMatch
  <2>2. \A d \in Coroutines : chpc'[d] = "receive" <=> out' = d
    BY <1>1, <1>3, <1>4, NullAssumption DEF SlotsMatch
  <2>3. (in' # NULL => in' \in Senders) /\ (out' # NULL => out' \in Receivers)
    BY <1>1, <1>3 DEF SlotsMatch
  <2> QED
    BY <2>1, <2>2, <2>3 DEF SlotsMatch
<1>9. ResumedForACause'
  <2>1. in' # NULL => in' = in /\ in # c /\ in \in Coroutines
    BY <1>1, <1>3 DEF SlotsMatch, ChTypeOK
  <2>2. out' # NULL => out' = out /\ out # c /\ out \in Coroutines
    BY <1>1, <1>3 DEF SlotsMatch, ChTypeOK
  <2> QED
    BY <1>1, <1>2, <1>4, <1>5, <2>1, <2>2 DEF ResumedForACause
<1>10. TimedOutRunsNext'
  BY <1>1, <1>2, <1>4, <1>5 DEF TimedOutRunsNext, ChTypeOK
<1>11. TimersArmed' /\ SleepsAreDown'
  BY <1>1, <1>4, <1>5 DEF TimersArmed, SleepsAreDown, ChTypeOK
<1> QED
  BY <1>1, <1>2, <1>6, <1>7, <1>8, <1>9, <1>10, <1>11
  DEF ChInv, RoomAfterWait, DataAfterWait

-----------------------------------------------------------------------------
\* What a step of the scheduler has to keep, the channel's own state being
\* left alone: nobody in the channel's slots starts or stops being up.
LEMMA SchedulerKeeps ==
  ASSUME ChInv, UNCHANGED chVars, ThreadTypeOK', Scheduled', TimedOutRunsNext',
         \A d \in Coroutines : chpc[d] # "out" => (Up(d)' <=> Up(d))
  PROVE  ChInv'
<1>1. UNCHANGED <<size, in, out, chpc, timers, byTimer, dropped, missed>>
  BY DEF chVars
<1>2. /\ ChTypeOK /\ SlotsMatch /\ ResumedForACause
      /\ TimersArmed /\ SleepsAreDown /\ RoomAfterWait /\ DataAfterWait
  BY DEF ChInv
<1>3. ChTypeOK' /\ SlotsMatch'
  BY <1>1, <1>2 DEF ChTypeOK, SlotsMatch
<1>4. ResumedForACause'
  <2>1. in # NULL => (Up(in)' <=> Up(in))
    BY <1>1, <1>2 DEF SlotsMatch, ChTypeOK, Up, Executing
  <2>2. out # NULL => (Up(out)' <=> Up(out))
    BY <1>1, <1>2 DEF SlotsMatch, ChTypeOK, Up, Executing
  <2> QED
    BY <1>1, <1>2, <2>1, <2>2 DEF ResumedForACause
<1>5. TimersArmed' /\ SleepsAreDown'
  BY <1>1, <1>2 DEF TimersArmed, SleepsAreDown, ChTypeOK
<1> QED
  BY <1>1, <1>2, <1>3, <1>4, <1>5 DEF ChInv, RoomAfterWait, DataAfterWait

\* yld() and async queue their caller, which is not in ready; the coroutine
\* that async starts is new.
LEMMA UserKeeps ==
  ASSUME ChInv, NEW c \in Coroutines, UserStep(c)
  PROVE  ChInv'
<1>1. chpc[c] = "out" /\ Executing(c) /\ UNCHANGED chVars
  BY DEF UserStep, Yield, Async
<1>2. UNCHANGED <<chpc, byTimer>>
  BY <1>1 DEF chVars
<1>3. TimedOutRunsNext'
  BY <1>1, <1>2, OthersInTime
<1>4. /\ home[c] \in Threads /\ c \in live
      /\ c \notin ToSet(ready[home[c]])
      /\ \A d \in Coroutines : home[d] = home[c]
      /\ \A u \in Threads : u = home[c]
      /\ \A d \in Coroutines : Executing(d) <=> d = c
  BY <1>1, RunnerKnows
<1>5. PICK t : t = home[c]
  OBVIOUS
<1>6. t \in Threads /\ ThreadTypeOK /\ Scheduled
  BY <1>4, <1>5 DEF ChInv, ChTypeOK
<1>7. ready' = [ready EXCEPT ![t] = Append(ready[t], c)]
  BY <1>5 DEF UserStep, Yield, Async, Resume
<1>8. ready[t] \in Seq(Coroutines) /\ IsInjective(ready[t])
  BY <1>6 DEF ThreadTypeOK, Scheduled, ReadyOnce
<1>9. /\ ready' \in [Threads -> Seq(Coroutines)] /\ IsInjective(ready'[t])
      /\ ToSet(ready'[t]) = ToSet(ready[t]) \union {c}
  BY <1>4, <1>5, <1>6, <1>7, <1>8, PushQueue DEF ThreadTypeOK
<1>10. ToSet(ready[t]) \subseteq live /\ pending[t] = <<>>
  BY <1>6 DEF Scheduled
<1>11. CASE Yield(c)
  <2>1. /\ UNCHANGED <<running, pending, wakefd, live>>
        /\ tpc' = [tpc EXCEPT ![t] = "sched"]
    BY <1>5, <1>11 DEF Yield, Suspend
  <2>2. tpc' \in [Threads -> {"run", "sched", "poll"}] /\ tpc'[t] = "sched"
    BY <1>6, <2>1 DEF ThreadTypeOK
  <2>3. ThreadTypeOK'
    BY <1>6, <1>9, <2>1, <2>2 DEF ThreadTypeOK
  <2>4. ReadyOnce'
    BY <1>4, <1>5, <1>9, <2>2 DEF ReadyOnce
  <2>5. ASSUME NEW u \in Threads
        PROVE  /\ pending'[u] = <<>> /\ tpc'[u] = "sched"
               /\ ToSet(ready'[u]) \subseteq live'
    BY <1>4, <1>5, <1>9, <1>10, <2>1, <2>2
  <2>6. \A d \in Coroutines \ live' : chpc'[d] = "out"
    BY <1>2, <1>6, <2>1 DEF Scheduled
  <2>7. Scheduled'
    BY <2>4, <2>5, <2>6 DEF Scheduled
  <2>8. \A d \in Coroutines : Up(d)' <=> Up(d)
    BY <1>4, <1>5, <1>9, <2>2 DEF Up, Executing
  <2> QED
    BY <1>1, <1>3, <2>3, <2>7, <2>8, SchedulerKeeps
<1>12. CASE \E d \in Coroutines : Async(c, d)
  <2>1. PICK d \in Coroutines : Async(c, d)
    BY <1>12
  <2>2. /\ d \notin live /\ running' = [running EXCEPT ![t] = d]
        /\ live' = live \union {d} /\ UNCHANGED <<pending, tpc, wakefd>>
    BY <1>5, <2>1 DEF Async
  <2>3. running' \in [Threads -> Coroutines \union {NULL}] /\ running'[t] = d
    BY <1>6, <2>2 DEF ThreadTypeOK
  <2>4. ThreadTypeOK'
    BY <1>6, <1>9, <2>2, <2>3 DEF ThreadTypeOK
  <2>5. d \notin ToSet(ready'[t]) /\ tpc'[t] = "run" /\ chpc[d] = "out" /\ d # c
    BY <1>1, <1>4, <1>5, <1>6, <1>9, <1>10, <2>2 DEF Executing, Scheduled
  <2>6. ReadyOnce'
    BY <1>4, <1>5, <1>9, <2>3, <2>5 DEF ReadyOnce
  <2>7. ASSUME NEW u \in Threads
        PROVE  /\ pending'[u] = <<>> /\ tpc'[u] = "run" /\ running'[u] \in live'
               /\ ToSet(ready'[u]) \subseteq live'
    BY <1>4, <1>5, <1>9, <1>10, <2>2, <2>3, <2>5
  <2>8. \A e \in Coroutines \ live' : chpc'[e] = "out"
    BY <1>2, <1>6, <2>2 DEF Scheduled
  <2>9. Scheduled'
    BY <2>6, <2>7, <2>8 DEF Scheduled
  <2>10. \A e \in Coroutines : Up(e)' <=> Up(e) \/ e = d
    BY <1>4, <1>5, <1>9, <2>3, <2>5 DEF Up, Executing
  <2> QED
    BY <1>1, <1>3, <2>4, <2>5, <2>9, <2>10, SchedulerKeeps
<1> QED
  BY <1>11, <1>12 DEF UserStep

\* One turn of suspend's loop: the head of ready runs, the rest stays up.
LEMMA DispatchKeeps ==
  ASSUME ChInv, NEW t \in Threads, ThreadStep(t)
  PROVE  ChInv'
<1>1. Dispatch(t) /\ UNCHANGED chVars
  BY DEF ThreadStep
<1>2. UNCHANGED <<chpc, byTimer>>
  BY <1>1 DEF chVars
<1>3. (\A u \in Threads : u = t) /\ \A c \in Coroutines : home[c] = t
  BY OneThread
<1>4. ThreadTypeOK /\ Scheduled /\ TimedOutRunsNext /\ byTimer \subseteq Coroutines
  BY DEF ChInv, ChTypeOK
<1>5. /\ ready[t] \in Seq(Coroutines) /\ IsInjective(ready[t])
      /\ ToSet(ready[t]) \subseteq live /\ pending[t] = <<>>
  BY <1>4 DEF ThreadTypeOK, Scheduled, ReadyOnce
<1>6. ProcessPending(t) = ready[t]
  BY <1>5, DrainEmpty DEF ProcessPending
<1>7. /\ tpc[t] = "sched" /\ UNCHANGED <<wakefd, live>>
      /\ pending' = [pending EXCEPT ![t] = <<>>]
  BY <1>1 DEF Dispatch
<1>8. pending' \in [Threads -> Seq(Coroutines)] /\ pending'[t] = <<>>
  BY <1>4, <1>7, EmptyQueue DEF ThreadTypeOK
<1>9. \A d \in Coroutines : Up(d) <=> d \in ToSet(ready[t])
  BY <1>3, <1>7 DEF Up, Executing
<1>10. \A d \in Coroutines \ live' : chpc'[d] = "out"
  BY <1>2, <1>4, <1>7 DEF Scheduled
<1>11. CASE ready[t] = <<>>
  <2>1. UNCHANGED <<running, ready>> /\ tpc' = [tpc EXCEPT ![t] = "poll"]
    BY <1>1, <1>6, <1>11 DEF Dispatch
  <2>2. tpc' \in [Threads -> {"run", "sched", "poll"}] /\ tpc'[t] = "poll"
    BY <1>4, <2>1 DEF ThreadTypeOK
  <2>3. ThreadTypeOK'
    BY <1>4, <1>7, <1>8, <2>1, <2>2 DEF ThreadTypeOK
  <2>4. ReadyOnce'
    BY <1>3, <1>5, <2>1, <2>2 DEF ReadyOnce
  <2>5. ASSUME NEW u \in Threads
        PROVE  /\ pending'[u] = <<>> /\ tpc'[u] = "poll" /\ ready'[u] = <<>>
               /\ ToSet(ready'[u]) \subseteq live'
    BY <1>3, <1>5, <1>7, <1>8, <1>11, <2>1, <2>2
  <2>6. Scheduled'
    BY <1>10, <2>4, <2>5 DEF Scheduled
  <2>7. TimedOutRunsNext'
    <3>1. ASSUME NEW d \in byTimer, chpc[d] \in {"send", "receive"}
          PROVE  FALSE
      BY <1>3, <1>4, <1>7, <1>11, <3>1 DEF TimedOutRunsNext, Executing
    <3> QED
      BY <1>2, <1>4, <3>1 DEF TimedOutRunsNext
  <2>8. \A d \in Coroutines : Up(d)' <=> Up(d)
    BY <1>3, <1>9, <2>1, <2>2 DEF Up, Executing
  <2> QED
    BY <1>1, <2>3, <2>6, <2>7, <2>8, SchedulerKeeps
<1>12. CASE ready[t] # <<>>
  <2>1. PICK h, rest : h = Head(ready[t]) /\ rest = Tail(ready[t])
    OBVIOUS
  <2>2. /\ running' = [running EXCEPT ![t] = h]
        /\ ready' = [ready EXCEPT ![t] = rest]
        /\ tpc' = [tpc EXCEPT ![t] = "run"]
    BY <1>1, <1>6, <1>12, <2>1 DEF Dispatch
  <2>3. /\ h \in Coroutines /\ rest \in Seq(Coroutines) /\ IsInjective(rest)
        /\ h \in ToSet(ready[t]) /\ ToSet(rest) = ToSet(ready[t]) \ {h}
    BY <1>5, <1>12, <2>1, PopQueue
  <2>4. /\ tpc' \in [Threads -> {"run", "sched", "poll"}] /\ tpc'[t] = "run"
        /\ running' \in [Threads -> Coroutines \union {NULL}] /\ running'[t] = h
        /\ ready' \in [Threads -> Seq(Coroutines)] /\ ready'[t] = rest
    BY <1>4, <2>2, <2>3 DEF ThreadTypeOK
  <2>5. ThreadTypeOK'
    BY <1>4, <1>7, <1>8, <2>4 DEF ThreadTypeOK
  <2>6. ReadyOnce'
    BY <1>3, <2>3, <2>4 DEF ReadyOnce
  <2>7. ASSUME NEW u \in Threads
        PROVE  /\ pending'[u] = <<>> /\ tpc'[u] = "run" /\ running'[u] \in live'
               /\ ToSet(ready'[u]) \subseteq live'
    BY <1>3, <1>5, <1>7, <1>8, <2>3, <2>4
  <2>8. Scheduled'
    BY <1>10, <2>6, <2>7 DEF Scheduled
  <2>9. TimedOutRunsNext'
    <3>1. ASSUME NEW d \in byTimer, chpc[d] \in {"send", "receive"}
          PROVE  d = h
      BY <1>3, <1>4, <1>7, <2>1, <3>1 DEF TimedOutRunsNext, Executing
    <3>2. ASSUME NEW d \in byTimer, chpc[d] \in {"send", "receive"}
          PROVE  Executing(d)'
      BY <1>3, <1>4, <2>4, <3>1, <3>2 DEF Executing
    <3> QED
      BY <1>2, <1>4, <3>2 DEF TimedOutRunsNext
  <2>10. \A d \in Coroutines : Up(d)' <=> Up(d)
    BY <1>3, <1>9, <2>3, <2>4 DEF Up, Executing
  <2> QED
    BY <1>1, <2>5, <2>8, <2>9, <2>10, SchedulerKeeps
<1> QED
  BY <1>11, <1>12

-----------------------------------------------------------------------------
\* The list a poll hands to ready repeats nobody and holds only coroutines
\* whose time has come.
LEMMA DueOrder ==
  ASSUME NEW due \in SUBSET Coroutines, IsFiniteSet(due),
         NEW order \in SetToSeqs(due)
  PROVE  /\ order \in Seq(Coroutines) /\ IsInjective(order)
         /\ ToSet(order) \subseteq due
         /\ due # {} => order # <<>>
<1>1. PICK n : n = Cardinality(due)
  OBVIOUS
<1>2. n \in Nat
  BY <1>1, FS_CardinalityType
<1>3. order \in [1 .. n -> due] /\ \A i, j \in 1 .. n : i # j => order[i] # order[j]
  BY <1>1 DEF SetToSeqs
<1>4. order \in Seq(due) /\ Len(order) = n
  BY <1>2, <1>3
<1>5. order \in Seq(Coroutines) /\ ToSet(order) \subseteq due
  BY <1>4, QueueElements
<1>6. IsInjective(order)
  BY <1>3, <1>4, QueueElements
<1>7. due # {} => order # <<>>
  BY <1>1, <1>2, <1>4, FS_EmptySet
<1> QED
  BY <1>5, <1>6, <1>7

\* Whoever is first in a list stays first when others queue up behind it.
LEMMA HeadStays ==
  ASSUME NEW S, NEW s \in Seq(S), NEW r \in Seq(S), s # <<>>
  PROVE  s \o r # <<>> /\ Head(s \o r) = Head(s)
<1> DEFINE q == s \o r
<1>1. /\ q \in Seq(S) /\ Len(s) \in Nat \ {0} /\ Len(r) \in Nat
      /\ Len(q) = Len(s) + Len(r)
      /\ \A i \in 1 .. Len(s) : q[i] = s[i]
      /\ Head(s) = s[1]
  BY ConcatProperties, LenProperties, EmptySeq, HeadTailProperties
<1> HIDE DEF q
<1>2. Len(q) # 0 /\ 1 \in 1 .. Len(s)
  BY <1>1
<1>3. q # <<>>
  BY <1>1, <1>2, EmptySeq
<1>4. Head(q) = q[1]
  BY <1>1, <1>3, HeadTailProperties
<1> QED
  BY <1>1, <1>2, <1>3, <1>4 DEF q

\* The event loop resumes coroutines whose time has come.  None of them is in
\* ready already: nobody else resumes a sleep, and a call times out only when
\* ready is empty.  That call is then the first of ready, and stays it through
\* further polls.
LEMMA PollKeeps ==
  ASSUME ChInv, NEW t \in Threads, PollTimers(t), TimeoutFirst
  PROVE  ChInv'
<1>1. /\ ChTypeOK /\ ThreadTypeOK /\ Scheduled /\ SlotsMatch /\ ResumedForACause
      /\ TimedOutRunsNext /\ TimersArmed /\ SleepsAreDown
      /\ RoomAfterWait /\ DataAfterWait
  BY DEF ChInv, ChTypeOK
<1>2. (\A u \in Threads : u = t) /\ \A c \in Coroutines : home[c] = t
  BY OneThread
<1>3. PICK due \in SUBSET timers \ {{}} : \E order \in SetToSeqs(due) :
        /\ timers' = timers \ due
        /\ byTimer' = byTimer \union due
        /\ ready' = [ready EXCEPT ![t] = ready[t] \o order]
  BY DEF PollTimers
<1>4. PICK order \in SetToSeqs(due) :
        /\ timers' = timers \ due
        /\ byTimer' = byTimer \union due
        /\ ready' = [ready EXCEPT ![t] = ready[t] \o order]
  BY <1>3
<1>5. /\ tpc[t] \in {"poll", "sched"} /\ tpc' = [tpc EXCEPT ![t] = "sched"]
      /\ UNCHANGED <<running, pending, wakefd, live, size, in, out, chpc,
                     dropped, missed>>
  BY DEF PollTimers
<1>6. /\ ready[t] \in Seq(Coroutines) /\ IsInjective(ready[t])
      /\ ToSet(ready[t]) \subseteq live /\ pending[t] = <<>>
      /\ chpc \in [Coroutines -> Calls]
      /\ \A d \in Coroutines : Up(d) <=> d \in ToSet(ready[t])
  BY <1>1, <1>2, <1>5
  DEF ChTypeOK, ThreadTypeOK, Scheduled, ReadyOnce, Up, Executing
<1>7. /\ due \subseteq timers /\ due \in SUBSET Coroutines /\ IsFiniteSet(due)
      /\ due \intersect byTimer = {}
  BY <1>1, <1>3, FS_Subset DEF ChTypeOK, TimersArmed
<1>8. /\ order \in Seq(Coroutines) /\ IsInjective(order)
      /\ ToSet(order) \subseteq due
  BY <1>7, DueOrder
<1>9. ASSUME NEW d \in due, chpc[d] \in {"send", "receive"}
      PROVE  ready[t] = <<>> /\ Head(ready'[t]) = d
  BY <1>2, <1>4, <1>7, <1>9 DEF TimeoutFirst
<1>10. \A d \in due : d \notin ToSet(ready[t])
  <2>1. ASSUME NEW d \in due PROVE d \notin ToSet(ready[t])
    <3>1. d \in Coroutines /\ chpc[d] \in {"send", "receive", "sleep"}
      BY <1>1, <1>6, <1>7 DEF TimersArmed, Calls
    <3>2. CASE chpc[d] = "sleep"
      BY <1>1, <1>6, <1>7, <3>1, <3>2 DEF SleepsAreDown
    <3>3. CASE chpc[d] \in {"send", "receive"}
      BY <1>9, <3>3, EmptyQueue
    <3> QED
      BY <3>1, <3>2, <3>3
  <2> QED
    BY <2>1
<1>11. /\ ready' \in [Threads -> Seq(Coroutines)]
       /\ ready'[t] = ready[t] \o order /\ IsInjective(ready'[t])
       /\ ToSet(ready'[t]) = ToSet(ready[t]) \union ToSet(order)
  BY <1>1, <1>4, <1>6, <1>8, <1>10, DrainQueue DEF ThreadTypeOK
<1>12. tpc' \in [Threads -> {"run", "sched", "poll"}] /\ tpc'[t] = "sched"
  BY <1>1, <1>5 DEF ThreadTypeOK
<1>13. ChTypeOK'
  <2>1. ThreadTypeOK'
    BY <1>1, <1>5, <1>11, <1>12 DEF ThreadTypeOK
  <2>2. IsFiniteSet(timers')
    BY <1>1, <1>4, FS_Subset DEF ChTypeOK
  <2> QED
    BY <1>1, <1>4, <1>5, <1>7, <2>1, <2>2 DEF ChTypeOK
<1>14. \A d \in Coroutines : d \notin due => (Up(d)' <=> Up(d))
  BY <1>2, <1>6, <1>8, <1>11, <1>12 DEF Up, Executing
<1>15. Scheduled'
  <2>1. due \subseteq live
    BY <1>1, <1>7 DEF Scheduled, TimersArmed
  <2>2. ReadyOnce'
    BY <1>2, <1>11, <1>12 DEF ReadyOnce
  <2>3. ASSUME NEW u \in Threads
        PROVE  /\ pending'[u] = <<>> /\ tpc'[u] = "sched"
               /\ ToSet(ready'[u]) \subseteq live'
    BY <1>2, <1>5, <1>6, <1>8, <1>11, <1>12, <2>1
  <2>4. \A d \in Coroutines \ live' : chpc'[d] = "out"
    BY <1>1, <1>5 DEF Scheduled
  <2> QED
    BY <2>2, <2>3, <2>4 DEF Scheduled
<1>16. SlotsMatch'
  BY <1>1, <1>5 DEF SlotsMatch
<1>17. ResumedForACause'
  <2>1. ASSUME in # NULL, in \notin byTimer' PROVE size = 0 <=> Up(in)'
    <3>1. in \in Coroutines /\ in \notin byTimer /\ in \notin due
      BY <1>1, <1>4, <2>1 DEF ChTypeOK
    <3> QED
      BY <1>1, <1>5, <1>14, <2>1, <3>1 DEF ResumedForACause, Up, Executing
  <2>2. ASSUME out # NULL, out \notin byTimer' PROVE size = 1 <=> Up(out)'
    <3>1. out \in Coroutines /\ out \notin byTimer /\ out \notin due
      BY <1>1, <1>4, <2>2 DEF ChTypeOK
    <3> QED
      BY <1>1, <1>5, <1>14, <2>2, <3>1 DEF ResumedForACause, Up, Executing
  <2>3. UNCHANGED <<size, in, out>>
    BY <1>5
  <2> QED
    BY <2>1, <2>2, <2>3 DEF ResumedForACause, Up, Executing
<1>18. TimedOutRunsNext'
  <2>1. ASSUME NEW d \in byTimer
        PROVE  /\ chpc[d] # "out"
               /\ chpc[d] \in {"send", "receive"} =>
                    ready'[t] # <<>> /\ Head(ready'[t]) = d
    <3>1. chpc[d] # "out" /\ d \in Coroutines
      BY <1>1 DEF TimedOutRunsNext, ChTypeOK
    <3>2. ASSUME chpc[d] \in {"send", "receive"}
          PROVE  ready[t] # <<>> /\ Head(ready[t]) = d
      BY <1>1, <1>2, <1>5, <3>1, <3>2 DEF TimedOutRunsNext, Executing
    <3> QED
      BY <1>6, <1>8, <1>11, <3>1, <3>2, HeadStays
  <2>2. ASSUME NEW d \in due
        PROVE  /\ chpc[d] # "out"
               /\ chpc[d] \in {"send", "receive"} =>
                    ready'[t] # <<>> /\ Head(ready'[t]) = d
    <3>1. chpc[d] # "out"
      BY <1>1, <1>7 DEF TimersArmed
    <3>2. order # <<>>
      BY <1>7, <2>2, DueOrder
    <3>3. ready[t] = <<>> => ready'[t] = order
      BY <1>8, <1>11, DrainEmpty
    <3> QED
      BY <1>9, <3>1, <3>2, <3>3
  <2>3. ASSUME NEW d \in byTimer'
        PROVE  /\ chpc'[d] # "out"
               /\ chpc'[d] \in {"send", "receive"} =>
                    /\ tpc'[home[d]] = "sched"
                    /\ ready'[home[d]] # <<>> /\ Head(ready'[home[d]]) = d
    <3>1. d \in Coroutines /\ home[d] = t /\ chpc' = chpc
      BY <1>2, <1>5, <1>13, <2>3 DEF ChTypeOK
    <3> QED
      BY <1>4, <1>12, <2>1, <2>2, <2>3, <3>1
  <2> QED
    BY <2>3 DEF TimedOutRunsNext
<1>19. TimersArmed' /\ SleepsAreDown'
  <2>1. ASSUME NEW d \in timers'
        PROVE  d \in timers /\ d \notin due /\ d \in Coroutines
    BY <1>1, <1>4, <2>1 DEF ChTypeOK
  <2> QED
    BY <1>1, <1>4, <1>5, <1>14, <2>1 DEF TimersArmed, SleepsAreDown
<1> QED
  BY <1>1, <1>5, <1>13, <1>15, <1>16, <1>17, <1>18, <1>19
  DEF ChInv, RoomAfterWait, DataAfterWait

-----------------------------------------------------------------------------
(* The theorems                                                            *)

\* Every step keeps the invariant, a poll under the condition of PollKeeps.
LEMMA ChStep ==
  ASSUME OneEach, ChInv, Next, TimeoutFirst
  PROVE  ChInv'
<1>1. ASSUME NEW c \in Senders, SenderStep(c) PROVE ChInv'
  <2>1. c \in Coroutines /\ Timed \in BOOLEAN
    BY ChannelAssumption
  <2>2. CASE Send(c) \/ SendResumed(c)
    BY <2>2, SendKeeps
  <2>3. CASE SendTimesOut(c)
    BY <2>1, <2>3, ReturnKeeps
  <2>4. CASE \E b \in {FALSE, Timed} : SendBlocks(c, b)
    BY <2>1, <2>4, BlockKeeps
  <2> QED
    BY <1>1, <2>2, <2>3, <2>4 DEF SenderStep
<1>2. ASSUME NEW c \in Receivers, ReceiverStep(c) PROVE ChInv'
  <2>1. c \in Coroutines /\ Timed \in BOOLEAN
    BY ChannelAssumption
  <2>2. CASE Receive(c) \/ ReceiveResumed(c)
    BY <2>2, ReceiveKeeps
  <2>3. CASE ReceiveTimesOut(c)
    BY <2>1, <2>3, ReturnKeeps
  <2>4. CASE \E b \in {FALSE, Timed} : ReceiveBlocks(c, b)
    BY <2>1, <2>4, BlockKeeps
  <2> QED
    BY <1>2, <2>2, <2>3, <2>4 DEF ReceiverStep
<1>3. ASSUME NEW c \in Sleepers, SleeperStep(c) PROVE ChInv'
  <2>1. c \in Coroutines /\ TRUE \in BOOLEAN
    BY ChannelAssumption
  <2>2. CASE Sleep(c)
    BY <2>1, <2>2, BlockKeeps
  <2>3. CASE Awake(c)
    BY <2>1, <2>3, ReturnKeeps
  <2> QED
    BY <1>3, <2>2, <2>3 DEF SleeperStep
<1>4. ASSUME NEW c \in Coroutines, UserStep(c) PROVE ChInv'
  BY <1>4, UserKeeps
<1>5. ASSUME NEW t \in Threads, ThreadStep(t) PROVE ChInv'
  BY <1>5, DispatchKeeps
<1>6. ASSUME NEW t \in Threads, PollTimers(t) PROVE ChInv'
  BY <1>6, PollKeeps
<1> QED
  BY <1>1, <1>2, <1>3, <1>4, <1>5, <1>6 DEF Next

\* Stuttering changes nothing.
LEMMA ChStutter == ASSUME ChInv, UNCHANGED vars PROVE ChInv'
<1>1. /\ UNCHANGED chVars
      /\ UNCHANGED <<running, ready, pending, tpc, wakefd, live, chpc, byTimer>>
  BY DEF vars, chVars
<1>2. ThreadTypeOK' /\ Scheduled' /\ TimedOutRunsNext'
  BY <1>1 DEF ChInv, ChTypeOK, ThreadTypeOK, Scheduled, ReadyOnce,
              TimedOutRunsNext, Executing
<1>3. \A d \in Coroutines : Up(d)' <=> Up(d)
  BY <1>1 DEF Up, Executing
<1> QED
  BY <1>1, <1>2, <1>3, SchedulerKeeps

\* With one sender, one receiver and the one slot the buffer really has, the
\* invariant holds as long as nobody runs between the expiry of a call's
\* timeout and its return (TimeoutFirst), whenever the polls of suspend's loop
\* and of its counter happen.
THEOREM ChInvHolds == ASSUME OneEach PROVE QuietSpec => []ChInv
<1>1. ChInv /\ [Next /\ TimeoutFirst]_vars => ChInv'
  BY ChStep, ChStutter
<1> QED
  BY <1>1, ChInitially, PTL DEF QuietSpec

\* send: whoever was resumed finds room, so that `_buffer.push catch discard'
\* never discards a message; for one sender and one receiver, and if a call
\* whose timeout expired is the next to run.
THEOREM ChNothingDropped == ASSUME OneEach PROVE QuietSpec => []RoomAfterWait
<1>1. ChInv => RoomAfterWait
  BY DEF ChInv
<1> QED
  BY <1>1, ChInvHolds, PTL

\* receive: whoever was resumed finds a message; the branch commented "We
\* should never get here" is not taken; for one sender and one receiver, and if
\* a call whose timeout expired is the next to run.
THEOREM ChNothingMissed == ASSUME OneEach PROVE QuietSpec => []DataAfterWait
<1>1. ChInv => DataAfterWait
  BY DEF ChInv
<1> QED
  BY <1>1, ChInvHolds, PTL

\* A parked end is resumed once by the other end or its timer: nobody is
\* pushed on ready twice, nor while it runs.  For one sender and one receiver,
\* and under TimeoutFirst: the counter poll of suspend can also expire the
\* timeout of an end the other end has just resumed, and pushes it again.
THEOREM ChReadyOnce == ASSUME OneEach PROVE QuietSpec => []ReadyOnce
<1>1. ChInv => ReadyOnce
  BY DEF ChInv, Scheduled
<1> QED
  BY <1>1, ChInvHolds, PTL

\* The time events in use are those of sleeps: calls without a timeout arm
\* none.
OnlySleepsTimed == \A c \in timers : chpc[c] = "sleep"

\* If no call has a timeout, the three properties need no assumption about
\* when a poll happens and whom it wakes.
THEOREM UntimedChannelIsCorrect ==
  ASSUME OneEach, Timed = FALSE
  PROVE  Spec => [](RoomAfterWait /\ DataAfterWait /\ ReadyOnce)
<1>1. Init => ChInv /\ OnlySleepsTimed
  BY ChInitially DEF Init, OnlySleepsTimed
<1>2. ChInv /\ OnlySleepsTimed /\ [Next]_vars => ChInv'
  <2> SUFFICES ASSUME ChInv, OnlySleepsTimed, [Next]_vars PROVE ChInv'
    OBVIOUS
  <2>1. CASE UNCHANGED vars
    BY <2>1, ChStutter
  <2>2. CASE Next
    <3>1. byTimer' \subseteq byTimer \union timers
      BY <2>2 DEF Next, SenderStep, ReceiverStep, SleeperStep, UserStep,
        ThreadStep, PollTimers, Send, SendBlocks, SendResumed, SendTimesOut,
        Receive, ReceiveBlocks, ReceiveResumed, ReceiveTimesOut, Sleep, Awake,
        Park, Unpark, chVars
    <3>2. TimeoutFirst
      BY <3>1 DEF TimeoutFirst, OnlySleepsTimed
    <3> QED
      BY <2>2, <3>2, ChStep
  <2> QED
    BY <2>1, <2>2
<1>3. ChInv /\ OnlySleepsTimed /\ [Next]_vars => OnlySleepsTimed'
  <2> SUFFICES ASSUME ChInv, OnlySleepsTimed, [Next]_vars PROVE OnlySleepsTimed'
    OBVIOUS
  <2>1. chpc \in [Coroutines -> Calls] /\ timers \subseteq Coroutines
    BY DEF ChInv, ChTypeOK
  <2>2. ASSUME timers' \subseteq timers, chpc' = chpc PROVE OnlySleepsTimed'
    BY <2>2 DEF OnlySleepsTimed
  <2>3. ASSUME NEW c \in Coroutines, Unpark(c) PROVE OnlySleepsTimed'
    BY <2>1, <2>3 DEF Unpark, OnlySleepsTimed
  <2>4. ASSUME NEW c \in Coroutines, NEW call \in Calls, NEW b \in BOOLEAN,
               Park(c, call, b), chpc[c] = "out", b = (call = "sleep")
        PROVE  OnlySleepsTimed'
    BY <2>1, <2>4 DEF Park, OnlySleepsTimed
  <2>5. ASSUME NEW c \in Senders, SenderStep(c) PROVE OnlySleepsTimed'
    <3>1. c \in Coroutines /\ "send" \in Calls
      BY ChannelAssumption DEF Calls
    <3>2. \/ timers' = timers /\ chpc' = chpc
          \/ Unpark(c)
          \/ Park(c, "send", FALSE) /\ chpc[c] = "out"
      BY <2>5 DEF SenderStep, Send, SendResumed, SendTimesOut, SendBlocks
    <3> QED
      BY <2>2, <2>3, <2>4, <3>1, <3>2
  <2>6. ASSUME NEW c \in Receivers, ReceiverStep(c) PROVE OnlySleepsTimed'
    <3>1. c \in Coroutines /\ "receive" \in Calls
      BY ChannelAssumption DEF Calls
    <3>2. \/ timers' = timers /\ chpc' = chpc
          \/ Unpark(c)
          \/ Park(c, "receive", FALSE) /\ chpc[c] = "out"
      BY <2>6 DEF ReceiverStep, Receive, ReceiveResumed, ReceiveTimesOut,
                  ReceiveBlocks
    <3> QED
      BY <2>2, <2>3, <2>4, <3>1, <3>2
  <2>7. ASSUME NEW c \in Sleepers, SleeperStep(c) PROVE OnlySleepsTimed'
    <3>1. c \in Coroutines /\ "sleep" \in Calls
      BY ChannelAssumption DEF Calls
    <3>2. Unpark(c) \/ (Park(c, "sleep", TRUE) /\ chpc[c] = "out")
      BY <2>7 DEF SleeperStep, Sleep, Awake
    <3> QED
      BY <2>3, <2>4, <3>1, <3>2
  <2>8. ASSUME NEW c \in Coroutines, UserStep(c) PROVE OnlySleepsTimed'
    BY <2>2, <2>8 DEF UserStep, chVars
  <2>9. ASSUME NEW t \in Threads, ThreadStep(t) \/ PollTimers(t)
        PROVE  OnlySleepsTimed'
    BY <2>2, <2>9 DEF ThreadStep, PollTimers, chVars
  <2>10. CASE UNCHANGED vars
    BY <2>2, <2>10 DEF vars
  <2> QED
    BY <2>5, <2>6, <2>7, <2>8, <2>9, <2>10 DEF Next
<1>4. ChInv => RoomAfterWait /\ DataAfterWait /\ ReadyOnce
  BY DEF ChInv, Scheduled
<1> QED
  BY <1>1, <1>2, <1>3, <1>4, PTL DEF Spec
=============================================================================
