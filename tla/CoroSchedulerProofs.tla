------------------------ MODULE CoroSchedulerProofs ------------------------
(***************************************************************************)
(* Proofs about CoroScheduler for every set of coroutines and every finite *)
(* set of fds: the ready list, the events and the stacks are consistent as *)
(* long as there are no more coroutines than SwitchLimit, the condition    *)
(* under which no fd is reported again before its coroutine ran, and no    *)
(* timer fires for a coroutine that was already resumed (QuietSpec).       *)
(*                                                                         *)
(* The four properties rest on each other: a coroutine that is ready twice *)
(* would run on after its stack went back to the cache, and it is ready    *)
(* once because nothing that could resume it again is left when it is      *)
(* resumed.  SchedInv is their conjunction with what links them.           *)
(***************************************************************************)
EXTENDS CoroScheduler, QueueLemmas, FiniteSetTheorems

TypeOK ==
  /\ running \in Coroutines \union {NULL}
  /\ ready \in Seq(Coroutines)
  /\ counter \in Nat
  /\ spc \in {"run", "enter", "loop"}
  /\ op \in [Coroutines -> {"user", "suspend", "sleep", "timeout", "fdWait"}]
  /\ onFd \in [Coroutines -> Fds \union {NULL}]
  /\ result \in [Coroutines -> {"none", "timer", "AE_TIMEOUT", "event"}]
  /\ timers \in Seq(Coroutines \union Fds)
  /\ expired \in SUBSET (Coroutines \union Fds)
  /\ event \in [Fds -> Coroutines \union {NULL}]
  /\ fdReady \in SUBSET Fds
  /\ live \in SUBSET Coroutines
  /\ mapped \in SUBSET Coroutines
  /\ stacks \in Seq(Coroutines)

\* A coroutine executes user code and has not returned; one that has returned
\* is in no call.
RunnerIsLive == spc = "run" => running \in live /\ op[running] = "user"
DeadAreIdle == \A c \in Coroutines \ live : op[c] = "user"

\* A timer is in the list once, and only a timer in the list expires.
TimersOnce == IsInjective(timers) /\ expired \subseteq ToSet(timers)

\* One coroutine waits for an fd, and an fdWait knows its fd.
OneWaiterPerFd ==
  /\ \A c \in Coroutines : onFd[c] # NULL <=> op[c] = "fdWait"
  /\ \A c, d \in Coroutines : onFd[c] = onFd[d] /\ onFd[c] # NULL => c = d

\* A cached stack is mapped and cached once.
CacheIsMapped == IsInjective(stacks) /\ ToSet(stacks) \subseteq mapped

\* A coroutine resumed for an fd runs before suspend polls again: its turn
\* comes before the counter reaches the limit.
RunsBeforePoll ==
  \A i \in 1 .. Len(ready) :
    op[ready[i]] = "fdWait" => i + counter <= SwitchLimit

SchedInv == /\ TypeOK /\ RunnerIsLive /\ DeadAreIdle /\ TimersOnce
            /\ OneWaiterPerFd /\ CacheIsMapped /\ RunsBeforePoll /\ Quiet
            /\ ReadyOnce /\ NoDanglingEvent /\ VerdictMatches /\ StackSafe

\* The program has at most SwitchLimit coroutines, ready or not.
FewCoroutines == /\ IsFiniteSet(Coroutines)
                 /\ Cardinality(Coroutines) <= SwitchLimit

-----------------------------------------------------------------------------
(* The running coroutine                                                   *)

\* At first main executes and nothing else is anywhere.
LEMMA InitEstablishesInv == Init => SchedInv
<1> SUFFICES ASSUME Init PROVE SchedInv
  OBVIOUS
<1> USE SchedulerAssumption DEF Init
<1>1. TypeOK
  BY EmptyQueue DEF TypeOK
<1>2. /\ ToSet(ready) = {} /\ ToSet(timers) = {} /\ ToSet(stacks) = {}
      /\ IsInjective(ready) /\ IsInjective(timers) /\ IsInjective(stacks)
  BY EmptyQueue
<1>3. RunnerIsLive /\ DeadAreIdle /\ OneWaiterPerFd
  BY DEF RunnerIsLive, DeadAreIdle, OneWaiterPerFd
<1>4. TimersOnce /\ CacheIsMapped /\ Quiet
  BY <1>2 DEF TimersOnce, CacheIsMapped, Quiet
<1>5. RunsBeforePoll
  BY DEF RunsBeforePoll
<1>6. ReadyOnce /\ VerdictMatches /\ StackSafe
  BY <1>2 DEF ReadyOnce, VerdictMatches, StackSafe
<1>7. NoDanglingEvent
  BY <1>2 DEF NoDanglingEvent
<1> QED
  BY <1>1, <1>3, <1>4, <1>5, <1>6, <1>7 DEF SchedInv

\* resume pushes a coroutine that is not in the list, and that no event is to
\* resume.
LEMMA ResumeKeepsReady ==
  ASSUME SchedInv, NEW c \in Coroutines, Resume(c), c \notin ToSet(ready),
         op[c] \in {"user", "suspend", "timeout"},
         UNCHANGED <<counter, op, onFd, timers, event>>
  PROVE  /\ ready' \in Seq(Coroutines)
         /\ result' \in [Coroutines -> {"none", "timer", "AE_TIMEOUT", "event"}]
         /\ ToSet(ready') = ToSet(ready) \union {c}
         /\ IsInjective(ready')
         /\ RunsBeforePoll' /\ VerdictMatches'
<1> USE DEF SchedInv, TypeOK, Resume
<1>1. /\ ready' \in Seq(Coroutines) /\ IsInjective(ready')
      /\ ToSet(ready') = ToSet(ready) \union {c}
  BY PushQueue DEF ReadyOnce
<1>2. result' \in [Coroutines -> {"none", "timer", "AE_TIMEOUT", "event"}]
  OBVIOUS
<1>3. RunsBeforePoll'
  <2>1. /\ Len(ready') = Len(ready) + 1 /\ Len(ready) \in Nat
        /\ \A i \in 1 .. Len(ready) : ready'[i] = ready[i]
        /\ ready'[Len(ready) + 1] = c
    BY AppendProperties, LenProperties
  <2>2. ASSUME NEW i \in 1 .. Len(ready'), op[ready'[i]] = "fdWait"
        PROVE  i + counter <= SwitchLimit
    <3>1. i \in 1 .. Len(ready)
      BY <2>1, <2>2
    <3> QED
      BY <2>1, <2>2, <3>1 DEF RunsBeforePoll
  <2> QED
    BY <2>2 DEF RunsBeforePoll
<1>4. VerdictMatches'
  <2>1. \A d \in ToSet(ready) : d \in Coroutines /\ d # c /\ result'[d] = result[d]
    BY QueueElements
  <2> QED
    BY <1>1, <2>1 DEF VerdictMatches
<1> QED
  BY <1>1, <1>2, <1>3, <1>4

\* yld and resume.
LEMMA ResumePreservesInv ==
  ASSUME SchedInv, NEW c \in Coroutines, Quiet',
         Yield(c) \/ \E d \in Coroutines : ResumeOther(c, d)
  PROVE  SchedInv'
<1> USE DEF SchedInv, TypeOK, loopVars, stackVars
<1>1. PICK d \in Coroutines :
        /\ Resume(d) /\ d \in live /\ d \notin ToSet(ready)
        /\ op[d] \in {"user", "suspend", "timeout"}
        /\ spc' = "enter" \/ (spc' = spc /\ running # d)
  <2>1. CASE Yield(c)
    BY <2>1 DEF Yield, Executing, RunnerIsLive, ReadyOnce
  <2>2. ASSUME NEW d \in Coroutines, ResumeOther(c, d)
        PROVE  /\ Resume(d) /\ d \in live /\ d \notin ToSet(ready)
               /\ op[d] \in {"user", "suspend", "timeout"}
               /\ spc' = spc /\ running # d
    BY <2>2 DEF ResumeOther, Executing, RunnerIsLive, DeadAreIdle
  <2> QED
    BY <2>1, <2>2
<1>2. UNCHANGED <<running, counter, op, onFd, timers, expired, event, fdReady,
                  live, mapped, stacks>>
  BY DEF Yield, ResumeOther
<1>3. /\ ready' \in Seq(Coroutines)
      /\ result' \in [Coroutines -> {"none", "timer", "AE_TIMEOUT", "event"}]
      /\ ToSet(ready') = ToSet(ready) \union {d}
      /\ IsInjective(ready')
      /\ RunsBeforePoll' /\ VerdictMatches'
  BY <1>1, <1>2, ResumeKeepsReady
<1>4. TypeOK'
  BY <1>1, <1>2, <1>3
<1>5. RunnerIsLive' /\ DeadAreIdle' /\ TimersOnce' /\ OneWaiterPerFd' /\ CacheIsMapped'
  BY <1>1, <1>2 DEF RunnerIsLive, DeadAreIdle, TimersOnce, OneWaiterPerFd,
     CacheIsMapped
<1>6. ReadyOnce'
  BY <1>1, <1>2, <1>3 DEF ReadyOnce
<1>7. NoDanglingEvent'
  BY <1>2 DEF NoDanglingEvent
<1>8. StackSafe'
  BY <1>1, <1>2, <1>3 DEF StackSafe
<1> QED
  BY <1>3, <1>4, <1>5, <1>6, <1>7, <1>8

\* What a blocking call leaves alone: the ready list and the stacks.
LEMMA BlockPreservesReady ==
  ASSUME SchedInv, NEW c \in Coroutines, Executing(c),
         NEW call, op' = [op EXCEPT ![c] = call], spc' = "enter",
         UNCHANGED <<running, ready, counter, result, stackVars>>
  PROVE  RunnerIsLive' /\ DeadAreIdle' /\ CacheIsMapped' /\ RunsBeforePoll'
         /\ ReadyOnce' /\ StackSafe' /\ c \in live /\ c \notin ToSet(ready)
<1> USE DEF SchedInv, TypeOK, stackVars, Executing
<1>1. c \in live /\ c \notin ToSet(ready) /\ c = running
  BY DEF RunnerIsLive, ReadyOnce
<1>2. RunnerIsLive' /\ DeadAreIdle' /\ CacheIsMapped' /\ ReadyOnce'
  BY <1>1 DEF RunnerIsLive, DeadAreIdle, CacheIsMapped, ReadyOnce
<1>3. RunsBeforePoll'
  <2>1. \A i \in 1 .. Len(ready) : ready[i] \in Coroutines /\ ready[i] # c
    BY <1>1, QueueElements
  <2> QED
    BY <2>1 DEF RunsBeforePoll
<1>4. StackSafe'
  BY DEF StackSafe
<1> QED
  BY <1>1, <1>2, <1>3, <1>4

\* suspend, sleep and timeout.
LEMMA TimedBlockPreservesInv ==
  ASSUME SchedInv, NEW c \in Coroutines, Quiet',
         Suspend(c) \/ Sleep(c) \/ Timeout(c)
  PROVE  SchedInv'
<1> USE SchedulerAssumption DEF SchedInv, TypeOK, stackVars, loopVars
<1>1. PICK call \in {"suspend", "sleep", "timeout"} :
        /\ Executing(c) /\ op' = [op EXCEPT ![c] = call] /\ spc' = "enter"
        /\ timers' = IF call = "suspend" THEN timers ELSE <<c>> \o timers
  BY DEF Suspend, Sleep, Timeout, TimedBlock, Block, AeCreateTimeEvent,
         AeAddTimeEvent
<1>2. UNCHANGED <<running, ready, counter, onFd, result, expired, event, fdReady,
                  live, mapped, stacks>>
  BY DEF Suspend, Sleep, Timeout, TimedBlock
<1>3. /\ RunnerIsLive' /\ DeadAreIdle' /\ CacheIsMapped' /\ RunsBeforePoll'
      /\ ReadyOnce' /\ StackSafe' /\ c \in live /\ c \notin ToSet(ready)
  BY <1>1, <1>2, BlockPreservesReady
<1>4. op[c] = "user" /\ c \notin ToSet(timers) /\ c \notin Fds
  BY <1>1 DEF Executing, RunnerIsLive, NoDanglingEvent
<1>5. /\ timers' \in Seq(Coroutines \union Fds) /\ IsInjective(timers')
      /\ ToSet(timers') = IF call = "suspend" THEN ToSet(timers)
                          ELSE ToSet(timers) \union {c}
  <2>1. /\ <<c>> \o timers \in Seq(Coroutines \union Fds)
        /\ ToSet(<<c>> \o timers) = ToSet(timers) \union {c}
        /\ IsInjective(<<c>> \o timers)
    BY <1>4, PushFront DEF TimersOnce
  <2> QED
    BY <1>1, <2>1 DEF TimersOnce
<1>6. TypeOK'
  BY <1>1, <1>2, <1>5
<1>7. TimersOnce' /\ OneWaiterPerFd'
  BY <1>1, <1>2, <1>4, <1>5 DEF TimersOnce, OneWaiterPerFd
<1>8. NoDanglingEvent'
  BY <1>1, <1>2, <1>3, <1>4, <1>5 DEF NoDanglingEvent
<1>9. VerdictMatches'
  <2>1. \A d \in ToSet(ready) : d \in Coroutines /\ d # c /\ op'[d] = op[d]
                                /\ onFd[d] # c
    BY <1>1, <1>3, <1>4, QueueElements
  <2> QED
    BY <1>2, <1>5, <2>1 DEF VerdictMatches
<1> QED
  BY <1>3, <1>6, <1>7, <1>8, <1>9

\* fdWaitRead and fdWaitWrite, on an fd nobody waits for.
LEMMA FdWaitPreservesInv ==
  ASSUME SchedInv, NEW c \in Coroutines, Quiet', NEW f \in Fds,
         NEW b \in BOOLEAN, FdWait(c, f, b)
  PROVE  SchedInv'
<1> USE SchedulerAssumption DEF SchedInv, TypeOK, stackVars, loopVars
<1>1. /\ Executing(c) /\ op' = [op EXCEPT ![c] = "fdWait"] /\ spc' = "enter"
      /\ timers' = IF b THEN <<f>> \o timers ELSE timers
      /\ event' = [event EXCEPT ![f] = c] /\ onFd' = [onFd EXCEPT ![c] = f]
      /\ \A d \in Coroutines : onFd[d] # f
  BY DEF FdWait, Block, AeCreateFileEvent, AeAddTimeEvent
<1>2. UNCHANGED <<running, ready, counter, result, expired, fdReady,
                  live, mapped, stacks>>
  BY DEF FdWait
<1>3. /\ RunnerIsLive' /\ DeadAreIdle' /\ CacheIsMapped' /\ RunsBeforePoll'
      /\ ReadyOnce' /\ StackSafe' /\ c \in live /\ c \notin ToSet(ready)
  BY <1>1, <1>2, BlockPreservesReady
<1>4. op[c] = "user" /\ event[f] = NULL /\ f \notin ToSet(timers)
  BY <1>1 DEF Executing, RunnerIsLive, NoDanglingEvent
<1>5. /\ timers' \in Seq(Coroutines \union Fds) /\ IsInjective(timers')
      /\ ToSet(timers') = IF b THEN ToSet(timers) \union {f} ELSE ToSet(timers)
  <2>1. /\ <<f>> \o timers \in Seq(Coroutines \union Fds)
        /\ ToSet(<<f>> \o timers) = ToSet(timers) \union {f}
        /\ IsInjective(<<f>> \o timers)
    BY <1>4, PushFront DEF TimersOnce
  <2> QED
    BY <1>1, <2>1 DEF TimersOnce
<1>6. TypeOK'
  BY <1>1, <1>2, <1>5
<1>7. TimersOnce'
  BY <1>2, <1>5 DEF TimersOnce
<1>8. OneWaiterPerFd'
  BY <1>1 DEF OneWaiterPerFd
<1>9. NoDanglingEvent'
  <2>1. ASSUME NEW g \in Fds, event'[g] # NULL
        PROVE  /\ event'[g] \in live' /\ op'[event'[g]] = "fdWait"
               /\ onFd'[event'[g]] = g
    <3>1. CASE g = f
      BY <1>1, <1>2, <1>3, <3>1
    <3>2. CASE g # f
      BY <1>1, <1>2, <1>4, <2>1, <3>2 DEF NoDanglingEvent
    <3> QED
      BY <3>1, <3>2
  <2>2. ASSUME NEW e \in ToSet(timers')
        PROVE  IF e \in Fds THEN event'[e] # NULL
               ELSE e \in live' /\ op'[e] \in {"sleep", "timeout"}
    <3>1. CASE e = f
      BY <1>1, <3>1
    <3>2. CASE e # f
      BY <1>1, <1>2, <1>4, <1>5, <2>2, <3>2 DEF NoDanglingEvent
    <3> QED
      BY <3>1, <3>2
  <2> QED
    BY <2>1, <2>2 DEF NoDanglingEvent
<1>10. VerdictMatches'
  <2>1. \A d \in ToSet(ready) :
          /\ d \in Coroutines /\ d # c /\ op'[d] = op[d] /\ onFd'[d] = onFd[d]
          /\ onFd[d] # f /\ d # f
    BY <1>1, <1>3, QueueElements
  <2>2. \A d \in ToSet(ready) : op[d] = "fdWait" =>
          onFd[d] \in Fds /\ event'[onFd[d]] = event[onFd[d]]
    BY <1>1, <2>1 DEF OneWaiterPerFd
  <2> QED
    BY <1>2, <1>5, <2>1, <2>2 DEF VerdictMatches
<1> QED
  BY <1>3, <1>6, <1>7, <1>8, <1>9, <1>10

\* async: the stack allocStack returns belongs to nobody.
LEMMA AsyncPreservesInv ==
  ASSUME SchedInv, NEW c \in Coroutines, NEW d \in Coroutines, Async(c, d),
         Quiet'
  PROVE  SchedInv'
<1> USE DEF SchedInv, TypeOK, stackVars, loopVars
<1>1. /\ spc = "run" /\ running = c /\ AllocStack(d) /\ Resume(c)
      /\ live' = live \union {d} /\ running' = d
      /\ UNCHANGED <<counter, spc, op, onFd, timers, expired, event, fdReady>>
  BY DEF Async, Executing
<1>2. /\ c \in live /\ op[c] = "user" /\ c \notin ToSet(ready)
  BY <1>1 DEF RunnerIsLive, ReadyOnce
<1>3. /\ stacks' \in Seq(Coroutines) /\ IsInjective(stacks')
      /\ mapped' \subseteq Coroutines
      /\ d \notin live /\ d \in mapped' /\ d \notin ToSet(stacks')
      /\ ToSet(stacks') \subseteq ToSet(stacks) /\ mapped \subseteq mapped'
  <2>1. CASE /\ stacks # <<>> /\ d = Head(stacks) /\ stacks' = Tail(stacks)
             /\ UNCHANGED mapped
    <3>1. /\ d \in ToSet(stacks) /\ stacks' \in Seq(Coroutines)
          /\ IsInjective(stacks') /\ ToSet(stacks') = ToSet(stacks) \ {d}
      BY <2>1, PopQueue DEF CacheIsMapped
    <3> QED
      BY <2>1, <3>1 DEF CacheIsMapped, StackSafe
  <2>2. CASE /\ stacks = <<>> /\ d \notin mapped /\ mapped' = mapped \union {d}
             /\ UNCHANGED stacks
    <3>1. ToSet(stacks) = {}
      BY <2>2, EmptyQueue
    <3> QED
      BY <2>2, <3>1 DEF CacheIsMapped, StackSafe
  <2> QED
    BY <1>1, <2>1, <2>2 DEF AllocStack
<1>4. /\ ready' \in Seq(Coroutines)
      /\ result' \in [Coroutines -> {"none", "timer", "AE_TIMEOUT", "event"}]
      /\ ToSet(ready') = ToSet(ready) \union {c}
      /\ IsInjective(ready')
      /\ RunsBeforePoll' /\ VerdictMatches'
  BY <1>1, <1>2, ResumeKeepsReady
<1>5. d \notin ToSet(ready') /\ op[d] = "user"
  BY <1>2, <1>3, <1>4 DEF StackSafe, DeadAreIdle
<1>6. TypeOK'
  BY <1>1, <1>3, <1>4
<1>7. RunnerIsLive' /\ DeadAreIdle' /\ ReadyOnce'
  BY <1>1, <1>4, <1>5 DEF RunnerIsLive, DeadAreIdle, ReadyOnce
<1>8. TimersOnce' /\ OneWaiterPerFd' /\ CacheIsMapped'
  BY <1>1, <1>3 DEF TimersOnce, OneWaiterPerFd, CacheIsMapped
<1>9. NoDanglingEvent'
  BY <1>1 DEF NoDanglingEvent
<1>10. StackSafe'
  BY <1>1, <1>2, <1>3, <1>4 DEF StackSafe
<1> QED
  BY <1>4, <1>6, <1>7, <1>8, <1>9, <1>10

\* epilogue: the stack that goes back to the cache is in no list, and neither
\* it nor an event of it is known to the loop; what freeStack unmaps instead
\* at the limit was nobody's.
LEMMA EpiloguePreservesInv ==
  ASSUME SchedInv, NEW c \in Coroutines, Epilogue(c), Quiet'
  PROVE  SchedInv'
<1> USE DEF SchedInv, TypeOK, stackVars, loopVars
<1>1. /\ spc = "run" /\ running = c /\ FreeStack(c)
      /\ live' = live \ {c} /\ running' = NULL /\ spc' = "enter"
      /\ UNCHANGED <<ready, counter, op, onFd, result, timers, expired, event,
                     fdReady>>
  BY DEF Epilogue, Executing
<1>2. /\ c \in live /\ op[c] = "user" /\ c \notin ToSet(ready)
      /\ c \in mapped /\ c \notin ToSet(stacks)
  BY <1>1 DEF RunnerIsLive, ReadyOnce, StackSafe
<1>3. /\ stacks' \in Seq(Coroutines) /\ IsInjective(stacks')
      /\ mapped' \subseteq Coroutines
      /\ ToSet(stacks') \subseteq mapped'
      /\ \A d \in live' : d \in mapped' /\ d \notin ToSet(stacks')
  <2>0. \A d \in live : d \in mapped /\ d \notin ToSet(stacks)
    BY DEF StackSafe
  <2>1. CASE /\ stacks # <<>> /\ stacks' = Tail(stacks)
             /\ mapped' = mapped \ {Head(stacks)}
    <3>1. /\ Head(stacks) \in ToSet(stacks) /\ stacks' \in Seq(Coroutines)
          /\ IsInjective(stacks') /\ ToSet(stacks') = ToSet(stacks) \ {Head(stacks)}
      BY <2>1, PopQueue DEF CacheIsMapped
    <3> QED
      BY <1>1, <2>0, <2>1, <3>1 DEF CacheIsMapped
  <2>2. CASE stacks' = Append(stacks, c) /\ UNCHANGED mapped
    <3>1. /\ stacks' \in Seq(Coroutines) /\ IsInjective(stacks')
          /\ ToSet(stacks') = ToSet(stacks) \union {c}
      BY <1>2, <2>2, PushQueue DEF CacheIsMapped
    <3> QED
      BY <1>1, <1>2, <2>0, <2>2, <3>1 DEF CacheIsMapped
  <2> QED
    BY <1>1, <2>1, <2>2 DEF FreeStack
<1>4. TypeOK'
  BY <1>1, <1>3
<1>5. RunnerIsLive' /\ DeadAreIdle' /\ ReadyOnce' /\ RunsBeforePoll'
  BY <1>1, <1>2 DEF RunnerIsLive, DeadAreIdle, ReadyOnce, RunsBeforePoll
<1>6. TimersOnce' /\ OneWaiterPerFd' /\ CacheIsMapped'
  BY <1>1, <1>3 DEF TimersOnce, OneWaiterPerFd, CacheIsMapped
<1>7. NoDanglingEvent' /\ VerdictMatches'
  BY <1>1, <1>2 DEF NoDanglingEvent, VerdictMatches
<1>8. StackSafe'
  BY <1>1, <1>2, <1>3 DEF StackSafe
<1> QED
  BY <1>3, <1>4, <1>5, <1>6, <1>7, <1>8

\* Reading an fd, and what the environment does, leaves the lists alone.
LEMMA QuietStepPreservesInv ==
  ASSUME SchedInv, Quiet',
         \/ \E c \in Coroutines, f \in Fds : UseFd(c, f)
         \/ \E f \in Fds : Arrive(f)
         \/ \E e \in Coroutines \union Fds : Expire(e)
         \/ EnterLoop
         \/ UNCHANGED vars
  PROVE  SchedInv'
<1> USE DEF SchedInv, TypeOK, stackVars, loopVars
<1>1. /\ UNCHANGED <<running, ready, counter, op, onFd, result, timers, event,
                     live, mapped, stacks>>
      /\ spc' = spc \/ spc' = "loop"
  BY DEF UseFd, Arrive, Expire, EnterLoop, vars
<1>2. /\ fdReady' \in SUBSET Fds /\ expired' \in SUBSET (Coroutines \union Fds)
      /\ expired' \subseteq ToSet(timers)
  BY DEF UseFd, Arrive, Expire, EnterLoop, vars, TimersOnce
<1>3. TypeOK'
  BY <1>1, <1>2
<1>4. RunnerIsLive' /\ DeadAreIdle' /\ ReadyOnce' /\ RunsBeforePoll' /\ TimersOnce'
  BY <1>1, <1>2 DEF RunnerIsLive, DeadAreIdle, ReadyOnce, RunsBeforePoll, TimersOnce
<1>5. OneWaiterPerFd' /\ CacheIsMapped' /\ StackSafe'
  BY <1>1 DEF OneWaiterPerFd, CacheIsMapped, StackSafe
<1>6. NoDanglingEvent' /\ VerdictMatches'
  BY <1>1 DEF NoDanglingEvent, VerdictMatches
<1> QED
  BY <1>3, <1>4, <1>5, <1>6

-----------------------------------------------------------------------------
(* The loop                                                                *)

\* The head of ready runs: the rest of its call removes its events, so nothing
\* that could resume it stays behind.
LEMMA DispatchPreservesInv ==
  ASSUME SchedInv, Dispatch, Quiet'
  PROVE  SchedInv'
<1> USE SchedulerAssumption DEF SchedInv, TypeOK, stackVars
<1>1. PICK c : c = Head(ready)
  OBVIOUS
<1>2. /\ ready # <<>> /\ ready' = Tail(ready)
      /\ counter' = counter + 1 /\ running' = c /\ spc' = "run"
      /\ event' = [g \in Fds |-> IF g = onFd[c] THEN NULL ELSE event[g]]
      /\ timers' = Only(timers, ToSet(timers) \ {c}) /\ expired' = expired \ {c}
      /\ op' = [op EXCEPT ![c] = "user"] /\ onFd' = [onFd EXCEPT ![c] = NULL]
      /\ result' = [result EXCEPT ![c] = "none"]
      /\ UNCHANGED <<fdReady, live, mapped, stacks>>
  BY <1>1 DEF Dispatch, AeDeleteFileEvent, AeDeleteTimeEvent
<1>3. /\ c \in Coroutines /\ c \in ToSet(ready)
      /\ ready' \in Seq(Coroutines) /\ IsInjective(ready')
      /\ ToSet(ready') = ToSet(ready) \ {c}
  BY <1>1, <1>2, PopQueue DEF ReadyOnce
<1>4. /\ timers' \in Seq(Coroutines \union Fds) /\ IsInjective(timers')
      /\ ToSet(timers') = ToSet(timers) \ {c}
  BY <1>2, OnlyProperties DEF TimersOnce
<1>5. c \in live
  BY <1>3 DEF StackSafe
<1>6. TypeOK'
  <2>1. event' \in [Fds -> Coroutines \union {NULL}]
    BY <1>2
  <2> QED
    BY <1>2, <1>3, <1>4, <2>1
<1>7. RunnerIsLive' /\ DeadAreIdle' /\ ReadyOnce'
  BY <1>2, <1>3, <1>5 DEF RunnerIsLive, DeadAreIdle, ReadyOnce
<1>8. TimersOnce' /\ OneWaiterPerFd' /\ CacheIsMapped' /\ StackSafe'
  BY <1>2, <1>3, <1>4 DEF TimersOnce, OneWaiterPerFd, CacheIsMapped, StackSafe
<1>9. RunsBeforePoll'
  <2>1. /\ Len(ready') = Len(ready) - 1 /\ Len(ready) \in Nat
        /\ \A i \in 1 .. Len(ready') : ready'[i] = ready[i + 1]
    BY <1>2, HeadTailProperties, LenProperties
  <2>2. ASSUME NEW i \in 1 .. Len(ready'), op'[ready'[i]] = "fdWait"
        PROVE  i + counter' <= SwitchLimit
    <3>1. /\ i + 1 \in 1 .. Len(ready) /\ ready'[i] = ready[i + 1]
      BY <2>1
    <3>2. ready[i + 1] \in Coroutines /\ op[ready[i + 1]] = "fdWait"
      BY <1>2, <2>2, <3>1, ElementOfSeq
    <3> QED
      BY <1>2, <3>1, <3>2 DEF RunsBeforePoll
  <2> QED
    BY <2>2 DEF RunsBeforePoll
<1>10. onFd[c] \notin ToSet(timers)
  <2>1. CASE op[c] = "fdWait"
    BY <1>3, <2>1 DEF VerdictMatches
  <2>2. CASE op[c] # "fdWait"
    <3>1. onFd[c] = NULL /\ ToSet(timers) \subseteq Coroutines \union Fds
      BY <1>3, <2>2, QueueElements DEF OneWaiterPerFd
    <3> QED
      BY <3>1
  <2> QED
    BY <2>1, <2>2
<1>11. NoDanglingEvent'
  <2>1. ASSUME NEW g \in Fds, event'[g] # NULL
        PROVE  /\ event'[g] \in live' /\ op'[event'[g]] = "fdWait"
               /\ onFd'[event'[g]] = g
    <3>1. event'[g] = event[g] /\ g # onFd[c]
      BY <1>2, <2>1
    <3>2. event[g] \in live /\ op[event[g]] = "fdWait" /\ onFd[event[g]] = g
      BY <2>1, <3>1 DEF NoDanglingEvent
    <3> QED
      BY <1>2, <3>1, <3>2
  <2>2. ASSUME NEW e \in ToSet(timers')
        PROVE  IF e \in Fds THEN event'[e] # NULL
               ELSE e \in live' /\ op'[e] \in {"sleep", "timeout"}
    <3>1. e \in ToSet(timers) /\ e # c /\ e # onFd[c]
      BY <1>4, <1>10
    <3>2. e \in Coroutines \union Fds
      BY <3>1, QueueElements
    <3> QED
      BY <1>2, <3>1, <3>2 DEF NoDanglingEvent
  <2> QED
    BY <2>1, <2>2 DEF NoDanglingEvent
<1>12. VerdictMatches'
  <2>1. ASSUME NEW d \in ToSet(ready')
        PROVE  /\ d \in ToSet(ready) /\ d \in Coroutines /\ d # c
               /\ op'[d] = op[d] /\ onFd'[d] = onFd[d] /\ result'[d] = result[d]
    BY <1>2, <1>3, QueueElements
  <2>2. ASSUME NEW d \in ToSet(ready'), op[d] = "fdWait"
        PROVE  onFd[d] \in Fds /\ event'[onFd[d]] = event[onFd[d]]
    <3>1. onFd[d] \in Fds /\ onFd[d] # onFd[c]
      BY <2>1, <2>2, <1>3 DEF OneWaiterPerFd
    <3> QED
      BY <1>2, <3>1
  <2> QED
    BY <1>4, <2>1, <2>2 DEF VerdictMatches
<1> QED
  BY <1>6, <1>7, <1>8, <1>9, <1>11, <1>12

\* A function on 1 .. n is a list of length n.
LEMMA FunctionIsList ==
  ASSUME NEW S, NEW n \in Nat, NEW f \in [1 .. n -> S]
  PROVE  /\ f \in Seq(S) /\ Len(f) = n
         /\ \A x : x \in ToSet(f) <=> \E i \in 1 .. n : x = f[i]
         /\ (\A i, j \in 1 .. n : f[i] = f[j] => i = j) => IsInjective(f)
<1>1. f \in Seq(S)
  BY SeqDef
<1>2. Len(f) = n
  OBVIOUS
<1> QED
  BY <1>1, <1>2, QueueElements

\* A list without repetitions is no longer than the set of its elements.
LEMMA QueueFits ==
  ASSUME NEW S, IsFiniteSet(S), NEW s \in Seq(S), IsInjective(s)
  PROVE  Len(s) \in Nat /\ Len(s) <= Cardinality(S)
<1>1. Len(s) \in Nat /\ s \in [1 .. Len(s) -> S]
  BY LenProperties
<1>2. s \in Injection(1 .. Len(s), S)
  BY <1>1, QueueElements DEF Injection, IsInjective
<1>3. Cardinality(1 .. Len(s)) = Len(s)
  BY <1>1, FS_Interval
<1> QED
  BY <1>1, <1>2, <1>3, FS_Injection

\* The coroutines epoll's events resume: one per event, and each is in the call
\* that registered it.
LEMMA ServedProperties ==
  ASSUME SchedInv, NEW fired \in SetToSeqs(Reported), NEW served
  PROVE  served = [i \in DOMAIN fired |-> event[fired[i]]] =>
         /\ served \in Seq(Coroutines) /\ IsInjective(served)
         /\ \A c \in ToSet(served) :
              onFd[c] \in Reported /\ event[onFd[c]] = c /\ op[c] = "fdWait"
<1> DEFINE Serves(n) ==
             /\ served \in [1 .. n -> Coroutines]
             /\ \A i, j \in 1 .. n : served[i] = served[j] => i = j
             /\ \A i \in 1 .. n : /\ onFd[served[i]] \in Reported
                                 /\ event[onFd[served[i]]] = served[i]
                                 /\ op[served[i]] = "fdWait"
<1>1. ASSUME served = [i \in DOMAIN fired |-> event[fired[i]]]
      PROVE  \E n \in Nat : Serves(n)
  <2> USE SchedulerAssumption DEF SchedInv, TypeOK
  <2>1. PICK n : n = Cardinality(Reported)
    OBVIOUS
  <2>2. n \in Nat
    <3>1. Reported \in SUBSET Fds
      BY DEF Reported
    <3> QED
      BY <2>1, <3>1, FS_Subset, FS_CardinalityType
  <2>3. /\ fired \in [1 .. n -> Reported] /\ DOMAIN fired = 1 .. n
        /\ \A i, j \in 1 .. n : i # j => fired[i] # fired[j]
    BY <2>1 DEF SetToSeqs
  <2>4. \A i \in 1 .. n :
          /\ fired[i] \in Reported /\ fired[i] \in Fds
          /\ served[i] = event[fired[i]] /\ served[i] \in Coroutines
          /\ op[served[i]] = "fdWait" /\ onFd[served[i]] = fired[i]
    BY <1>1, <2>3 DEF Reported, NoDanglingEvent
  <2>5. served \in [1 .. n -> Coroutines]
    BY <1>1, <2>3, <2>4
  <2>6. \A i, j \in 1 .. n : served[i] = served[j] => i = j
    BY <2>3, <2>4
  <2>7. \A i \in 1 .. n : /\ onFd[served[i]] \in Reported
                          /\ event[onFd[served[i]]] = served[i]
                          /\ op[served[i]] = "fdWait"
    BY <2>4
  <2>8. Serves(n)
    BY <2>5, <2>6, <2>7
  <2> HIDE DEF Serves
  <2> QED
    BY <2>2, <2>8
<1>2. ASSUME NEW n \in Nat, Serves(n)
      PROVE  /\ served \in Seq(Coroutines) /\ IsInjective(served)
             /\ \A c \in ToSet(served) :
                  onFd[c] \in Reported /\ event[onFd[c]] = c /\ op[c] = "fdWait"
  <2>1. /\ served \in Seq(Coroutines) /\ IsInjective(served)
        /\ \A x : x \in ToSet(served) <=> \E i \in 1 .. n : x = served[i]
    BY <1>2, FunctionIsList
  <2> QED
    BY <1>2, <2>1
<1> QED
  BY <1>1, <1>2

\* What is due: the timers that expired and whose file event did not fire, each
\* once, and the coroutines they resume.
LEMMA DueProperties ==
  ASSUME SchedInv
  PROVE  /\ Unfired \in Seq(Coroutines \union Fds) /\ IsInjective(Unfired)
         /\ ToSet(Unfired) = ToSet(timers) \ Reported
         /\ Due \in Seq(Coroutines \union Fds) /\ IsInjective(Due)
         /\ ToSet(Due) = (ToSet(timers) \ Reported) \intersect expired
<1> USE DEF SchedInv, TypeOK
<1>1. /\ Unfired \in Seq(Coroutines \union Fds) /\ IsInjective(Unfired)
      /\ ToSet(Unfired) = ToSet(timers) \ Reported
  BY OnlyProperties DEF Unfired, TimersOnce
<1>2. /\ Due \in Seq(Coroutines \union Fds) /\ IsInjective(Due)
      /\ ToSet(Due) = ToSet(Unfired) \intersect expired
  BY <1>1, OnlyProperties DEF Due
<1> QED
  BY <1>1, <1>2

\* The coroutines processTimeEvents resumes: one per timer that is due, and each
\* is in the call that set the timer.
LEMMA TimedOutProperties ==
  ASSUME SchedInv
  PROVE  /\ TimedOut \in Seq(Coroutines) /\ IsInjective(TimedOut)
         /\ \A c \in ToSet(TimedOut) :
              \/ c \in ToSet(Due) /\ op[c] \in {"sleep", "timeout"}
              \/ onFd[c] \in ToSet(Due) /\ event[onFd[c]] = c /\ op[c] = "fdWait"
         /\ \A c \in Coroutines : c \in ToSet(Due) => c \in ToSet(TimedOut)
         /\ \A f \in Fds : f \in ToSet(Due) => event[f] \in ToSet(TimedOut)
<1> USE SchedulerAssumption DEF SchedInv, TypeOK
<1>1. PICK due : due = Due
  OBVIOUS
<1>2. PICK n : n = Len(due)
  OBVIOUS
<1>3. /\ due \in Seq(Coroutines \union Fds) /\ IsInjective(due)
      /\ ToSet(due) \subseteq ToSet(timers)
  BY <1>1, DueProperties
<1>4. n \in Nat /\ DOMAIN due = 1 .. n
      /\ \A i, j \in 1 .. n : due[i] = due[j] => i = j
  BY <1>2, <1>3, LenProperties, QueueElements
<1>5. PICK out : out = [i \in 1 .. n |-> IF due[i] \in Fds THEN event[due[i]] ELSE due[i]]
  OBVIOUS
<1>6. TimedOut = out
  BY <1>1, <1>4, <1>5 DEF TimedOut
<1>7. ASSUME NEW i \in 1 .. n
      PROVE  /\ due[i] \in ToSet(due) /\ out[i] \in Coroutines
             /\ IF due[i] \in Fds
                THEN /\ out[i] = event[due[i]] /\ onFd[out[i]] = due[i]
                     /\ op[out[i]] = "fdWait"
                ELSE /\ out[i] = due[i] /\ op[out[i]] \in {"sleep", "timeout"}
  <2>1. due[i] \in ToSet(due) /\ due[i] \in ToSet(timers) /\ due[i] \in Coroutines \union Fds
    BY <1>2, <1>3, QueueElements
  <2>2. CASE due[i] \in Fds
    <3>1. event[due[i]] # NULL /\ out[i] = event[due[i]]
      BY <1>5, <2>1, <2>2 DEF NoDanglingEvent
    <3> QED
      BY <2>1, <2>2, <3>1 DEF NoDanglingEvent
  <2>3. CASE due[i] \notin Fds
    <3>1. out[i] = due[i] /\ op[due[i]] \in {"sleep", "timeout"}
      BY <1>5, <2>1, <2>3 DEF NoDanglingEvent
    <3> QED
      BY <2>1, <2>3, <3>1
  <2> QED
    BY <2>2, <2>3
<1>8. out \in Seq(Coroutines) /\ Len(out) = n
  <2>1. out \in [1 .. n -> Coroutines]
    BY <1>5, <1>7
  <2> QED
    BY <1>4, <2>1, LenProperties
<1>9. IsInjective(out)
  <2>1. ASSUME NEW i \in 1 .. n, NEW j \in 1 .. n, out[i] = out[j] PROVE i = j
    <3>1. due[i] = due[j]
      BY <1>7, <2>1
    <3> QED
      BY <1>4, <3>1
  <2> QED
    BY <1>8, <2>1, QueueElements
<1>10. ASSUME NEW c \in ToSet(out)
       PROVE  \/ c \in ToSet(due) /\ op[c] \in {"sleep", "timeout"}
              \/ onFd[c] \in ToSet(due) /\ event[onFd[c]] = c /\ op[c] = "fdWait"
  <2>1. PICK i \in 1 .. n : c = out[i]
    BY <1>8, QueueElements
  <2> QED
    BY <1>7, <2>1
<1>11. ASSUME NEW e \in ToSet(due)
       PROVE  (IF e \in Fds THEN event[e] ELSE e) \in ToSet(out)
  <2>1. PICK i \in 1 .. n : e = due[i]
    BY <1>2, <1>3, QueueElements
  <2>2. out[i] \in ToSet(out)
    BY <1>8, QueueElements
  <2> QED
    BY <1>5, <2>1, <2>2
<1> QED
  BY <1>1, <1>6, <1>8, <1>9, <1>10, <1>11

\* aeProcessEvents resumes nobody twice, if it reports no fd whose coroutine is
\* still in the list.
LEMMA PollPreservesInv ==
  ASSUME FewCoroutines, SchedInv, AeProcessEvents, Quiet',
         counter' = 0, spc' = "loop",
         UNCHANGED <<running, op, onFd, fdReady, stackVars>>,
         \A f \in Reported : event[f] \notin ToSet(ready)
  PROVE  SchedInv'
<1> USE SchedulerAssumption DEF SchedInv, TypeOK, stackVars
<1> DEFINE out == TimedOut
           late == ToSet(Due)
           Verdict(served, c) ==
             CASE c \in late -> "timer"
               [] c \in ToSet(out) \ late -> "AE_TIMEOUT"
               [] c \in ToSet(served) \ ToSet(out) -> "event"
               [] OTHER -> result[c]
           Processed(served) ==
             /\ ready' = ready \o served \o out
             /\ result' = [c \in Coroutines |-> Verdict(served, c)]
             /\ timers' = Only(Unfired, ToSet(Unfired) \ expired)
             /\ event' = [f \in Fds |-> IF f \in late THEN NULL ELSE event[f]]
             /\ expired' = {}
<1>1. PICK served :
        /\ \E fired \in SetToSeqs(Reported) :
             served = [i \in DOMAIN fired |-> event[fired[i]]]
        /\ Processed(served)
  <2>1. PICK fired \in SetToSeqs(Reported) :
          Processed([i \in DOMAIN fired |-> event[fired[i]]])
    BY Zenon DEF AeProcessEvents
  <2> HIDE DEF Processed
  <2> QED
    BY <2>1
<1> HIDE DEF out, late
<1>2. /\ served \in Seq(Coroutines) /\ IsInjective(served)
      /\ \A c \in ToSet(served) :
           onFd[c] \in Reported /\ event[onFd[c]] = c /\ op[c] = "fdWait"
  BY <1>1, ServedProperties
<1>3. /\ out \in Seq(Coroutines) /\ IsInjective(out)
      /\ \A c \in ToSet(out) :
           \/ c \in late /\ op[c] \in {"sleep", "timeout"}
           \/ onFd[c] \in late /\ event[onFd[c]] = c /\ op[c] = "fdWait"
      /\ \A c \in Coroutines : c \in late => c \in ToSet(out)
  BY TimedOutProperties DEF out, late
<1>4. late = (ToSet(timers) \ Reported) \intersect expired
  BY DueProperties DEF late
<1>5. ToSet(ready) \subseteq Coroutines /\ ToSet(served) \subseteq Coroutines
      /\ ToSet(out) \subseteq Coroutines
  BY <1>2, <1>3, QueueElements
<1>6. ToSet(ready) \intersect ToSet(served) = {}
  BY <1>2
<1>7. ToSet(ready) \intersect ToSet(out) = {}
  BY <1>3, <1>4 DEF Quiet, VerdictMatches
<1>8. ToSet(served) \intersect ToSet(out) = {}
  BY <1>2, <1>3, <1>4
<1>9. /\ ready' \in Seq(Coroutines) /\ IsInjective(ready')
       /\ ToSet(ready') = ToSet(ready) \union ToSet(served) \union ToSet(out)
  <2>1. PICK q : q = ready \o served
    OBVIOUS
  <2>2. /\ q \in Seq(Coroutines) /\ IsInjective(q)
        /\ ToSet(q) = ToSet(ready) \union ToSet(served)
    BY <1>2, <1>6, <2>1, DrainQueue DEF ReadyOnce
  <2>3. ready' = q \o out
    BY <1>1, <2>1
  <2>4. ToSet(q) \intersect ToSet(out) = {}
    BY <1>7, <1>8, <2>2
  <2> QED
    BY <1>3, <2>2, <2>3, <2>4, DrainQueue
<1>10. /\ timers' \in Seq(Coroutines \union Fds) /\ IsInjective(timers')
       /\ ToSet(timers') = (ToSet(timers) \ Reported) \ expired
  <2>1. /\ Unfired \in Seq(Coroutines \union Fds) /\ IsInjective(Unfired)
        /\ ToSet(Unfired) = ToSet(timers) \ Reported
    BY DueProperties
  <2>2. PICK left : left = Unfired
    OBVIOUS
  <2>3. /\ timers' \in Seq(Coroutines \union Fds) /\ IsInjective(timers')
        /\ ToSet(timers') = ToSet(left) \intersect (ToSet(left) \ expired)
    BY <1>1, <2>1, <2>2, OnlyProperties
  <2> QED
    BY <2>1, <2>2, <2>3
<1>11. /\ result' \in [Coroutines -> {"none", "timer", "AE_TIMEOUT", "event"}]
       /\ \A c \in Coroutines :
            /\ c \in late => result'[c] = "timer"
            /\ c \in ToSet(out) \ late => result'[c] = "AE_TIMEOUT"
            /\ c \in ToSet(served) \ (ToSet(out) \union late) => result'[c] = "event"
            /\ c \notin ToSet(served) \union ToSet(out) \union late =>
                 result'[c] = result[c]
  <2>1. ASSUME NEW c \in Coroutines
        PROVE  /\ c \in late => result'[c] = "timer"
               /\ c \in ToSet(out) \ late => result'[c] = "AE_TIMEOUT"
               /\ c \in ToSet(served) \ (ToSet(out) \union late) =>
                    result'[c] = "event"
               /\ c \notin ToSet(served) \union ToSet(out) \union late =>
                    result'[c] = result[c]
    <3>1. c \in late => c \in ToSet(out)
      BY <1>3
    <3>2. result'[c] = Verdict(served, c)
      BY <1>1
    <3> QED
      BY <3>1, <3>2
  <2>2. ASSUME NEW c \in Coroutines
        PROVE  result'[c] \in {"none", "timer", "AE_TIMEOUT", "event"}
    BY <2>1
  <2>3. result' \in [Coroutines -> {"none", "timer", "AE_TIMEOUT", "event"}]
    <3>1. result' = [c \in Coroutines |-> Verdict(served, c)]
      BY <1>1
    <3> HIDE DEF Verdict
    <3> QED
      BY <2>2, <3>1
  <2> QED
    BY <2>1, <2>3
<1>12. /\ event' \in [Fds -> Coroutines \union {NULL}]
       /\ \A f \in Fds : event'[f] = IF f \in late THEN NULL ELSE event[f]
  BY <1>1
<1>13. TypeOK'
  <2>1. expired' = {}
    BY <1>1
  <2> QED
    BY <1>9, <1>10, <1>11, <1>12, <2>1
<1>14. RunnerIsLive' /\ DeadAreIdle' /\ OneWaiterPerFd' /\ CacheIsMapped'
  BY DEF RunnerIsLive, DeadAreIdle, OneWaiterPerFd, CacheIsMapped
<1>15. TimersOnce'
  BY <1>1, <1>10 DEF TimersOnce
<1>16. RunsBeforePoll'
  <2>1. Len(ready') \in Nat /\ Len(ready') <= Cardinality(Coroutines)
    BY <1>9, QueueFits DEF FewCoroutines
  <2>2. Cardinality(Coroutines) \in Nat /\ Cardinality(Coroutines) <= SwitchLimit
    BY FS_CardinalityType DEF FewCoroutines
  <2>3. \A i \in 1 .. Len(ready') : i + counter' <= SwitchLimit
    BY <2>1, <2>2
  <2> QED
    BY <2>3 DEF RunsBeforePoll
<1>17. ReadyOnce'
  BY <1>9 DEF ReadyOnce
<1>18. NoDanglingEvent'
  <2>1. ASSUME NEW f \in Fds, event'[f] # NULL
        PROVE  event'[f] \in live' /\ op'[event'[f]] = "fdWait" /\ onFd'[event'[f]] = f
    BY <1>12, <2>1 DEF NoDanglingEvent
  <2>2. ASSUME NEW e \in ToSet(timers')
        PROVE  IF e \in Fds THEN event'[e] # NULL
                            ELSE e \in live' /\ op'[e] \in {"sleep", "timeout"}
    <3>1. e \in ToSet(timers) /\ e \notin late
      BY <1>4, <1>10
    <3> QED
      BY <1>12, <3>1 DEF NoDanglingEvent
  <2> QED
    BY <2>1, <2>2 DEF NoDanglingEvent
<1>19. VerdictMatches'
  <2> SUFFICES ASSUME NEW c \in ToSet(ready')
               PROVE  /\ op[c] = "sleep" => result'[c] = "timer" /\ c \notin ToSet(timers')
                      /\ op[c] = "fdWait" =>
                           /\ onFd[c] \notin ToSet(timers')
                           /\ \/ result'[c] = "event" /\ event'[onFd[c]] = c
                              \/ result'[c] = "AE_TIMEOUT" /\ event'[onFd[c]] = NULL
    BY DEF VerdictMatches
  <2>0. c \in Coroutines /\ (op[c] = "fdWait" => onFd[c] \in Fds)
    BY <1>5, <1>9 DEF OneWaiterPerFd
  <2>1. CASE c \in ToSet(ready)
    <3>1. c \notin ToSet(served) \union ToSet(out) \union late
      BY <1>3, <1>6, <1>7, <2>0, <2>1
    <3>2. result'[c] = result[c]
      BY <1>11, <2>0, <3>1
    <3>3. CASE op[c] = "sleep"
      BY <1>10, <2>1, <3>2, <3>3 DEF VerdictMatches
    <3>4. CASE op[c] = "fdWait"
      <4>1. onFd[c] \notin ToSet(timers)
        BY <2>1, <3>4 DEF VerdictMatches
      <4>2. event'[onFd[c]] = event[onFd[c]]
        BY <1>4, <1>12, <2>0, <3>4, <4>1
      <4> QED
        BY <1>10, <2>1, <3>2, <3>4, <4>1, <4>2 DEF VerdictMatches
    <3> QED
      BY <3>3, <3>4
  <2>2. CASE c \in ToSet(served)
    <3>1. c \notin ToSet(out) \union late
      BY <1>3, <1>8, <2>0, <2>2
    <3>2. result'[c] = "event"
      BY <1>11, <2>0, <2>2, <3>1
    <3>3. op[c] = "fdWait" /\ onFd[c] \in Reported /\ event[onFd[c]] = c
      BY <1>2, <2>2
    <3>4. event'[onFd[c]] = c
      BY <1>4, <1>12, <2>0, <3>3
    <3> QED
      BY <1>10, <3>2, <3>3, <3>4
  <2>3. CASE c \in ToSet(out)
    <3>1. CASE c \in late /\ op[c] \in {"sleep", "timeout"}
      BY <1>4, <1>10, <1>11, <2>0, <3>1
    <3>2. CASE onFd[c] \in late /\ event[onFd[c]] = c /\ op[c] = "fdWait"
      <4>1. c \notin late
        BY <1>4, <2>0, <3>2 DEF NoDanglingEvent
      <4>2. result'[c] = "AE_TIMEOUT"
        BY <1>11, <2>0, <2>3, <4>1
      <4>3. event'[onFd[c]] = NULL
        BY <1>12, <2>0, <3>2
      <4> QED
        BY <1>4, <1>10, <3>2, <4>2, <4>3
    <3> QED
      BY <1>3, <2>3, <3>1, <3>2
  <2> QED
    BY <1>9, <2>1, <2>2, <2>3
<1>20. StackSafe'
  <2>1. \A c \in ToSet(served) \union ToSet(out) : c \in live
    <3>1. ASSUME NEW c \in ToSet(served) \union ToSet(out) PROVE c \in live
      <4>1. c \in Coroutines /\ (op[c] = "fdWait" => onFd[c] \in Fds)
        BY <1>5 DEF OneWaiterPerFd
      <4>2. CASE op[c] = "fdWait"
        BY <1>2, <1>3, <4>1, <4>2 DEF NoDanglingEvent
      <4>3. CASE op[c] # "fdWait"
        BY <1>2, <1>3, <4>1, <4>3 DEF DeadAreIdle
      <4> QED
        BY <4>2, <4>3
    <3> QED
      BY <3>1
  <2> QED
    BY <1>9, <2>1 DEF StackSafe
<1> QED
  BY <1>13, <1>14, <1>15, <1>16, <1>17, <1>18, <1>19, <1>20

\* suspend polls while coroutines are ready only when none of them was resumed
\* for an fd, and its loop only when nobody is ready.
LEMMA PollsPreserveInv ==
  ASSUME FewCoroutines, SchedInv, Quiet', EnterPolls \/ PollBlocks
  PROVE  SchedInv'
<1>1. CASE EnterPolls
  <2>1. ASSUME NEW f \in Reported PROVE event[f] \notin ToSet(ready)
    <3> SUFFICES ASSUME event[f] \in ToSet(ready) PROVE FALSE
      OBVIOUS
    <3>1. op[event[f]] = "fdWait"
      BY DEF Reported, SchedInv, NoDanglingEvent
    <3>2. PICK i \in 1 .. Len(ready) : event[f] = ready[i]
      BY QueueElements DEF SchedInv, TypeOK
    <3>3. i + counter <= SwitchLimit
      BY <3>1, <3>2 DEF SchedInv, RunsBeforePoll
    <3>4. counter >= SwitchLimit /\ counter \in Nat /\ i \in Nat \ {0}
      BY <1>1, LenProperties DEF EnterPolls, SchedInv, TypeOK
    <3> QED
      BY <3>3, <3>4, SchedulerAssumption
  <2> QED
    BY <1>1, <2>1, PollPreservesInv DEF EnterPolls
<1>2. CASE PollBlocks
  <2>1. ToSet(ready) = {}
    BY <1>2, EmptyQueue DEF PollBlocks
  <2>2. spc' = "loop"
    BY <1>2 DEF PollBlocks
  <2> QED
    BY <1>2, <2>1, <2>2, PollPreservesInv DEF PollBlocks
<1> QED
  BY <1>1, <1>2

-----------------------------------------------------------------------------
(* The theorems                                                            *)

\* Every step keeps the invariant, if no timer fires for a resumed coroutine.
LEMMA NextPreservesInv ==
  ASSUME FewCoroutines, SchedInv, [Next /\ Quiet']_vars
  PROVE  SchedInv'
<1>1. CASE UNCHANGED vars
  <2>1. Quiet'
    BY <1>1 DEF vars, Quiet, SchedInv
  <2> QED
    BY <1>1, <2>1, QuietStepPreservesInv
<1>2. CASE Next /\ Quiet'
  <2>1. ASSUME NEW c \in Coroutines, UserStep(c) PROVE SchedInv'
    BY <1>2, <2>1, ResumePreservesInv, TimedBlockPreservesInv,
       FdWaitPreservesInv, AsyncPreservesInv, EpiloguePreservesInv,
       QuietStepPreservesInv
    DEF UserStep
  <2>2. ASSUME LoopStep PROVE SchedInv'
    BY <1>2, <2>2, QuietStepPreservesInv, PollsPreserveInv,
       DispatchPreservesInv
    DEF LoopStep
  <2> QED
    BY <1>2, <2>1, <2>2, QuietStepPreservesInv DEF Next
<1> QED
  BY <1>1, <1>2

\* The ready list, the timers, the file events, the switch counter and the
\* stacks fit together in every state of suspend, resume, sleep, timeout,
\* fdWait, async and the event loop.
THEOREM SchedulerInvariance ==
  ASSUME FewCoroutines
  PROVE  QuietSpec => []SchedInv
<1>1. SchedInv /\ [Next /\ Quiet']_vars => SchedInv'
  BY NextPreservesInv
<1> QED
  BY <1>1, InitEstablishesInv, PTL DEF QuietSpec

\* List.push never meets a coroutine that is in a list: no coroutine is ready
\* twice, or ready while it runs.
THEOREM ReadyAlwaysOnce ==
  ASSUME FewCoroutines
  PROVE  QuietSpec => []ReadyOnce
<1>1. SchedInv => ReadyOnce
  BY DEF SchedInv
<1> QED
  BY <1>1, SchedulerInvariance, PTL

\* The event loop never holds an event or a timer of a coroutine that returned
\* or left the call that registered it.
THEOREM EventsNeverDangle ==
  ASSUME FewCoroutines
  PROVE  QuietSpec => []NoDanglingEvent
<1>1. SchedInv => NoDanglingEvent
  BY DEF SchedInv
<1> QED
  BY <1>1, SchedulerInvariance, PTL

\* sleep and fdWait return what really happened, and nothing is left that could
\* resume their caller a second time.
THEOREM VerdictAlwaysMatches ==
  ASSUME FewCoroutines
  PROVE  QuietSpec => []VerdictMatches
<1>1. SchedInv => VerdictMatches
  BY DEF SchedInv
<1> QED
  BY <1>1, SchedulerInvariance, PTL

\* No coroutine runs, or will, on a stack that is unmapped or in the cache.
THEOREM StackAlwaysSafe ==
  ASSUME FewCoroutines
  PROVE  QuietSpec => []StackSafe
<1>1. SchedInv => StackSafe
  BY DEF SchedInv
<1> QED
  BY <1>1, SchedulerInvariance, PTL
=============================================================================
