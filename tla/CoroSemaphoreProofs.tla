------------------------ MODULE CoroSemaphoreProofs ------------------------
(***************************************************************************)
(* Proofs about CoroSemaphore for every set of coroutines, every finite    *)
(* set of threads and every initial count.                                 *)
(*                                                                         *)
(* The argument has three layers.  QueueInv says which list each coroutine *)
(* is in, and is inductive on its own.  CountInv adds what the counter     *)
(* means: permits are conserved, and the coroutines between acquire's load *)
(* and its fetchSub are on different threads.  StrandInv, with the history *)
(* variable of CoroSemaphoreHistory, adds for whom the free permits are.   *)
(***************************************************************************)
EXTENDS CoroSemaphoreHistory, QueueLemmas, FiniteSetTheorems

SemPC == {"out", "load", "enq", "susp", "parked", "sub", "cas", "held",
          "pop", "wake", "signal"}
TypeOK ==
  /\ ThreadTypeOK
  /\ count \in Int
  /\ semWaiters \in Seq(Coroutines)
  /\ spc \in [Coroutines -> SemPC]
  /\ seen \in [Coroutines -> Int]
  /\ popped \in [Coroutines -> Coroutines \union {NULL}]

\* A coroutine is in at most one of the lists that share Coroutine.link, and
\* at most once; the waiter a release has popped is in none of them.
Popped == {popped[c] : c \in {d \in Coroutines : spc[d] = "wake"}}
SingleQueueMembership ==
  /\ IsInjective(semWaiters)
  /\ Popped \intersect ToSet(semWaiters) = {}
  /\ \A t \in Threads :
       /\ IsInjective(ready[t])
       /\ IsInjective(pending[t])
       /\ ToSet(ready[t]) \intersect ToSet(pending[t]) = {}
       /\ \A c \in ToSet(ready[t]) \union ToSet(pending[t]) :
            home[c] = t /\ c \notin ToSet(semWaiters) \union Popped

\* Only a coroutine in acquire's slow path waits or is popped; one that
\* executes is in no list of its scheduler, unless a release on another thread
\* found it on its way to suspend, and returns from suspend only when it no
\* longer waits; a waiter is popped by one release; a coroutine without a stack
\* is nowhere.
WaitersWait ==
  \A c \in ToSet(semWaiters) \union Popped : spc[c] \in {"susp", "parked"}
ExecutingIsUnlinked ==
  \A c \in Coroutines : Executing(c) =>
    /\ c \notin ToSet(ready[home[c]])
    /\ spc[c] # "susp" => c \notin ToSet(pending[home[c]]) \union Popped
    /\ spc[c] = "parked" => c \notin ToSet(semWaiters)
OneReleasePerWaiter ==
  /\ \A c \in Coroutines : spc[c] \in {"wake", "signal"} => popped[c] # NULL
  /\ \A c, d \in Coroutines :
       spc[c] = "wake" /\ spc[d] = "wake" /\ popped[c] = popped[d] => c = d
DeadAreUnlinked ==
  \A c \in Coroutines \ live :
    /\ spc[c] = "out" /\ ~Executing(c)
    /\ \A t \in Threads : c \notin ToSet(ready[t]) \union ToSet(pending[t])
QueueInv == /\ TypeOK /\ SingleQueueMembership
            /\ WaitersWait /\ ExecutingIsUnlinked
            /\ OneReleasePerWaiter /\ DeadAreUnlinked

\* Nothing interrupts a coroutine that has seen a permit: it still executes when
\* it reaches its fetchSub or compareAndSwap.  So the threads that are between
\* the two, Takers, are as many as the coroutines are, and each of them can take
\* the count one further down.
SeenRuns == \A c \in Coroutines : spc[c] \in {"sub", "cas"} => Executing(c)
SeenIsFree == \A c \in Coroutines : spc[c] = "cas" => seen[c] >= 1
Takers == {t \in Threads : \E c \in Coroutines : home[c] = t /\ spc[c] = "sub"}
RoomForTakers == count - Cardinality(Takers) >= 1 - Cardinality(Threads)
CountInv == /\ SeenRuns /\ SeenIsFree
            /\ RoomForTakers
            /\ IsFiniteSet(Holders) /\ PermitsConserved

\* NoStrandedWaiter already while a coroutine is on its way to the list: the
\* release that raises the count then must find it there, or the race is on.
StrandInv ==
  /\ IsFiniteSet(Owed)
  /\ ~raced /\ (semWaiters # <<>> \/ \E d \in Coroutines : spc[d] = "enq")
       => count <= Cardinality(Owed)

-----------------------------------------------------------------------------
(* QueueInv                                                                *)

\* The schedulers start with their main coroutine and empty lists, and no
\* coroutine is in a method of the semaphore.
LEMMA InitEstablishesQueueInv == Init => QueueInv
<1> SUFFICES ASSUME Init PROVE QueueInv
  OBVIOUS
<1> USE HomeAssumption, MainAssumption, NullAssumption, PermitsAssumption
    DEF Init, ThreadInit
<1>1. TypeOK
  BY EmptyQueue DEF TypeOK, ThreadTypeOK, SemPC
<1>2. Popped = {} /\ ToSet(semWaiters) = {}
  BY EmptyQueue DEF Popped
<1>3. SingleQueueMembership
  BY <1>2, EmptyQueue DEF SingleQueueMembership
<1>4. WaitersWait
  BY <1>2 DEF WaitersWait
<1>5. ExecutingIsUnlinked /\ DeadAreUnlinked
  <2>1. \A t \in Threads : ToSet(ready[t]) = {} /\ ToSet(pending[t]) = {}
    BY EmptyQueue
  <2> QED
    BY <1>2, <2>1 DEF ExecutingIsUnlinked, DeadAreUnlinked, Executing
<1>6. OneReleasePerWaiter
  BY DEF OneReleasePerWaiter
<1> QED
  BY <1>1, <1>3, <1>4, <1>5, <1>6 DEF QueueInv

\* The steps that only load or change the count leave every list alone.
CountStep(c) == \/ AcquireSees(c) \/ AcquireBlocks(c) \/ AcquireResumed(c)
                \/ AcquireTakes(c)
                \/ TryLoad(c) \/ TryTakes(c) \/ TryFails(c)
                \/ Release(c) \/ ReleaseNoWaiter(c)
LEMMA CountStepPreservesQueueInv ==
  ASSUME QueueInv, NEW c \in Coroutines, CountStep(c)
  PROVE  QueueInv'
<1> USE HomeAssumption, NullAssumption
    DEF QueueInv, TypeOK, ThreadTypeOK, SemPC, threadVars
<1>1. /\ Executing(c) /\ spc[c] \notin {"susp", "wake", "signal"}
      /\ spc'[c] \notin {"susp", "parked", "wake", "signal"}
      /\ \A d \in Coroutines \ {c} : spc'[d] = spc[d]
      /\ UNCHANGED <<running, ready, pending, tpc, wakefd, live, semWaiters, popped>>
  BY DEF CountStep, At, AcquireSees, AcquireBlocks, AcquireResumed, AcquireTakes,
         TryLoad, TryTakes, TryFails, Release, ReleaseNoWaiter
<1>2. TypeOK'
  <2>1. count' \in Int /\ seen' \in [Coroutines -> Int]
    BY DEF CountStep, At, AcquireSees, AcquireBlocks, AcquireResumed,
           AcquireTakes, TryLoad, TryTakes, TryFails, Release, ReleaseNoWaiter
  <2>2. spc' \in [Coroutines -> SemPC]
    BY DEF CountStep, At, AcquireSees, AcquireBlocks, AcquireResumed,
           AcquireTakes, TryLoad, TryTakes, TryFails, Release, ReleaseNoWaiter
  <2> QED
    BY <1>1, <2>1, <2>2
<1>3. Popped' = Popped
  <2>1. \A d \in Coroutines : spc'[d] = "wake" <=> spc[d] = "wake"
    BY <1>1
  <2> QED
    BY <1>1, <2>1 DEF Popped
<1>4. c \notin ToSet(semWaiters) \union Popped
  BY <1>1 DEF WaitersWait, ExecutingIsUnlinked
<1>5. SingleQueueMembership'
  BY <1>1, <1>3 DEF SingleQueueMembership
<1>6. WaitersWait'
  <2>1. ToSet(semWaiters) \subseteq Coroutines /\ Popped \subseteq Coroutines
    BY QueueElements DEF Popped, OneReleasePerWaiter
  <2> QED
    BY <1>1, <1>3, <1>4, <2>1 DEF WaitersWait
<1>7. ExecutingIsUnlinked'
  BY <1>1, <1>3 DEF ExecutingIsUnlinked, Executing
<1>8. OneReleasePerWaiter'
  BY <1>1 DEF OneReleasePerWaiter
<1>9. DeadAreUnlinked'
  BY <1>1 DEF DeadAreUnlinked, Executing
<1> QED
  BY <1>2, <1>5, <1>6, <1>7, <1>8, <1>9

\* acquire pushes on _waiters a coroutine that is in no list, and suspends it.
LEMMA WaitPreservesQueueInv ==
  ASSUME QueueInv, NEW c \in Coroutines, AcquireEnqueue(c) \/ AcquireSuspend(c)
  PROVE  QueueInv'
<1> USE HomeAssumption, NullAssumption
    DEF QueueInv, TypeOK, ThreadTypeOK, SemPC, At, threadVars
<1>1. CASE AcquireEnqueue(c)
  <2> USE <1>1 DEF AcquireEnqueue
  <2>1. /\ c \notin ToSet(semWaiters) \union Popped
        /\ \A t \in Threads : c \notin ToSet(ready[t]) \union ToSet(pending[t])
    BY DEF WaitersWait, ExecutingIsUnlinked, SingleQueueMembership
  <2>2. /\ semWaiters' \in Seq(Coroutines) /\ IsInjective(semWaiters')
        /\ ToSet(semWaiters') = ToSet(semWaiters) \union {c}
    BY <2>1, PushQueue DEF SingleQueueMembership
  <2>3. Popped' = Popped
    BY DEF Popped
  <2>4. TypeOK'
    BY <2>2
  <2>5. SingleQueueMembership'
    BY <2>1, <2>2, <2>3 DEF SingleQueueMembership
  <2>6. WaitersWait'
    BY <2>2, <2>3 DEF WaitersWait
  <2>7. ExecutingIsUnlinked'
    BY <2>1, <2>2, <2>3 DEF ExecutingIsUnlinked, Executing
  <2>8. OneReleasePerWaiter' /\ DeadAreUnlinked'
    BY DEF OneReleasePerWaiter, DeadAreUnlinked, Executing
  <2> QED
    BY <2>4, <2>5, <2>6, <2>7, <2>8
<1>2. CASE AcquireSuspend(c)
  <2> USE <1>2 DEF AcquireSuspend, Suspend
  <2>1. Popped' = Popped
    BY DEF Popped
  <2>2. TypeOK'
    OBVIOUS
  <2>3. SingleQueueMembership' /\ WaitersWait'
    BY <2>1 DEF SingleQueueMembership, WaitersWait
  <2>4. ExecutingIsUnlinked'
    BY <2>1 DEF ExecutingIsUnlinked, Executing
  <2>5. OneReleasePerWaiter' /\ DeadAreUnlinked'
    BY DEF OneReleasePerWaiter, DeadAreUnlinked, Executing
  <2> QED
    BY <2>2, <2>3, <2>4, <2>5
<1> QED
  BY <1>1, <1>2

\* release pops the head of _waiters: it leaves one list for no list.
LEMMA PopPreservesQueueInv ==
  ASSUME QueueInv, NEW c \in Coroutines, ReleasePop(c)
  PROVE  QueueInv'
<1> USE HomeAssumption, NullAssumption
    DEF QueueInv, TypeOK, ThreadTypeOK, SemPC, At, threadVars, ReleasePop
<1>0. PICK w : w = Head(semWaiters)
  OBVIOUS
<1>1. /\ w \in Coroutines /\ w \in ToSet(semWaiters)
      /\ Tail(semWaiters) \in Seq(Coroutines) /\ IsInjective(Tail(semWaiters))
      /\ ToSet(semWaiters') = ToSet(semWaiters) \ {w}
  BY <1>0, PopQueue DEF SingleQueueMembership
<1>2. spc[w] \in {"susp", "parked"} /\ w # c
  BY <1>1 DEF WaitersWait
<1>3. Popped' = Popped \union {w}
  BY <1>0, <1>1 DEF Popped
<1>4. TypeOK'
  BY <1>0, <1>1
<1>5. SingleQueueMembership'
  BY <1>1, <1>3 DEF SingleQueueMembership
<1>6. WaitersWait'
  BY <1>1, <1>2, <1>3 DEF WaitersWait
<1>7. ExecutingIsUnlinked'
  BY <1>1, <1>2, <1>3 DEF ExecutingIsUnlinked, Executing, SingleQueueMembership
<1>8. OneReleasePerWaiter'
  <2>1. \A d \in Coroutines : spc[d] = "wake" => popped[d] # w
    BY <1>1 DEF SingleQueueMembership, Popped
  <2>2. /\ popped'[c] = w /\ w # NULL
        /\ \A d \in Coroutines \ {c} : spc'[d] = spc[d] /\ popped'[d] = popped[d]
    BY <1>0, <1>1
  <2> QED
    BY <2>1, <2>2 DEF OneReleasePerWaiter
<1>9. DeadAreUnlinked'
  BY DEF DeadAreUnlinked, Executing
<1> QED
  BY <1>4, <1>5, <1>6, <1>7, <1>8, <1>9
\* The waiter release popped enters a list of its own scheduler, and leaves
\* release's hands, in one step.
LEMMA ResumePreservesQueueInv ==
  ASSUME QueueInv, NEW c \in Coroutines, ReleaseHere(c) \/ ReleaseThere(c)
  PROVE  QueueInv'
<1> DEFINE w == popped[c]
<1> USE HomeAssumption, NullAssumption
    DEF QueueInv, TypeOK, ThreadTypeOK, SemPC, At
<1>1. /\ w \in Coroutines /\ w \in Popped /\ home[w] \in Threads
      /\ spc[w] \in {"susp", "parked"} /\ w # c
      /\ w \notin ToSet(semWaiters)
      /\ \A t \in Threads : w \notin ToSet(ready[t]) \union ToSet(pending[t])
      /\ w \in live
  <2>1. spc[c] = "wake"
    BY DEF ReleaseHere, ReleaseThere
  <2> QED
    BY <2>1 DEF OneReleasePerWaiter, Popped, WaitersWait, SingleQueueMembership,
                DeadAreUnlinked
<1>2. Popped' = Popped \ {w}
  <2>1. /\ spc[c] = "wake" /\ spc'[c] # "wake"
        /\ \A d \in Coroutines \ {c} : spc'[d] = spc[d] /\ popped'[d] = popped[d]
    BY DEF ReleaseHere, ReleaseThere
  <2>2. \A d \in Coroutines \ {c} : spc[d] = "wake" => popped[d] # w
    BY <2>1 DEF OneReleasePerWaiter
  <2>3. /\ \A x : x \in Popped <=>
               \E d \in Coroutines : spc[d] = "wake" /\ popped[d] = x
        /\ \A x : x \in Popped' <=>
               \E d \in Coroutines : spc'[d] = "wake" /\ popped'[d] = x
    BY DEF Popped
  <2>4. \A x : x \in Popped' <=> x \in Popped \ {w}
    <3>1. ASSUME NEW x, x \in Popped' PROVE x \in Popped /\ x # w
      <4>1. PICK d \in Coroutines : spc'[d] = "wake" /\ popped'[d] = x
        BY <2>3, <3>1
      <4>2. d # c /\ spc[d] = "wake" /\ popped[d] = x
        BY <2>1, <4>1
      <4> QED
        BY <2>2, <2>3, <4>2
    <3>2. ASSUME NEW x, x \in Popped, x # w PROVE x \in Popped'
      <4>1. PICK d \in Coroutines : spc[d] = "wake" /\ popped[d] = x
        BY <2>3, <3>2
      <4>2. d # c
        BY <3>2, <4>1
      <4> QED
        BY <2>1, <2>3, <4>1, <4>2
    <3> QED
      BY <3>1, <3>2
  <2> QED
    BY <2>4
<1>3. CASE ReleaseHere(c)
  <2> USE <1>3 DEF ReleaseHere, ResumeHere, Resume
  <2>1. /\ ready'[home[w]] \in Seq(Coroutines)
        /\ IsInjective(ready'[home[w]])
        /\ ToSet(ready'[home[w]]) = ToSet(ready[home[w]]) \union {w}
        /\ \A t \in Threads \ {home[w]} : ready'[t] = ready[t]
    BY <1>1, PushQueue DEF SingleQueueMembership
  <2> HIDE DEF w
  <2>2. TypeOK'
    BY <1>1, <2>1 DEF w
  <2>3. SingleQueueMembership'
    BY <1>1, <1>2, <2>1 DEF SingleQueueMembership
  <2>4. WaitersWait'
    BY <1>1, <1>2 DEF WaitersWait
  <2>5. ExecutingIsUnlinked'
    BY <1>1, <1>2, <2>1 DEF ExecutingIsUnlinked, Executing, w
  <2>6. OneReleasePerWaiter'
    BY DEF OneReleasePerWaiter
  <2>7. DeadAreUnlinked'
    BY <1>1, <2>1 DEF DeadAreUnlinked, Executing
  <2> QED
    BY <2>2, <2>3, <2>4, <2>5, <2>6, <2>7
<1>4. CASE ReleaseThere(c)
  <2> USE <1>4 DEF ReleaseThere, ResumeThere, PushPending
  <2>1. /\ pending'[home[w]] \in Seq(Coroutines)
        /\ IsInjective(pending'[home[w]])
        /\ ToSet(pending'[home[w]]) = ToSet(pending[home[w]]) \union {w}
        /\ \A t \in Threads \ {home[w]} : pending'[t] = pending[t]
    BY <1>1, PushQueue DEF SingleQueueMembership
  <2> HIDE DEF w
  <2>2. TypeOK'
    BY <1>1, <2>1 DEF w
  <2>3. SingleQueueMembership'
    BY <1>1, <1>2, <2>1 DEF SingleQueueMembership
  <2>4. WaitersWait'
    BY <1>1, <1>2 DEF WaitersWait
  <2>5. ExecutingIsUnlinked'
    <3>1. /\ spc[c] = "wake" /\ spc' = [spc EXCEPT ![c] = "signal"]
          /\ UNCHANGED <<running, ready, tpc, semWaiters>>
      OBVIOUS
    <3>2. ASSUME NEW d \in Coroutines, Executing(d)'
          PROVE  /\ Executing(d)
                 /\ spc'[d] # "susp" /\ d # c => spc[d] # "susp" /\ d # w
      <4>1. Executing(d)
        BY <3>1, <3>2 DEF Executing
      <4>2. d = w /\ spc[d] # "susp" => FALSE
        BY <1>1, <4>1 DEF ExecutingIsUnlinked
      <4> QED
        BY <3>1, <4>1, <4>2
    <3>3. \A t \in Threads : ToSet(pending'[t]) \subseteq ToSet(pending[t]) \union {w}
      BY <2>1
    <3> QED
      BY <1>1, <1>2, <3>1, <3>2, <3>3 DEF ExecutingIsUnlinked
  <2>6. OneReleasePerWaiter'
    BY DEF OneReleasePerWaiter
  <2>7. DeadAreUnlinked'
    BY <1>1, <2>1 DEF DeadAreUnlinked, Executing
  <2> QED
    BY <2>2, <2>3, <2>4, <2>5, <2>6, <2>7
<1> QED
  BY <1>3, <1>4

\* aeWakeup touches no list.
LEMMA SignalPreservesQueueInv ==
  ASSUME QueueInv, NEW c \in Coroutines, ReleaseSignal(c)
  PROVE  QueueInv'
<1> USE HomeAssumption, NullAssumption
    DEF QueueInv, TypeOK, ThreadTypeOK, SemPC, At, AeWakeup,
        ReleaseSignal, WakeThere
<1>1. Popped' = Popped
  BY DEF Popped
<1>2. TypeOK'
  OBVIOUS
<1>3. SingleQueueMembership'
  BY <1>1 DEF SingleQueueMembership
<1>4. WaitersWait'
  BY <1>1 DEF WaitersWait
<1>5. ExecutingIsUnlinked'
  BY <1>1 DEF ExecutingIsUnlinked, Executing
<1>6. OneReleasePerWaiter'
  BY DEF OneReleasePerWaiter
<1>7. DeadAreUnlinked'
  BY DEF DeadAreUnlinked, Executing
<1> QED
  BY <1>2, <1>3, <1>4, <1>5, <1>6, <1>7

-----------------------------------------------------------------------------
\* yld, async and epilogue move the running coroutine to ready, or drop it,
\* from a state in which it is in no list.
LEMMA UserPreservesQueueInv ==
  ASSUME QueueInv, NEW c \in Coroutines, UserStep(c)
  PROVE  QueueInv'
<1> USE HomeAssumption, NullAssumption
    DEF QueueInv, TypeOK, ThreadTypeOK, SemPC, semVars
<1>1. Popped' = Popped /\ UNCHANGED semVars
  BY DEF UserStep, Popped
<1>2. Executing(c) /\ spc[c] \in {"out", "held"} /\ home[c] \in Threads
  BY DEF UserStep, Yield, Async, Epilogue
<1>3. /\ c \notin ToSet(semWaiters) \union Popped
      /\ c \notin ToSet(ready[home[c]]) \union ToSet(pending[home[c]])
  BY <1>2 DEF WaitersWait, ExecutingIsUnlinked
<1>4. WaitersWait'
  BY <1>1 DEF WaitersWait
<1>5. OneReleasePerWaiter'
  BY <1>1 DEF OneReleasePerWaiter
<1>6. ASSUME Resume(c)
      PROVE  /\ ready' \in [Threads -> Seq(Coroutines)]
             /\ IsInjective(ready'[home[c]])
             /\ ToSet(ready'[home[c]]) = ToSet(ready[home[c]]) \union {c}
             /\ \A t \in Threads \ {home[c]} : ready'[t] = ready[t]
  <2>1. /\ Append(ready[home[c]], c) \in Seq(Coroutines)
        /\ ToSet(Append(ready[home[c]], c)) = ToSet(ready[home[c]]) \union {c}
        /\ IsInjective(Append(ready[home[c]], c))
    BY <1>2, <1>3, PushQueue DEF SingleQueueMembership
  <2> QED
    BY <1>2, <1>6, <2>1 DEF Resume
<1>7. ASSUME Resume(c), UNCHANGED pending
       PROVE  SingleQueueMembership'
  <2>1. /\ IsInjective(ready'[home[c]])
        /\ ToSet(ready'[home[c]]) = ToSet(ready[home[c]]) \union {c}
        /\ \A t \in Threads \ {home[c]} : ready'[t] = ready[t]
    BY <1>6, <1>7
  <2>2. ASSUME NEW t \in Threads
        PROVE  /\ IsInjective(ready'[t]) /\ IsInjective(pending'[t])
               /\ ToSet(ready'[t]) \intersect ToSet(pending'[t]) = {}
               /\ \A d \in ToSet(ready'[t]) \union ToSet(pending'[t]) :
                    home[d] = t /\ d \notin ToSet(semWaiters) \union Popped
    <3>1. CASE t = home[c]
      BY <1>2, <1>3, <1>7, <2>1, <3>1 DEF SingleQueueMembership
    <3>2. CASE t # home[c]
      BY <1>7, <2>1, <3>2 DEF SingleQueueMembership
    <3> QED
      BY <3>1, <3>2
  <2> QED
    BY <1>1, <2>2 DEF SingleQueueMembership
<1>8. c \in live
  BY <1>2 DEF DeadAreUnlinked
<1>9. CASE Yield(c)
  <2>1. Resume(c) /\ UNCHANGED <<running, pending, wakefd, live>>
    BY <1>9 DEF Yield
  <2>2. /\ ready' \in [Threads -> Seq(Coroutines)]
        /\ ToSet(ready'[home[c]]) = ToSet(ready[home[c]]) \union {c}
        /\ \A t \in Threads \ {home[c]} : ready'[t] = ready[t]
    BY <1>6, <2>1
  <2>3. SingleQueueMembership'
    BY <1>7, <2>1
  <2>4. tpc' = [tpc EXCEPT ![home[c]] = "sched"]
    BY <1>9 DEF Yield, Suspend
  <2>5. TypeOK'
    BY <1>1, <2>1, <2>2, <2>4
  <2>6. ExecutingIsUnlinked'
    BY <1>1, <1>2, <2>1, <2>2, <2>4 DEF ExecutingIsUnlinked, Executing
  <2>7. DeadAreUnlinked'
    <3>1. ASSUME NEW d \in Coroutines \ live' PROVE ~Executing(d)'
      BY <1>1, <2>1, <2>4, <3>1 DEF DeadAreUnlinked, Executing
    <3>2. ASSUME NEW d \in Coroutines \ live', NEW t \in Threads
          PROVE  d \notin ToSet(ready'[t]) \union ToSet(pending'[t])
      <4>1. d # c /\ d \notin ToSet(ready[t]) \union ToSet(pending[t])
        BY <1>8, <2>1, <3>2 DEF DeadAreUnlinked
      <4>2. ToSet(ready'[t]) \subseteq ToSet(ready[t]) \union {c}
        BY <2>2
      <4> QED
        BY <2>1, <4>1, <4>2
    <3> QED
      BY <1>1, <2>1, <3>1, <3>2 DEF DeadAreUnlinked
  <2> QED
    BY <1>4, <1>5, <2>3, <2>5, <2>6, <2>7
<1>10. ASSUME NEW d \in Coroutines, Async(c, d)
      PROVE  QueueInv'
  <2>1. SingleQueueMembership'
    BY <1>10, <1>7 DEF Async
  <2>2. /\ ready' \in [Threads -> Seq(Coroutines)]
        /\ ToSet(ready'[home[c]]) = ToSet(ready[home[c]]) \union {c}
        /\ \A t \in Threads \ {home[c]} : ready'[t] = ready[t]
    BY <1>6, <1>10 DEF Async
  <2>3. d # c /\ spc[d] = "out" /\ d \notin ToSet(semWaiters) \union Popped
    BY <1>2, <1>10 DEF Async, DeadAreUnlinked, WaitersWait
  <2>4. /\ d \notin ToSet(ready[home[c]]) \union ToSet(pending[home[c]])
        /\ home[d] = home[c] /\ d \notin live
    BY <1>2, <1>10 DEF Async, DeadAreUnlinked
  <2>5. TypeOK'
    BY <1>1, <1>10, <2>2 DEF Async
  <2>6. ExecutingIsUnlinked'
    <3>1. ASSUME NEW e \in Coroutines, Executing(e)'
          PROVE  e = d \/ (Executing(e) /\ home[e] # home[c])
      BY <1>2, <1>10, <2>4, <3>1 DEF Executing, Async
    <3>2. ASSUME NEW e \in Coroutines, Executing(e), home[e] # home[c]
          PROVE  ready'[home[e]] = ready[home[e]] /\ pending' = pending
      BY <1>10, <2>2, <3>2 DEF Async
    <3>3. /\ d \notin ToSet(ready'[home[d]]) \union ToSet(pending'[home[d]])
          /\ d \notin ToSet(semWaiters) \union Popped
      BY <1>10, <2>2, <2>3, <2>4 DEF Async
    <3> QED
      BY <1>1, <3>1, <3>2, <3>3 DEF ExecutingIsUnlinked
  <2>7. DeadAreUnlinked'
    <3>1. ASSUME NEW e \in Coroutines \ live'
          PROVE  e \notin {c, d} /\ e \notin live /\ ~Executing(e)'
      BY <1>8, <1>10, <3>1 DEF DeadAreUnlinked, Executing, Async
    <3>2. ASSUME NEW e \in Coroutines \ live', NEW t \in Threads
          PROVE  e \notin ToSet(ready'[t]) \union ToSet(pending'[t])
      <4>1. e # c /\ e \notin ToSet(ready[t]) \union ToSet(pending[t])
        BY <3>1 DEF DeadAreUnlinked
      <4>2. ToSet(ready'[t]) \subseteq ToSet(ready[t]) \union {c}
        BY <2>2
      <4> QED
        BY <1>10, <4>1, <4>2 DEF Async
    <3> QED
      BY <1>1, <3>1, <3>2 DEF DeadAreUnlinked
  <2> QED
    BY <1>4, <1>5, <2>1, <2>5, <2>6, <2>7
<1>11. CASE spc[c] = "out" /\ Epilogue(c)
  <2>1. SingleQueueMembership'
    BY <1>1, <1>11 DEF SingleQueueMembership, Epilogue
  <2>2. \A t \in Threads : c \notin ToSet(ready[t]) \union ToSet(pending[t])
    BY <1>3 DEF SingleQueueMembership
  <2>3. ExecutingIsUnlinked'
    <3>1. ASSUME NEW d \in Coroutines, Executing(d)' PROVE Executing(d)
      BY <1>2, <1>11, <3>1 DEF Executing, Epilogue, Suspend
    <3>2. UNCHANGED <<ready, pending>>
      BY <1>11 DEF Epilogue
    <3> QED
      BY <1>1, <3>1, <3>2 DEF ExecutingIsUnlinked
  <2>4. DeadAreUnlinked' /\ TypeOK'
    BY <1>1, <1>2, <1>11, <2>2 DEF DeadAreUnlinked, Executing, Epilogue, Suspend
  <2> QED
    BY <1>4, <1>5, <2>1, <2>3, <2>4
<1> QED
  BY <1>9, <1>10, <1>11 DEF UserStep

-----------------------------------------------------------------------------
\* The scheduler's loop moves pending to the end of ready and runs the head:
\* a coroutine that is in no other list.
LEMMA ThreadPreservesQueueInv ==
  ASSUME QueueInv, NEW t \in Threads, ThreadStep(t)
  PROVE  QueueInv'
<1> USE HomeAssumption, NullAssumption
    DEF QueueInv, TypeOK, ThreadTypeOK, SemPC, semVars
<1>1. Popped' = Popped /\ UNCHANGED semVars
  BY DEF ThreadStep, Popped
<1>2. WaitersWait' /\ OneReleasePerWaiter'
  BY <1>1 DEF WaitersWait, OneReleasePerWaiter
<1>3. CASE Dispatch(t)
  <2> DEFINE q == ready[t] \o pending[t]
  <2>1. /\ q \in Seq(Coroutines) /\ IsInjective(q)
        /\ ToSet(q) = ToSet(ready[t]) \union ToSet(pending[t])
    BY DrainQueue DEF SingleQueueMembership
  <2>2. /\ pending' \in [Threads -> Seq(Coroutines)]
        /\ ToSet(pending'[t]) = {} /\ IsInjective(pending'[t])
        /\ \A u \in Threads \ {t} : pending'[u] = pending[u]
        /\ UNCHANGED <<wakefd, live>>
    BY <1>3, EmptyQueue DEF Dispatch, ProcessPending
  <2>3. CASE q = <<>>
    <3>1. UNCHANGED <<running, ready>> /\ tpc' = [tpc EXCEPT ![t] = "poll"]
      BY <1>3, <2>3 DEF Dispatch, ProcessPending
    <3>2. SingleQueueMembership'
      BY <1>1, <2>2, <3>1 DEF SingleQueueMembership
    <3>3. ExecutingIsUnlinked' /\ DeadAreUnlinked' /\ TypeOK'
      BY <1>1, <2>2, <3>1 DEF ExecutingIsUnlinked, DeadAreUnlinked, Executing
    <3> QED
      BY <1>2, <3>2, <3>3
  <2>4. CASE q # <<>>
    <3> DEFINE h == Head(q)
    <3>1. /\ running' = [running EXCEPT ![t] = h]
          /\ ready' = [ready EXCEPT ![t] = Tail(q)]
          /\ tpc' = [tpc EXCEPT ![t] = "run"]
      BY <1>3, <2>4 DEF Dispatch, ProcessPending
    <3>2. /\ h \in Coroutines /\ h \in ToSet(q)
          /\ Tail(q) \in Seq(Coroutines) /\ IsInjective(Tail(q))
          /\ ToSet(Tail(q)) = ToSet(q) \ {h}
      BY <2>1, <2>4, PopQueue
    <3> HIDE DEF q, h
    <3>3. /\ home[h] = t /\ h \notin ToSet(semWaiters) \union Popped /\ h \in live
      BY <2>1, <3>2 DEF SingleQueueMembership, DeadAreUnlinked
    <3>4. TypeOK'
      BY <1>1, <2>2, <3>1, <3>2
    <3>5. ready'[t] = Tail(q) /\ \A u \in Threads \ {t} : ready'[u] = ready[u]
      BY <3>1
    <3>6. SingleQueueMembership'
      <4>1. ASSUME NEW u \in Threads
            PROVE  /\ IsInjective(ready'[u]) /\ IsInjective(pending'[u])
                   /\ ToSet(ready'[u]) \intersect ToSet(pending'[u]) = {}
                   /\ \A d \in ToSet(ready'[u]) \union ToSet(pending'[u]) :
                        home[d] = u /\ d \notin ToSet(semWaiters) \union Popped
        <5>1. CASE u = t
          BY <2>1, <2>2, <3>2, <3>5, <5>1 DEF SingleQueueMembership
        <5>2. CASE u # t
          BY <2>2, <3>5, <5>2 DEF SingleQueueMembership
        <5> QED
          BY <5>1, <5>2
      <4> QED
        BY <1>1, <4>1 DEF SingleQueueMembership
    <3>7. ExecutingIsUnlinked'
      BY <1>1, <2>1, <2>2, <3>1, <3>2, <3>3 DEF ExecutingIsUnlinked, Executing
    <3>8. DeadAreUnlinked'
      <4>1. ASSUME NEW c \in Coroutines \ live' PROVE ~Executing(c)'
        BY <2>2, <3>1, <3>3, <4>1 DEF DeadAreUnlinked, Executing
      <4> QED
        BY <1>1, <2>1, <2>2, <3>2, <3>5, <4>1 DEF DeadAreUnlinked
    <3> QED
      BY <1>2, <3>4, <3>6, <3>7, <3>8
  <2> QED
    BY <2>3, <2>4
<1>4. CASE PollWakeup(t)
  BY <1>1, <1>2, <1>4
  DEF PollWakeup, SingleQueueMembership, ExecutingIsUnlinked, DeadAreUnlinked,
      Executing
<1> QED
  BY <1>3, <1>4 DEF ThreadStep

-----------------------------------------------------------------------------
\* QueueInv is inductive.
LEMMA NextPreservesQueueInv == QueueInv /\ [Next]_vars => QueueInv'
<1> SUFFICES ASSUME QueueInv, [Next]_vars PROVE QueueInv'
  OBVIOUS
<1>1. ASSUME NEW c \in Coroutines, SemStep(c) PROVE QueueInv'
  BY <1>1, CountStepPreservesQueueInv, WaitPreservesQueueInv,
     PopPreservesQueueInv, ResumePreservesQueueInv, SignalPreservesQueueInv
  DEF SemStep, CountStep
<1>2. ASSUME NEW c \in Coroutines, UserStep(c) PROVE QueueInv'
  BY <1>2, UserPreservesQueueInv
<1>3. ASSUME NEW t \in Threads, ThreadStep(t) PROVE QueueInv'
  BY <1>3, ThreadPreservesQueueInv
<1>4. CASE UNCHANGED vars
  BY <1>4 DEF vars, QueueInv, TypeOK, ThreadTypeOK, SingleQueueMembership,
     Popped, WaitersWait, ExecutingIsUnlinked, OneReleasePerWaiter,
     DeadAreUnlinked, Executing
<1> QED
  BY <1>1, <1>2, <1>3, <1>4 DEF Next

\* The lists of the schedulers and of the semaphore stay disjoint, and their
\* elements are where QueueInv says, in every reachable state.
THEOREM SemaphoreQueues == Spec => []QueueInv
  BY InitEstablishesQueueInv, NextPreservesQueueInv, PTL DEF Spec

-----------------------------------------------------------------------------
(* CountInv                                                                *)

\* At first nobody holds a permit and nobody is about to take one.
LEMMA InitEstablishesCountInv == Init => CountInv
<1> SUFFICES ASSUME Init PROVE CountInv
  OBVIOUS
<1> USE PermitsAssumption DEF Init
<1>1. SeenRuns /\ SeenIsFree
  BY DEF SeenRuns, SeenIsFree
<1>2. Holders = {} /\ Takers = {}
  BY DEF Holders, Takers
<1>3. Cardinality({}) = 0 /\ IsFiniteSet({})
  BY FS_EmptySet
<1>4. PermitsConserved /\ IsFiniteSet(Holders)
  BY <1>2, <1>3 DEF PermitsConserved
<1>5. Cardinality(Threads) \in Nat /\ Cardinality(Threads) # 0
  BY ThreadsAssumption, FS_CardinalityType, FS_EmptySet
<1>6. RoomForTakers
  BY <1>2, <1>3, <1>5 DEF RoomForTakers
<1> QED
  BY <1>1, <1>4, <1>6 DEF CountInv

\* A coroutine that has seen a permit executes until it has taken it: the
\* other steps of its thread are its own, and no other thread touches it.
LEMMA SeenRunsPreserved ==
  ASSUME QueueInv, SeenRuns, [Next]_vars
  PROVE  SeenRuns'
<1> USE HomeAssumption DEF QueueInv, TypeOK, ThreadTypeOK
<1> SUFFICES ASSUME NEW d \in Coroutines, spc'[d] \in {"sub", "cas"}
             PROVE  Executing(d)'
  BY DEF SeenRuns
<1>1. spc[d] \in {"sub", "cas"} => Executing(d)
  BY DEF SeenRuns
<1>2. ASSUME NEW c \in Coroutines, SemStep(c) PROVE Executing(d)'
  <2>1. Executing(c) /\ \A e \in Coroutines \ {c} : spc'[e] = spc[e]
    BY <1>2 DEF SemStep, At, AcquireSees, AcquireBlocks, AcquireEnqueue,
       AcquireSuspend, AcquireResumed, AcquireTakes, TryLoad, TryTakes, TryFails,
       Release, ReleaseNoWaiter, ReleasePop, ReleaseHere, ReleaseThere,
       ReleaseSignal
  <2>2. running' = running
    BY <1>2 DEF SemStep, AcquireSees, AcquireBlocks, AcquireEnqueue,
       AcquireSuspend, AcquireResumed, AcquireTakes, TryLoad, TryTakes, TryFails,
       Release, ReleaseNoWaiter, ReleasePop, ReleaseHere, ReleaseThere,
       ReleaseSignal, ResumeHere, ResumeThere, WakeThere, threadVars
  <2>3. tpc' = tpc \/ (Suspend(home[c]) /\ spc'[c] = "parked")
    BY <1>2 DEF SemStep, At, AcquireSees, AcquireBlocks, AcquireEnqueue,
       AcquireSuspend, AcquireResumed, AcquireTakes, TryLoad, TryTakes, TryFails,
       Release, ReleaseNoWaiter, ReleasePop, ReleaseHere, ReleaseThere,
       ReleaseSignal, ResumeHere, ResumeThere, WakeThere, threadVars
  <2>4. CASE d = c
    BY <2>1, <2>2, <2>3, <2>4 DEF Executing
  <2>5. CASE d # c
    <3>1. Executing(d) /\ home[d] # home[c]
      BY <1>1, <2>1, <2>5 DEF Executing
    <3> QED
      BY <2>2, <2>3, <3>1 DEF Executing, Suspend
  <2> QED
    BY <2>4, <2>5
<1>3. ASSUME NEW c \in Coroutines, UserStep(c) PROVE Executing(d)'
  <2>1. spc' = spc /\ Executing(c) /\ spc[c] \in {"out", "held"}
    BY <1>3 DEF UserStep, semVars, Yield, Async, Epilogue
  <2>2. Executing(d) /\ home[d] # home[c]
    BY <1>1, <2>1 DEF Executing
  <2>3. /\ \A t \in Threads \ {home[c]} : tpc'[t] = tpc[t]
        /\ \A t \in Threads \ {home[c]} : running'[t] = running[t]
    BY <1>3 DEF UserStep, Yield, Async, Epilogue, Suspend
  <2> QED
    BY <2>2, <2>3 DEF Executing
<1>4. ASSUME NEW t \in Threads, ThreadStep(t) PROVE Executing(d)'
  <2>1. spc' = spc /\ tpc[t] # "run"
    BY <1>4 DEF ThreadStep, semVars, Dispatch, PollWakeup
  <2>2. Executing(d) /\ home[d] # t
    BY <1>1, <2>1 DEF Executing
  <2>3. /\ \A u \in Threads \ {t} : tpc'[u] = tpc[u]
        /\ \A u \in Threads \ {t} : running'[u] = running[u]
    BY <1>4 DEF ThreadStep, Dispatch, PollWakeup
  <2> QED
    BY <2>2, <2>3 DEF Executing
<1>5. CASE UNCHANGED vars
  BY <1>1, <1>5 DEF vars, Executing
<1> QED
  BY <1>2, <1>3, <1>4, <1>5 DEF Next

\* The steps that leave the count alone and take no permit.
LEMMA QuietStepPreservesCount ==
  ASSUME QueueInv, CountInv, count' = count,
         \A d \in Coroutines : spc'[d] = "held" <=> spc[d] = "held",
         \A d \in Coroutines : spc'[d] = "sub" <=> spc[d] = "sub"
  PROVE  /\ RoomForTakers' /\ IsFiniteSet(Holders)' /\ PermitsConserved'
<1>1. Holders' = Holders /\ Takers' = Takers
  BY DEF Holders, Takers
<1> QED
  BY <1>1 DEF CountInv, RoomForTakers, PermitsConserved

\* acquire and tryAcquire on the way to a permit, and the taking of it.
LEMMA SemStepPreservesCountInv ==
  ASSUME QueueInv, CountInv, NEW c \in Coroutines, SemStep(c)
  PROVE  /\ SeenIsFree'
         /\ RoomForTakers' /\ IsFiniteSet(Holders)' /\ PermitsConserved'
<1> USE HomeAssumption, PermitsAssumption DEF QueueInv, TypeOK
<1>1. Executing(c) /\ \A d \in Coroutines \ {c} : spc'[d] = spc[d]
  BY DEF SemStep, At, AcquireSees, AcquireBlocks, AcquireEnqueue,
     AcquireSuspend, AcquireResumed, AcquireTakes, TryLoad, TryTakes, TryFails,
     Release, ReleaseNoWaiter, ReleasePop, ReleaseHere, ReleaseThere,
     ReleaseSignal
<1>2. /\ Takers \subseteq Threads /\ Takers' \subseteq Threads
      /\ IsFiniteSet(Takers) /\ IsFiniteSet(Takers')
      /\ Cardinality(Takers) \in Nat /\ Cardinality(Takers') \in Nat
      /\ Cardinality(Threads) \in Nat
      /\ Cardinality(Takers) <= Cardinality(Threads)
      /\ Cardinality(Takers') <= Cardinality(Threads)
  <2>1. Takers \subseteq Threads /\ Takers' \subseteq Threads
    BY DEF Takers
  <2> QED
    BY <2>1, ThreadsAssumption, FS_Subset, FS_CardinalityType
<1>3. IsFiniteSet(Holders) /\ Cardinality(Holders) \in Nat
  BY FS_CardinalityType DEF CountInv
\* Nobody else on c's thread is about to take a permit.
<1>4. \A d \in Coroutines \ {c} : spc[d] = "sub" => home[d] # home[c]
  BY <1>1 DEF CountInv, SeenRuns, Executing
<1>5. SeenIsFree'
  <2>1. /\ \A d \in Coroutines \ {c} : seen'[d] = seen[d]
        /\ spc'[c] = "cas" => spc[c] # "cas" /\ seen'[c] = count /\ count > 0
    BY DEF SemStep, At, AcquireSees, AcquireBlocks, AcquireEnqueue,
     AcquireSuspend, AcquireResumed, AcquireTakes, TryLoad, TryTakes, TryFails,
     Release, ReleaseNoWaiter, ReleasePop, ReleaseHere, ReleaseThere,
     ReleaseSignal
  <2> QED
    BY <1>1, <2>1 DEF CountInv, SeenIsFree
\* acquire has seen a permit: the count is positive and the threads are only
\* so many.
<1>6. CASE AcquireSees(c)
  <2>1. count' = count /\ count >= 1
    BY <1>6 DEF AcquireSees
  <2>2. Holders' = Holders
    BY <1>6 DEF AcquireSees, At, Holders
  <2> QED
    BY <1>2, <1>5, <2>1, <2>2 DEF CountInv, RoomForTakers, PermitsConserved
\* fetchSub: one permit, one holder more, one taker less.
<1>7. CASE AcquireTakes(c)
  <2>1. count' = count - 1 /\ spc[c] = "sub" /\ spc'[c] = "held"
    BY <1>7 DEF AcquireTakes, At
  <2>2. Takers' = Takers \ {home[c]} /\ home[c] \in Takers
    BY <1>1, <1>4, <2>1 DEF Takers
  <2>3. Cardinality(Takers') = Cardinality(Takers) - 1
    BY <1>2, <2>2, FS_RemoveElement
  <2>4. Holders' = Holders \union {c} /\ c \notin Holders
    BY <1>1, <2>1 DEF Holders
  <2>5. IsFiniteSet(Holders') /\ Cardinality(Holders') = Cardinality(Holders) + 1
    BY <1>3, <2>4, FS_AddElement
  <2> QED
    BY <1>2, <1>3, <1>5, <2>1, <2>3, <2>5 DEF CountInv, RoomForTakers, PermitsConserved
\* compareAndSwap: the count is positive, and c's own thread is no taker.
<1>8. CASE TryTakes(c)
  <2>1. /\ count' = count - 1 /\ count >= 1 /\ spc[c] = "cas" /\ spc'[c] = "held"
    BY <1>8 DEF TryTakes, At, CountInv, SeenIsFree
  <2>2. Takers' = Takers /\ home[c] \in Threads \ Takers
    BY <1>1, <1>4, <2>1 DEF Takers
  <2>3. Cardinality(Takers) <= Cardinality(Threads) - 1
    <3>1. Takers \in SUBSET (Threads \ {home[c]})
      BY <1>2, <2>2
    <3>2. /\ IsFiniteSet(Threads \ {home[c]})
          /\ Cardinality(Threads \ {home[c]}) = Cardinality(Threads) - 1
      BY ThreadsAssumption, FS_RemoveElement
    <3> QED
      BY <3>1, <3>2, FS_Subset
  <2>4. Holders' = Holders \union {c} /\ c \notin Holders
    BY <1>1, <2>1 DEF Holders
  <2>5. IsFiniteSet(Holders') /\ Cardinality(Holders') = Cardinality(Holders) + 1
    BY <1>3, <2>4, FS_AddElement
  <2>6. RoomForTakers'
    BY <1>2, <2>1, <2>2, <2>3 DEF RoomForTakers
  <2>7. PermitsConserved'
    BY <1>3, <2>1, <2>5 DEF CountInv, PermitsConserved
  <2> QED
    BY <1>5, <2>5, <2>6, <2>7
\* fetchAdd gives a permit back.
<1>9. CASE Release(c)
  <2>1. count' = count + 1 /\ spc[c] = "held" /\ spc'[c] = "pop"
    BY <1>9 DEF Release, At
  <2>2. Takers' = Takers
    BY <1>1, <2>1 DEF Takers
  <2>3. Holders' = Holders \ {c} /\ c \in Holders
    BY <1>1, <2>1 DEF Holders
  <2>4. IsFiniteSet(Holders') /\ Cardinality(Holders') = Cardinality(Holders) - 1
    BY <1>3, <2>3, FS_RemoveElement
  <2> QED
    BY <1>2, <1>3, <1>5, <2>1, <2>2, <2>4
    DEF CountInv, RoomForTakers, PermitsConserved
<1>10. CASE ~(AcquireSees(c) \/ AcquireTakes(c) \/ TryTakes(c) \/ Release(c))
  <2>1. /\ count' = count
        /\ spc[c] \notin {"held", "sub"} /\ spc'[c] \notin {"held", "sub"}
    BY <1>10 DEF SemStep, At, AcquireBlocks, AcquireEnqueue, AcquireSuspend,
       AcquireResumed, TryLoad, TryFails, ReleaseNoWaiter, ReleasePop,
       ReleaseHere, ReleaseThere, ReleaseSignal
  <2> QED
    BY <1>1, <1>5, <2>1, QuietStepPreservesCount
<1> QED
  BY <1>6, <1>7, <1>8, <1>9, <1>10

\* CountInv is inductive, given QueueInv.
LEMMA NextPreservesCountInv == QueueInv /\ CountInv /\ [Next]_vars => CountInv'
<1> SUFFICES ASSUME QueueInv, CountInv, [Next]_vars PROVE CountInv'
  OBVIOUS
<1>1. SeenRuns'
  BY SeenRunsPreserved DEF CountInv
<1>2. ASSUME UNCHANGED semVars PROVE CountInv'
  <2>1. SeenIsFree'
    BY <1>2 DEF CountInv, SeenIsFree, semVars
  <2> QED
    BY <1>1, <1>2, <2>1, QuietStepPreservesCount DEF CountInv, semVars
<1>3. ASSUME NEW c \in Coroutines, SemStep(c) PROVE CountInv'
  BY <1>1, <1>3, SemStepPreservesCountInv DEF CountInv
<1>4. ASSUME NEW c \in Coroutines, UserStep(c) PROVE CountInv'
  BY <1>2, <1>4 DEF UserStep
<1>5. ASSUME NEW t \in Threads, ThreadStep(t) PROVE CountInv'
  BY <1>2, <1>5 DEF ThreadStep
<1>6. CASE UNCHANGED vars
  BY <1>2, <1>6 DEF vars, semVars
<1> QED
  BY <1>3, <1>4, <1>5, <1>6 DEF Next

\* CountInv holds in every reachable state.
THEOREM CountInvariance == Spec => [](QueueInv /\ CountInv)
  BY InitEstablishesQueueInv, NextPreservesQueueInv, InitEstablishesCountInv,
     NextPreservesCountInv, PTL DEF Spec

\* Semaphore.acquire, tryAcquire and release neither lose nor invent a permit,
\* on any number of threads: the count and the holders add up to the initial
\* count.
THEOREM PermitsAlwaysConserved == Spec => []PermitsConserved
<1>1. CountInv => PermitsConserved
  BY DEF CountInv
<1> QED
  BY <1>1, CountInvariance, PTL

\* acquire overdraws the count by less than the number of threads: its load
\* and its fetchSub are two operations, but no thread runs two coroutines
\* between them.
THEOREM OverdraftAlwaysBounded == Spec => []OverdraftBounded
<1>1. QueueInv /\ CountInv => OverdraftBounded
  <2>1. Takers \subseteq Threads
    BY DEF Takers
  <2>2. Cardinality(Takers) \in Nat /\ Cardinality(Threads) \in Nat
    BY <2>1, ThreadsAssumption, FS_Subset, FS_CardinalityType
  <2> QED
    BY <2>2 DEF QueueInv, TypeOK, CountInv, RoomForTakers, OverdraftBounded
<1> QED
  BY <1>1, CountInvariance, PTL

-----------------------------------------------------------------------------
(* StrandInv                                                               *)

\* Somebody waits, or is past acquire's test and about to.
Waiting == semWaiters # <<>> \/ \E d \in Coroutines : spc[d] = "enq"

\* A step by which nobody starts to wait, and after which as many free permits
\* are owed as before.
LEMMA OwedKept ==
  ASSUME StrandInv, count \in Int, count' \in Int,
         raced' = (raced \/ RacedStep), Waiting' => Waiting,
         IsFiniteSet(Owed'),
         count' - count <= Cardinality(Owed') - Cardinality(Owed)
  PROVE  StrandInv'
<1>1. Cardinality(Owed) \in Nat /\ Cardinality(Owed') \in Nat
  BY FS_CardinalityType DEF StrandInv
<1>2. ASSUME ~raced', Waiting' PROVE count' <= Cardinality(Owed')
  <2>1. count <= Cardinality(Owed)
    BY <1>2 DEF StrandInv, Waiting
  <2> QED
    BY <1>1, <2>1
<1> QED
  BY <1>2 DEF StrandInv, Waiting

\* The same for a step that changes nothing NoStrandedWaiter looks at.
LEMMA OwedSame ==
  ASSUME StrandInv, count \in Int, count' \in Int,
         raced' = (raced \/ RacedStep), Waiting' => Waiting,
         Owed' = Owed, count' <= count
  PROVE  StrandInv'
<1>1. Cardinality(Owed) \in Nat /\ IsFiniteSet(Owed')
  BY FS_CardinalityType DEF StrandInv
<1>2. count' - count <= Cardinality(Owed') - Cardinality(Owed)
  BY <1>1
<1> QED
  BY <1>1, <1>2, OwedKept

\* acquire and tryAcquire: whoever has seen a permit, or is back from suspend,
\* is one of those a permit is owed to until its fetchSub takes it.
LEMMA AcquirePreservesStrandInv ==
  ASSUME QueueInv, QueueInv', StrandInv, NEW c \in Coroutines,
         raced' = (raced \/ RacedStep),
         \/ AcquireSees(c) \/ AcquireBlocks(c) \/ AcquireEnqueue(c)
         \/ AcquireSuspend(c) \/ AcquireResumed(c) \/ AcquireTakes(c)
         \/ TryLoad(c) \/ TryTakes(c) \/ TryFails(c)
  PROVE  StrandInv'
<1>1. count \in Int /\ count' \in Int /\ spc \in [Coroutines -> SemPC]
  BY DEF QueueInv, TypeOK
<1>2. IsFiniteSet(Owed) /\ Cardinality(Owed) \in Nat
  BY FS_CardinalityType DEF StrandInv
<1>3. CASE AcquireSees(c)
  <2>1. /\ spc' = [spc EXCEPT ![c] = "sub"] /\ semWaiters' = semWaiters
        /\ count' = count
    BY <1>3 DEF AcquireSees, At
  <2>2. Owed' = Owed \union {c} /\ (Waiting' => Waiting)
    BY <1>1, <2>1 DEF Owed, Waiting
  <2>3. IsFiniteSet(Owed') /\ Cardinality(Owed') >= Cardinality(Owed)
    <3>1. /\ IsFiniteSet(Owed \union {c})
          /\ \/ Cardinality(Owed \union {c}) = Cardinality(Owed)
             \/ Cardinality(Owed \union {c}) = Cardinality(Owed) + 1
      BY <1>2, FS_AddElement
    <3> QED
      BY <1>2, <2>2, <3>1
  <2>4. Cardinality(Owed') \in Nat
    BY <2>3, FS_CardinalityType
  <2>5. count' - count <= Cardinality(Owed') - Cardinality(Owed)
    BY <1>1, <1>2, <2>1, <2>3, <2>4
  <2> QED
    BY <1>1, <2>2, <2>3, <2>5, OwedKept
<1>4. CASE AcquireBlocks(c)
  <2>1. /\ spc' = [spc EXCEPT ![c] = "enq"] /\ semWaiters' = semWaiters
        /\ count' = count /\ count <= 0 /\ spc[c] \in {"out", "load"}
    BY <1>4 DEF AcquireBlocks, At
  <2>2. Owed' = Owed \ {c}
    BY <1>1, <2>1 DEF Owed
  <2>3. IsFiniteSet(Owed') /\ Cardinality(Owed') \in Nat
    BY <1>2, <2>2, FS_RemoveElement, FS_CardinalityType
  <2>4. count' <= Cardinality(Owed')
    BY <1>1, <2>1, <2>3
  <2> QED
    BY <2>3, <2>4 DEF StrandInv
<1>5. CASE AcquireEnqueue(c)
  <2>1. /\ spc' = [spc EXCEPT ![c] = "susp"] /\ spc[c] = "enq"
        /\ count' = count
    BY <1>5 DEF AcquireEnqueue, At
  <2>2. ToSet(semWaiters') = ToSet(semWaiters) \union {c}
    BY <1>5, PushQueue DEF AcquireEnqueue, QueueInv, TypeOK
  <2>3. Owed' = Owed /\ Waiting
    BY <1>1, <2>1, <2>2 DEF Owed, Waiting
  <2> QED
    BY <1>1, <2>1, <2>3, OwedSame
<1>6. CASE AcquireSuspend(c)
  <2>1. /\ spc' = [spc EXCEPT ![c] = "parked"] /\ spc[c] = "susp"
        /\ count' = count /\ semWaiters' = semWaiters
    BY <1>6 DEF AcquireSuspend, At
  <2>2. Owed' = Owed /\ (Waiting' => Waiting)
    BY <1>1, <2>1 DEF Owed, Waiting
  <2> QED
    BY <1>1, <2>1, <2>2, OwedSame
<1>7. CASE AcquireResumed(c)
  <2>1. /\ spc' = [spc EXCEPT ![c] = "load"] /\ spc[c] = "parked"
        /\ count' = count /\ semWaiters' = semWaiters
    BY <1>7 DEF AcquireResumed, At
  <2>2. c \notin ToSet(semWaiters)
    BY <1>7 DEF AcquireResumed, At, QueueInv, ExecutingIsUnlinked
  <2>3. Owed' = Owed /\ (Waiting' => Waiting)
    BY <1>1, <2>1, <2>2 DEF Owed, Waiting
  <2> QED
    BY <1>1, <2>1, <2>3, OwedSame
<1>8. CASE AcquireTakes(c)
  <2>1. /\ spc' = [spc EXCEPT ![c] = "held"] /\ spc[c] = "sub"
        /\ count' = count - 1 /\ semWaiters' = semWaiters
    BY <1>8 DEF AcquireTakes, At
  <2>2. Owed' = Owed \ {c} /\ c \in Owed /\ (Waiting' => Waiting)
    BY <1>1, <2>1 DEF Owed, Waiting
  <2>3. IsFiniteSet(Owed') /\ Cardinality(Owed') = Cardinality(Owed) - 1
    BY <1>2, <2>2, FS_RemoveElement
  <2>4. count' - count <= Cardinality(Owed') - Cardinality(Owed)
    BY <1>1, <1>2, <2>1, <2>3
  <2> QED
    BY <1>1, <2>2, <2>3, <2>4, OwedKept
<1>9. CASE TryLoad(c) \/ TryTakes(c) \/ TryFails(c)
  <2>1. /\ spc'[c] \in {"cas", "held", "out"} /\ spc[c] \in {"out", "cas"}
        /\ \A d \in Coroutines \ {c} : spc'[d] = spc[d]
        /\ count' \in {count, count - 1} /\ semWaiters' = semWaiters
    BY <1>1, <1>9 DEF TryLoad, TryTakes, TryFails, At
  <2>2. Owed' = Owed /\ (Waiting' => Waiting)
    BY <1>1, <2>1 DEF Owed, Waiting
  <2>3. count' <= count
    BY <1>1, <2>1
  <2> QED
    BY <1>1, <2>2, <2>3, OwedSame
<1> QED
  BY <1>3, <1>4, <1>5, <1>6, <1>7, <1>8, <1>9

\* release: the caller owes the permit it raised the count by until it pops a
\* waiter, and the waiter is owed it from then on; when there is none to pop
\* nobody is on the way to wait, or the race has happened.
LEMMA ReleasePreservesStrandInv ==
  ASSUME QueueInv, QueueInv', StrandInv, NEW c \in Coroutines,
         raced' = (raced \/ RacedStep),
         \/ Release(c) \/ ReleaseNoWaiter(c) \/ ReleasePop(c)
         \/ ReleaseHere(c) \/ ReleaseThere(c) \/ ReleaseSignal(c)
  PROVE  StrandInv'
<1>1. count \in Int /\ count' \in Int /\ spc \in [Coroutines -> SemPC]
  BY DEF QueueInv, TypeOK
<1>2. IsFiniteSet(Owed) /\ Cardinality(Owed) \in Nat
  BY FS_CardinalityType DEF StrandInv
<1>3. CASE Release(c)
  <2>1. /\ spc' = [spc EXCEPT ![c] = "pop"] /\ spc[c] = "held"
        /\ count' = count + 1 /\ semWaiters' = semWaiters
    BY <1>3 DEF Release, At
  <2>2. Owed' = Owed \union {c} /\ c \notin Owed /\ (Waiting' => Waiting)
    BY <1>1, <2>1 DEF Owed, Waiting
  <2>3. IsFiniteSet(Owed') /\ Cardinality(Owed') = Cardinality(Owed) + 1
    BY <1>2, <2>2, FS_AddElement
  <2>4. count' - count <= Cardinality(Owed') - Cardinality(Owed)
    BY <1>1, <1>2, <2>1, <2>3
  <2> QED
    BY <1>1, <2>2, <2>3, <2>4, OwedKept
<1>4. CASE ReleaseNoWaiter(c)
  <2>1. /\ spc' = [spc EXCEPT ![c] = "out"] /\ spc[c] = "pop"
        /\ semWaiters' = <<>>
    BY <1>4 DEF ReleaseNoWaiter, At
  <2>2. semWaiters' = semWaiters
    BY <1>4 DEF ReleaseNoWaiter
  <2>3. Owed' = Owed \ {c}
    BY <1>1, <2>1, <2>2 DEF Owed
  <2>4. IsFiniteSet(Owed')
    BY <1>2, <2>3, FS_RemoveElement
  <2>5. ~raced' => ~Waiting'
    <3>1. ASSUME NEW d \in Coroutines, spc'[d] = "enq" PROVE raced'
      <4>1. spc[d] = "enq" /\ spc'[c] = "out"
        BY <1>1, <2>1, <3>1
      <4> QED
        BY <2>1, <4>1 DEF RacedStep
    <3> QED
      BY <2>1, <3>1 DEF Waiting
  <2> QED
    BY <2>4, <2>5 DEF StrandInv, Waiting
<1>5. CASE ReleasePop(c)
  <2>0. PICK w : w = Head(semWaiters)
    OBVIOUS
  <2>1. /\ spc' = [spc EXCEPT ![c] = "wake"] /\ spc[c] = "pop"
        /\ count' = count /\ semWaiters # <<>>
    BY <1>5 DEF ReleasePop, At
  <2>2. /\ w \in Coroutines /\ w \in ToSet(semWaiters)
        /\ ToSet(semWaiters') = ToSet(semWaiters) \ {w}
    BY <1>5, <2>0, PopQueue
    DEF ReleasePop, QueueInv, TypeOK, SingleQueueMembership
  <2>3. spc[w] \in {"susp", "parked"} /\ w # c
    BY <2>1, <2>2 DEF QueueInv, WaitersWait
  <2>4. Owed' = (Owed \ {c}) \union {w} /\ c \in Owed /\ w \notin Owed
    BY <1>1, <2>1, <2>2, <2>3 DEF Owed
  <2>5. IsFiniteSet(Owed \ {c}) /\ Cardinality(Owed \ {c}) = Cardinality(Owed) - 1
    BY <1>2, <2>4, FS_RemoveElement
  <2>6. IsFiniteSet(Owed') /\ Cardinality(Owed') = Cardinality(Owed)
    BY <1>2, <2>4, <2>5, FS_AddElement
  <2>7. Waiting
    BY <2>1 DEF Waiting
  <2>8. count' - count <= Cardinality(Owed') - Cardinality(Owed)
    BY <1>1, <1>2, <2>1, <2>6
  <2> QED
    BY <1>1, <2>6, <2>7, <2>8, OwedKept
<1>6. CASE ReleaseHere(c) \/ ReleaseThere(c) \/ ReleaseSignal(c)
  <2>1. /\ spc'[c] \in {"signal", "out"} /\ spc[c] \in {"wake", "signal"}
        /\ \A d \in Coroutines \ {c} : spc'[d] = spc[d]
        /\ count' = count /\ semWaiters' = semWaiters
    BY <1>1, <1>6 DEF ReleaseHere, ReleaseThere, ReleaseSignal, At
  <2>2. Owed' = Owed /\ (Waiting' => Waiting)
    BY <1>1, <2>1 DEF Owed, Waiting
  <2> QED
    BY <1>1, <2>1, <2>2, OwedSame
<1> QED
  BY <1>3, <1>4, <1>5, <1>6

\* StrandInv is inductive, given QueueInv.
LEMMA NextPreservesStrandInv ==
  QueueInv /\ QueueInv' /\ StrandInv /\ [HNext]_hvars => StrandInv'
<1> SUFFICES ASSUME QueueInv, QueueInv', StrandInv, [HNext]_hvars
             PROVE  StrandInv'
  OBVIOUS
<1>1. CASE UNCHANGED hvars
  BY <1>1 DEF hvars, StrandInv, Owed
<1>2. ASSUME UNCHANGED semVars, raced' = (raced \/ RacedStep) PROVE StrandInv'
  <2>1. Owed' = Owed /\ (Waiting' => Waiting) /\ count' = count
    BY <1>2 DEF semVars, Owed, Waiting
  <2> QED
    BY <1>2, <2>1, OwedSame DEF QueueInv, TypeOK
<1>3. CASE HNext
  <2>1. raced' = (raced \/ RacedStep) /\ Next
    BY <1>3 DEF HNext
  <2>2. ASSUME NEW c \in Coroutines, SemStep(c) PROVE StrandInv'
    BY <2>1, <2>2, AcquirePreservesStrandInv, ReleasePreservesStrandInv
    DEF SemStep
  <2>3. ASSUME NEW c \in Coroutines, UserStep(c) PROVE StrandInv'
    BY <1>2, <2>1, <2>3 DEF UserStep
  <2>4. ASSUME NEW t \in Threads, ThreadStep(t) PROVE StrandInv'
    BY <1>2, <2>1, <2>4 DEF ThreadStep
  <2> QED
    BY <2>1, <2>2, <2>3, <2>4 DEF Next
<1> QED
  BY <1>1, <1>3

\* Unless the race between a load and a push happened, no waiter is stranded:
\* while a coroutine waits, each free permit has been promised by a release to
\* one it woke or is about to pop, or was seen by an acquire that will take it.
THEOREM NoWaiterIsStranded == HSpec => []NoStrandedWaiter
<1>1. HInit => QueueInv
  BY InitEstablishesQueueInv DEF HInit
<1>2. HInit => StrandInv
  <2> SUFFICES ASSUME HInit PROVE StrandInv
    OBVIOUS
  <2>1. Owed = {} /\ ~Waiting
    BY DEF HInit, Init, Owed, Waiting
  <2> QED
    BY <2>1, FS_EmptySet DEF StrandInv, Waiting
<1>3. [HNext]_hvars => [Next]_vars
  BY DEF HNext, hvars, vars
<1>4. QueueInv /\ StrandInv => NoStrandedWaiter
  BY DEF StrandInv, NoStrandedWaiter
<1> QED
  BY <1>1, <1>2, <1>3, <1>4, NextPreservesQueueInv, NextPreservesStrandInv, PTL
  DEF HSpec
=============================================================================
