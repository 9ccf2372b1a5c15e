------------------------ MODULE CoroWaitGroupProofs ------------------------
(***************************************************************************)
(* Proofs about CoroWaitGroup for every set of threads and coroutines.     *)
(*                                                                         *)
(* QueueInv says which list each coroutine is in, the local lists of the   *)
(* done calls included, and is inductive on its own.  With the history     *)
(* variables of CoroWaitGroupHistory, ZeroInv then follows a drain from    *)
(* the fetchSub that reached zero, and StrandInv the waiters from their    *)
(* load of the count.                                                      *)
(***************************************************************************)
EXTENDS CoroWaitGroupHistory, QueueLemmas

WgPC == {"out", "enq", "susp", "parked", "drain", "wake", "signal"}
TypeOK ==
  /\ ThreadTypeOK
  /\ count \in Nat
  /\ wgWaiters \in Seq(Coroutines)
  /\ wpc \in [Coroutines -> WgPC]
  /\ toWake \in [Coroutines -> Seq(Coroutines)]
  /\ sawZero \in [Coroutines -> BOOLEAN]

\* The waiters that c's done has taken off the list and not yet resumed.
DrainedBy(c) ==
  {w \in Coroutines : \/ wpc[c] = "wake" /\ w \in ToSet(toWake[c])
                      \/ wpc[c] = "signal" /\ w \in ToSet(Tail(toWake[c]))}
Drained == {w \in Coroutines : \E c \in Coroutines : w \in DrainedBy(c)}

\* A coroutine is in at most one of the lists that share Coroutine.link, and
\* at most once; one in the hands of a done is in none of the shared lists.
SingleQueueMembership ==
  /\ IsInjective(wgWaiters)
  /\ Drained \intersect ToSet(wgWaiters) = {}
  /\ \A t \in Threads :
       /\ IsInjective(ready[t])
       /\ IsInjective(pending[t])
       /\ ToSet(ready[t]) \intersect ToSet(pending[t]) = {}
       /\ \A c \in ToSet(ready[t]) \union ToSet(pending[t]) :
            home[c] = t /\ c \notin ToSet(wgWaiters) \union Drained

\* Only a coroutine that is blocked in wait is on the list or in the hands of
\* a done; one that executes is in no list of its scheduler, unless a done on
\* another thread found it on its way to suspend, and returns from suspend only
\* when it is off the list; two done calls have different waiters; a coroutine
\* without a stack is nowhere.
WaitersWait ==
  \A c \in ToSet(wgWaiters) \union Drained : wpc[c] \in {"susp", "parked"}
ExecutingIsUnlinked ==
  \A c \in Coroutines : Executing(c) =>
    /\ c \notin ToSet(ready[home[c]])
    /\ wpc[c] # "susp" => c \notin ToSet(pending[home[c]]) \union Drained
    /\ wpc[c] = "parked" => c \notin ToSet(wgWaiters)
OneDrainPerWaiter ==
  /\ \A c \in Coroutines :
       wpc[c] \in {"wake", "signal"} => toWake[c] # <<>> /\ IsInjective(toWake[c])
  /\ \A c, d \in Coroutines :
       c # d => DrainedBy(c) \intersect DrainedBy(d) = {}
DeadAreUnlinked ==
  \A c \in Coroutines \ live :
    /\ wpc[c] = "out" /\ ~Executing(c)
    /\ \A t \in Threads : c \notin ToSet(ready[t]) \union ToSet(pending[t])
QueueInv == /\ TypeOK /\ SingleQueueMembership
            /\ WaitersWait /\ ExecutingIsUnlinked
            /\ OneDrainPerWaiter /\ DeadAreUnlinked

\* Unless add came in between, the count stays zero from the fetchSub of a done
\* to its drain, and everybody in wait was there when it became zero; and who
\* is off the list was taken off it by such a drain.
ZeroInv ==
  ~reused =>
    /\ (\E d \in Coroutines : wpc[d] = "drain") =>
         count = 0 /\ \A c \in Coroutines : InWait(c) => sawZero[c]
    /\ \A c \in Coroutines :
         wpc[c] \in {"susp", "parked"} /\ c \notin ToSet(wgWaiters) => sawZero[c]

\* NoStrandedWaiter already while a coroutine is on its way to the list.
StrandInv ==
  ~missed /\ (wgWaiters # <<>> \/ \E d \in Coroutines : wpc[d] = "enq") =>
    count > 0 \/ \E c \in Coroutines : wpc[c] = "drain"

-----------------------------------------------------------------------------
(* QueueInv                                                                *)

\* The schedulers start with their main coroutine and empty lists, and no
\* coroutine is in a method of the wait group.
LEMMA InitEstablishesQueueInv == Init => QueueInv
<1> SUFFICES ASSUME Init PROVE QueueInv
  OBVIOUS
<1> USE HomeAssumption, MainAssumption, NullAssumption DEF Init, ThreadInit
<1>1. TypeOK
  BY EmptyQueue DEF TypeOK, ThreadTypeOK, WgPC
<1>2. Drained = {} /\ ToSet(wgWaiters) = {}
  BY EmptyQueue DEF Drained, DrainedBy
<1>3. SingleQueueMembership
  BY <1>2, EmptyQueue DEF SingleQueueMembership
<1>4. WaitersWait
  BY <1>2 DEF WaitersWait
<1>5. ExecutingIsUnlinked /\ DeadAreUnlinked
  <2>1. \A t \in Threads : ToSet(ready[t]) = {} /\ ToSet(pending[t]) = {}
    BY EmptyQueue
  <2> QED
    BY <1>2, <2>1 DEF ExecutingIsUnlinked, DeadAreUnlinked, Executing
<1>6. OneDrainPerWaiter
  BY DEF OneDrainPerWaiter, DrainedBy
<1> QED
  BY <1>1, <1>3, <1>4, <1>5, <1>6 DEF QueueInv

\* The steps that only load or change the count leave every list alone.
CountStep(c) == Add(c) \/ Done(c) \/ WaitBlocks(c) \/ WaitReturns(c)
LEMMA CountStepPreservesQueueInv ==
  ASSUME QueueInv, NEW c \in Coroutines, CountStep(c)
  PROVE  QueueInv'
<1> USE HomeAssumption, NullAssumption
    DEF QueueInv, TypeOK, ThreadTypeOK, WgPC, threadVars
<1>1. /\ Executing(c) /\ wpc[c] \notin {"susp", "wake", "signal"}
      /\ wpc'[c] \notin {"susp", "parked", "wake", "signal"}
      /\ \A d \in Coroutines \ {c} : wpc'[d] = wpc[d]
      /\ UNCHANGED <<running, ready, pending, tpc, wakefd, live, wgWaiters, toWake>>
  BY DEF CountStep, At, Add, Done, WaitBlocks, WaitReturns
<1>2. TypeOK'
  <2>1. count' \in Nat
    BY MaxCountAssumption DEF CountStep, At, Add, Done, WaitBlocks, WaitReturns
  <2>2. wpc' \in [Coroutines -> WgPC]
    BY DEF CountStep, At, Add, Done, WaitBlocks, WaitReturns
  <2>3. sawZero' \in [Coroutines -> BOOLEAN]
    BY DEF CountStep, At, Add, Done, WaitBlocks, WaitReturns
  <2> QED
    BY <1>1, <2>1, <2>2, <2>3
<1>3. /\ \A d \in Coroutines : DrainedBy(d)' = DrainedBy(d)
      /\ Drained' = Drained
  <2>1. ASSUME NEW d \in Coroutines PROVE DrainedBy(d)' = DrainedBy(d)
    <3>1. /\ wpc'[d] = "wake" <=> wpc[d] = "wake"
          /\ wpc'[d] = "signal" <=> wpc[d] = "signal"
      BY <1>1
    <3> QED
      BY <1>1, <3>1 DEF DrainedBy
  <2> QED
    BY <2>1 DEF Drained
<1>4. c \notin ToSet(wgWaiters) \union Drained
  BY <1>1 DEF WaitersWait, ExecutingIsUnlinked
<1>5. SingleQueueMembership'
  BY <1>1, <1>3 DEF SingleQueueMembership
<1>6. WaitersWait'
  <2>1. ToSet(wgWaiters) \subseteq Coroutines /\ Drained \subseteq Coroutines
    BY QueueElements DEF Drained
  <2> QED
    BY <1>1, <1>3, <1>4, <2>1 DEF WaitersWait
<1>7. ExecutingIsUnlinked'
  BY <1>1, <1>3 DEF ExecutingIsUnlinked, Executing
<1>8. OneDrainPerWaiter'
  <2>1. \A d \in Coroutines : wpc'[d] \in {"wake", "signal"} =>
          wpc[d] \in {"wake", "signal"}
    BY <1>1
  <2> QED
    BY <1>1, <1>3, <2>1 DEF OneDrainPerWaiter
<1>9. DeadAreUnlinked'
  BY <1>1 DEF DeadAreUnlinked, Executing
<1> QED
  BY <1>2, <1>5, <1>6, <1>7, <1>8, <1>9

\* wait pushes on _waiters a coroutine that is in no list, and suspends it.
LEMMA WaitPreservesQueueInv ==
  ASSUME QueueInv, NEW c \in Coroutines, WaitEnqueue(c) \/ WaitSuspend(c)
  PROVE  QueueInv'
<1> USE HomeAssumption, NullAssumption
    DEF QueueInv, TypeOK, ThreadTypeOK, WgPC, At, threadVars
<1>0. /\ \A d \in Coroutines : DrainedBy(d)' = DrainedBy(d)
      /\ Drained' = Drained
  <2>1. ASSUME NEW d \in Coroutines PROVE DrainedBy(d)' = DrainedBy(d)
    BY DEF WaitEnqueue, WaitSuspend, DrainedBy
  <2> QED
    BY <2>1 DEF Drained
<1>1. CASE WaitEnqueue(c)
  <2> USE <1>1 DEF WaitEnqueue
  <2>1. /\ c \notin ToSet(wgWaiters) \union Drained
        /\ \A t \in Threads : c \notin ToSet(ready[t]) \union ToSet(pending[t])
    BY DEF WaitersWait, ExecutingIsUnlinked, SingleQueueMembership
  <2>2. /\ wgWaiters' \in Seq(Coroutines) /\ IsInjective(wgWaiters')
        /\ ToSet(wgWaiters') = ToSet(wgWaiters) \union {c}
    BY <2>1, PushQueue DEF SingleQueueMembership
  <2>4. TypeOK'
    BY <2>2
  <2>5. SingleQueueMembership'
    BY <1>0, <2>1, <2>2 DEF SingleQueueMembership
  <2>6. WaitersWait'
    BY <1>0, <2>2 DEF WaitersWait
  <2>7. ExecutingIsUnlinked'
    BY <1>0, <2>1, <2>2 DEF ExecutingIsUnlinked, Executing
  <2>8. OneDrainPerWaiter'
    BY <1>0 DEF OneDrainPerWaiter
  <2>9. DeadAreUnlinked'
    BY DEF DeadAreUnlinked, Executing
  <2> QED
    BY <2>4, <2>5, <2>6, <2>7, <2>8, <2>9
<1>2. CASE WaitSuspend(c)
  <2> USE <1>2 DEF WaitSuspend, Suspend
  <2>2. TypeOK'
    OBVIOUS
  <2>3. SingleQueueMembership' /\ WaitersWait'
    BY <1>0 DEF SingleQueueMembership, WaitersWait
  <2>4. ExecutingIsUnlinked'
    BY <1>0 DEF ExecutingIsUnlinked, Executing
  <2>5. OneDrainPerWaiter'
    BY <1>0 DEF OneDrainPerWaiter
  <2>6. DeadAreUnlinked'
    BY DEF DeadAreUnlinked, Executing
  <2> QED
    BY <2>2, <2>3, <2>4, <2>5, <2>6
<1> QED
  BY <1>1, <1>2

\* The drain moves every waiter from the shared list to the local one.
LEMMA DrainPreservesQueueInv ==
  ASSUME QueueInv, NEW c \in Coroutines, DoneDrain(c)
  PROVE  QueueInv'
<1> USE HomeAssumption, NullAssumption
    DEF QueueInv, TypeOK, ThreadTypeOK, WgPC, At, threadVars, DoneDrain
<1>1. /\ toWake'[c] = wgWaiters /\ ToSet(wgWaiters') = {} /\ IsInjective(wgWaiters')
      /\ wpc[c] = "drain" /\ wpc'[c] = IF wgWaiters = <<>> THEN "out" ELSE "wake"
      /\ \A d \in Coroutines \ {c} : wpc'[d] = wpc[d] /\ toWake'[d] = toWake[d]
      /\ ToSet(wgWaiters) \subseteq Coroutines
      /\ wgWaiters = <<>> => ToSet(wgWaiters) = {}
  BY EmptyQueue, QueueElements
<1>2. /\ DrainedBy(c) = {} /\ DrainedBy(c)' = ToSet(wgWaiters)
      /\ \A d \in Coroutines \ {c} : DrainedBy(d)' = DrainedBy(d)
  BY <1>1 DEF DrainedBy
<1>3. Drained' = Drained \union ToSet(wgWaiters)
  <2>1. \A w \in Coroutines : w \in Drained' <=> w \in Drained \/ w \in ToSet(wgWaiters)
    <3> SUFFICES ASSUME NEW w \in Coroutines
                 PROVE  w \in Drained' <=> w \in Drained \/ w \in ToSet(wgWaiters)
      OBVIOUS
    <3>1. ASSUME w \in Drained' PROVE w \in Drained \/ w \in ToSet(wgWaiters)
      <4>1. PICK d \in Coroutines : w \in DrainedBy(d)'
        BY <3>1 DEF Drained
      <4>2. w \in DrainedBy(d) \/ w \in ToSet(wgWaiters)
        BY <1>2, <4>1
      <4> QED
        BY <4>2 DEF Drained
    <3>2. ASSUME w \in Drained PROVE w \in Drained'
      <4>1. PICK d \in Coroutines : w \in DrainedBy(d)
        BY <3>2 DEF Drained
      <4>2. w \in DrainedBy(d)'
        BY <1>2, <4>1
      <4> QED
        BY <4>2 DEF Drained
    <3>3. ASSUME w \in ToSet(wgWaiters) PROVE w \in Drained'
      BY <1>2, <3>3 DEF Drained
    <3> QED
      BY <3>1, <3>2, <3>3
  <2>2. Drained \subseteq Coroutines /\ Drained' \subseteq Coroutines
    BY DEF Drained
  <2> QED
    BY <1>1, <2>1, <2>2
<1>4. TypeOK'
  BY <1>1, EmptyQueue
<1>5. SingleQueueMembership'
  BY <1>1, <1>3 DEF SingleQueueMembership
<1>6. WaitersWait'
  <2>1. \A w \in ToSet(wgWaiters) \union Drained : wpc'[w] = wpc[w]
    <3>1. c \notin ToSet(wgWaiters) \union Drained
      BY <1>1 DEF WaitersWait
    <3>2. Drained \subseteq Coroutines
      BY DEF Drained
    <3> QED
      BY <1>1, <3>1, <3>2
  <2> QED
    BY <1>1, <1>3, <2>1 DEF WaitersWait
<1>7. ExecutingIsUnlinked'
  <2> SUFFICES ASSUME NEW d \in Coroutines, Executing(d)'
               PROVE  /\ d \notin ToSet(ready'[home[d]])
                      /\ wpc'[d] # "susp" => d \notin ToSet(pending'[home[d]]) \union Drained'
                      /\ wpc'[d] = "parked" => d \notin ToSet(wgWaiters')
    BY DEF ExecutingIsUnlinked
  <2>1. Executing(d) /\ UNCHANGED <<ready, pending>>
    BY DEF Executing
  <2>2. wpc[d] # "susp" => d \notin ToSet(wgWaiters)
    BY <2>1 DEF ExecutingIsUnlinked, WaitersWait
  <2>3. wpc'[d] # "susp" => wpc[d] # "susp"
    BY <1>1
  <2> QED
    BY <1>1, <1>3, <2>1, <2>2, <2>3 DEF ExecutingIsUnlinked
<1>8. OneDrainPerWaiter'
  <2>1. ASSUME NEW d \in Coroutines, wpc'[d] \in {"wake", "signal"}
        PROVE  toWake'[d] # <<>> /\ IsInjective(toWake'[d])
    BY <1>1, <2>1 DEF OneDrainPerWaiter, SingleQueueMembership
  <2>2. ASSUME NEW d \in Coroutines \ {c}
        PROVE  ToSet(wgWaiters) \intersect DrainedBy(d) = {}
    <3>1. DrainedBy(d) \subseteq Coroutines
      BY DEF DrainedBy
    <3>2. DrainedBy(d) \subseteq Drained
      BY <3>1 DEF Drained
    <3> QED
      BY <3>2 DEF SingleQueueMembership
  <2>3. ASSUME NEW d \in Coroutines, NEW e \in Coroutines, d # e
        PROVE  DrainedBy(d)' \intersect DrainedBy(e)' = {}
    <3>1. CASE d = c
      BY <1>2, <2>2, <2>3, <3>1
    <3>2. CASE e = c
      BY <1>2, <2>2, <2>3, <3>2
    <3>3. CASE d # c /\ e # c
      BY <1>2, <2>3, <3>3 DEF OneDrainPerWaiter
    <3> QED
      BY <3>1, <3>2, <3>3
  <2> QED
    BY <2>1, <2>3 DEF OneDrainPerWaiter
<1>9. DeadAreUnlinked'
  BY <1>1 DEF DeadAreUnlinked, Executing
<1> QED
  BY <1>4, <1>5, <1>6, <1>7, <1>8, <1>9

\* What a done has in its hands before and after a resume.
LEMMA HeadLeavesHands ==
  ASSUME QueueInv, NEW c \in Coroutines, wpc[c] = "wake", NEW w, w = Head(toWake[c]),
         \/ wpc'[c] = NextLabel(c) /\ toWake'[c] = Tail(toWake[c])
         \/ wpc'[c] = "signal" /\ toWake'[c] = toWake[c],
         \A d \in Coroutines \ {c} : wpc'[d] = wpc[d] /\ toWake'[d] = toWake[d]
  PROVE  /\ w \in Coroutines /\ w \in DrainedBy(c) /\ w \in Drained
         /\ Drained' = Drained \ {w}
         /\ OneDrainPerWaiter'
         /\ Tail(toWake[c]) \in Seq(Coroutines)
<1> USE DEF QueueInv, TypeOK, WgPC
<1>1. /\ toWake[c] \in Seq(Coroutines) /\ toWake[c] # <<>> /\ IsInjective(toWake[c])
  BY DEF OneDrainPerWaiter
<1>2. PICK q, r : q = toWake[c] /\ r = Tail(q)
  OBVIOUS
<1>3. /\ w \in Coroutines /\ w \in ToSet(q) /\ r \in Seq(Coroutines)
      /\ IsInjective(r) /\ ToSet(r) = ToSet(q) \ {w} /\ ToSet(q) \subseteq Coroutines
  BY <1>1, <1>2, PopQueue, QueueElements
<1>4. Len(q) \in Nat \ {0} /\ Len(r) = Len(q) - 1
  BY <1>1, <1>2, HeadTailProperties, LenProperties, EmptySeq
<1>5. /\ Len(q) = 1 => ToSet(r) = {} /\ r = <<>>
      /\ Len(q) # 1 => r # <<>>
  <2>1. r = <<>> <=> Len(r) = 0
    BY <1>3, EmptySeq
  <2>2. Len(q) = 1 <=> Len(r) = 0
    BY <1>4
  <2> QED
    BY <2>1, <2>2, EmptyQueue
<1>6. DrainedBy(c) = ToSet(q) /\ DrainedBy(c)' = ToSet(r)
  <2>1. DrainedBy(c) = ToSet(q)
    BY <1>2, <1>3 DEF DrainedBy
  <2>2. ASSUME wpc'[c] = "signal", toWake'[c] = toWake[c]
        PROVE  DrainedBy(c)' = ToSet(r)
    <3>1. Tail(toWake'[c]) = r /\ wpc'[c] # "wake"
      BY <1>2, <2>2
    <3>2. ToSet(r) \subseteq Coroutines
      BY <1>3
    <3> QED
      BY <2>2, <3>1, <3>2 DEF DrainedBy
  <2>3. ASSUME wpc'[c] = NextLabel(c), toWake'[c] = Tail(toWake[c]), Len(q) = 1
        PROVE  DrainedBy(c)' = ToSet(r)
    BY <1>2, <1>5, <2>3 DEF DrainedBy, NextLabel
  <2>4. ASSUME wpc'[c] = NextLabel(c), toWake'[c] = Tail(toWake[c]), Len(q) # 1
        PROVE  DrainedBy(c)' = ToSet(r)
    BY <1>2, <1>3, <2>4 DEF DrainedBy, NextLabel
  <2> QED
    BY <2>1, <2>2, <2>3, <2>4
<1>7. \A d \in Coroutines \ {c} : DrainedBy(d)' = DrainedBy(d)
  BY DEF DrainedBy
<1>8. \A d \in Coroutines \ {c} : w \notin DrainedBy(d)
  BY <1>3, <1>6 DEF OneDrainPerWaiter
<1>9. Drained' = Drained \ {w}
  <2>1. \A x \in Coroutines : x \in Drained' <=> x \in Drained /\ x # w
    <3> SUFFICES ASSUME NEW x \in Coroutines
                 PROVE  x \in Drained' <=> x \in Drained /\ x # w
      OBVIOUS
    <3>1. ASSUME x \in Drained' PROVE x \in Drained /\ x # w
      <4>1. PICK d \in Coroutines : x \in DrainedBy(d)'
        BY <3>1 DEF Drained
      <4>2. x \in DrainedBy(d) /\ x # w
        BY <1>3, <1>6, <1>7, <1>8, <4>1
      <4> QED
        BY <4>2 DEF Drained
    <3>2. ASSUME x \in Drained, x # w PROVE x \in Drained'
      <4>1. PICK d \in Coroutines : x \in DrainedBy(d)
        BY <3>2 DEF Drained
      <4>2. x \in DrainedBy(d)'
        BY <1>3, <1>6, <1>7, <3>2, <4>1
      <4> QED
        BY <4>2 DEF Drained
    <3> QED
      BY <3>1, <3>2
  <2>2. Drained \subseteq Coroutines /\ Drained' \subseteq Coroutines
    BY DEF Drained
  <2> QED
    BY <2>1, <2>2
<1>10. OneDrainPerWaiter'
  <2>1. ASSUME NEW d \in Coroutines, wpc'[d] \in {"wake", "signal"}
        PROVE  toWake'[d] # <<>> /\ IsInjective(toWake'[d])
    <3>1. CASE d # c
      BY <2>1, <3>1 DEF OneDrainPerWaiter
    <3>2. CASE d = c
      BY <1>1, <1>2, <1>3, <1>5, <2>1, <3>2 DEF NextLabel
    <3> QED
      BY <3>1, <3>2
  <2>2. \A d \in Coroutines : DrainedBy(d)' \subseteq DrainedBy(d)
    BY <1>3, <1>6, <1>7
  <2> QED
    BY <2>1, <2>2 DEF OneDrainPerWaiter
<1> QED
  BY <1>2, <1>3, <1>6, <1>9, <1>10 DEF Drained

\* A resume keeps the types.
LEMMA ResumeKeepsTypes ==
  ASSUME TypeOK,
         ready' \in [Threads -> Seq(Coroutines)],
         pending' \in [Threads -> Seq(Coroutines)],
         UNCHANGED <<running, tpc, wakefd, live, count, sawZero, wgWaiters>>,
         wpc' \in [Coroutines -> WgPC],
         toWake' \in [Coroutines -> Seq(Coroutines)]
  PROVE  TypeOK'
  BY DEF TypeOK, ThreadTypeOK

\* The head of the local list enters a list of its own scheduler, and leaves
\* done's hands, in one step.
LEMMA ResumePreservesQueueInv ==
  ASSUME QueueInv, NEW c \in Coroutines, DoneWakesHere(c) \/ DoneWakesThere(c)
  PROVE  QueueInv'
<1> USE HomeAssumption, NullAssumption
    DEF QueueInv, TypeOK, ThreadTypeOK, WgPC, At
<1>1. PICK w : w = Head(toWake[c])
  OBVIOUS
<1>2. /\ wpc[c] = "wake"
      /\ \/ wpc'[c] = NextLabel(c) /\ toWake'[c] = Tail(toWake[c])
         \/ wpc'[c] = "signal" /\ toWake'[c] = toWake[c]
      /\ \A d \in Coroutines \ {c} : wpc'[d] = wpc[d] /\ toWake'[d] = toWake[d]
  BY DEF DoneWakesHere, DoneWakesThere
<1>3. /\ w \in Coroutines /\ w \in Drained /\ Drained' = Drained \ {w}
      /\ OneDrainPerWaiter' /\ Tail(toWake[c]) \in Seq(Coroutines)
  BY <1>1, <1>2, HeadLeavesHands
<1>4. /\ home[w] \in Threads /\ w \in Coroutines
      /\ wpc[w] \in {"susp", "parked"} /\ w # c
      /\ w \notin ToSet(wgWaiters)
      /\ \A t \in Threads : w \notin ToSet(ready[t]) \union ToSet(pending[t])
      /\ w \in live
  BY <1>2, <1>3 DEF WaitersWait, SingleQueueMembership, DeadAreUnlinked
<1>5. /\ wpc' \in [Coroutines -> WgPC] /\ count' = count /\ sawZero' = sawZero
      /\ toWake' \in [Coroutines -> Seq(Coroutines)] /\ wgWaiters' = wgWaiters
  <2>1. CASE DoneWakesHere(c)
    <3>1. NextLabel(c) \in WgPC
      BY DEF NextLabel
    <3>2. /\ wpc' = [wpc EXCEPT ![c] = NextLabel(c)]
          /\ toWake' = [toWake EXCEPT ![c] = Tail(toWake[c])]
          /\ UNCHANGED <<count, sawZero, wgWaiters>>
      BY <2>1 DEF DoneWakesHere
    <3> QED
      BY <1>3, <3>1, <3>2
  <2>2. CASE DoneWakesThere(c)
    BY <2>2 DEF DoneWakesThere
  <2> QED
    BY <2>1, <2>2
<1>6. CASE DoneWakesHere(c)
  <2> USE <1>6 DEF DoneWakesHere, ResumeHere, Resume
  <2>1. /\ ready'[home[w]] \in Seq(Coroutines)
        /\ IsInjective(ready'[home[w]])
        /\ ToSet(ready'[home[w]]) = ToSet(ready[home[w]]) \union {w}
        /\ \A t \in Threads \ {home[w]} : ready'[t] = ready[t]
    BY <1>1, <1>4, PushQueue DEF SingleQueueMembership
  <2>2. TypeOK'
    <3>1. ready' \in [Threads -> Seq(Coroutines)]
      BY <1>4, <2>1
    <3>2. UNCHANGED <<running, pending, tpc, wakefd, live>>
      OBVIOUS
    <3>3. TypeOK /\ pending' \in [Threads -> Seq(Coroutines)]
      BY <3>2
    <3> HIDE <1>6 DEF TypeOK, ThreadTypeOK, WgPC
    <3> QED
      BY <1>5, <3>1, <3>2, <3>3, ResumeKeepsTypes
  <2>3. SingleQueueMembership'
    <3>1. UNCHANGED <<pending, wgWaiters>>
      BY <1>5
    <3> HIDE <1>6 DEF TypeOK, WgPC, At
    <3>2. ASSUME NEW t \in Threads
          PROVE  /\ IsInjective(ready'[t]) /\ IsInjective(pending'[t])
                 /\ ToSet(ready'[t]) \intersect ToSet(pending'[t]) = {}
                 /\ \A d \in ToSet(ready'[t]) \union ToSet(pending'[t]) :
                      home[d] = t /\ d \notin ToSet(wgWaiters) \union Drained'
      <4>1. CASE t = home[w]
        BY <1>3, <1>4, <2>1, <3>1, <4>1 DEF SingleQueueMembership
      <4>2. CASE t # home[w]
        BY <1>3, <2>1, <3>1, <4>2 DEF SingleQueueMembership
      <4> QED
        BY <4>1, <4>2
    <3> QED
      BY <1>3, <3>1, <3>2 DEF SingleQueueMembership
  <2>4. WaitersWait'
    BY <1>3, <1>4 DEF WaitersWait
  <2>5. ExecutingIsUnlinked'
    <3>1. /\ Executing(c) /\ home[w] = home[c]
          /\ UNCHANGED <<running, tpc, pending, wgWaiters>>
      BY <1>1
    <3>2. ASSUME NEW d \in Coroutines, Executing(d)'
          PROVE  Executing(d) /\ d # w
      BY <1>4, <3>1, <3>2 DEF Executing
    <3>3. \A d \in Coroutines, l \in {"susp", "parked"} :
            wpc'[d] = l <=> wpc[d] = l
      BY <1>2 DEF NextLabel
    <3> QED
      BY <1>3, <1>4, <2>1, <3>1, <3>2, <3>3 DEF ExecutingIsUnlinked
  <2>6. OneDrainPerWaiter'
    BY <1>3
  <2>7. DeadAreUnlinked'
    BY <1>4, <2>1 DEF DeadAreUnlinked, Executing
  <2> QED
    BY <2>2, <2>3, <2>4, <2>5, <2>6, <2>7
<1>7. CASE DoneWakesThere(c)
  <2> USE <1>7 DEF DoneWakesThere, ResumeThere, PushPending
  <2>1. /\ pending'[home[w]] \in Seq(Coroutines)
        /\ IsInjective(pending'[home[w]])
        /\ ToSet(pending'[home[w]]) = ToSet(pending[home[w]]) \union {w}
        /\ \A t \in Threads \ {home[w]} : pending'[t] = pending[t]
    BY <1>1, <1>4, PushQueue DEF SingleQueueMembership
  <2>2. TypeOK'
    <3>1. pending' \in [Threads -> Seq(Coroutines)]
      BY <1>4, <2>1
    <3>2. UNCHANGED <<running, ready, tpc, wakefd, live>>
      OBVIOUS
    <3>3. TypeOK /\ ready' \in [Threads -> Seq(Coroutines)]
      BY <3>2
    <3> HIDE <1>7 DEF TypeOK, ThreadTypeOK, WgPC
    <3> QED
      BY <1>5, <3>1, <3>2, <3>3, ResumeKeepsTypes
  <2>3. SingleQueueMembership'
    <3>1. UNCHANGED <<ready, wgWaiters>>
      BY <1>5
    <3> HIDE <1>7 DEF TypeOK, WgPC, At
    <3>2. ASSUME NEW t \in Threads
          PROVE  /\ IsInjective(ready'[t]) /\ IsInjective(pending'[t])
                 /\ ToSet(ready'[t]) \intersect ToSet(pending'[t]) = {}
                 /\ \A d \in ToSet(ready'[t]) \union ToSet(pending'[t]) :
                      home[d] = t /\ d \notin ToSet(wgWaiters) \union Drained'
      <4>1. CASE t = home[w]
        BY <1>3, <1>4, <2>1, <3>1, <4>1 DEF SingleQueueMembership
      <4>2. CASE t # home[w]
        BY <1>3, <2>1, <3>1, <4>2 DEF SingleQueueMembership
      <4> QED
        BY <4>1, <4>2
    <3> QED
      BY <1>3, <3>1, <3>2 DEF SingleQueueMembership
  <2>4. WaitersWait'
    BY <1>3, <1>4 DEF WaitersWait
  <2>5. ExecutingIsUnlinked'
    <3>1. /\ wpc[c] = "wake" /\ wpc' = [wpc EXCEPT ![c] = "signal"]
          /\ UNCHANGED <<running, ready, tpc, wgWaiters>>
      OBVIOUS
    <3>2. ASSUME NEW d \in Coroutines, Executing(d)'
          PROVE  /\ Executing(d)
                 /\ wpc'[d] # "susp" /\ d # c => wpc[d] # "susp" /\ d # w
      <4>1. Executing(d)
        BY <3>1, <3>2 DEF Executing
      <4>2. d = w /\ wpc[d] # "susp" => FALSE
        BY <1>3, <1>4, <4>1 DEF ExecutingIsUnlinked
      <4> QED
        BY <3>1, <4>1, <4>2
    <3>3. \A t \in Threads : ToSet(pending'[t]) \subseteq ToSet(pending[t]) \union {w}
      BY <2>1
    <3> QED
      BY <1>3, <1>4, <3>1, <3>2, <3>3 DEF ExecutingIsUnlinked
  <2>6. OneDrainPerWaiter'
    BY <1>3
  <2>7. DeadAreUnlinked'
    BY <1>4, <2>1 DEF DeadAreUnlinked, Executing
  <2> QED
    BY <2>2, <2>3, <2>4, <2>5, <2>6, <2>7
<1> QED
  BY <1>6, <1>7

\* aeWakeup touches no list; what done has left in its hands is the same.
LEMMA SignalPreservesQueueInv ==
  ASSUME QueueInv, NEW c \in Coroutines, DoneSignals(c)
  PROVE  QueueInv'
<1> USE HomeAssumption, NullAssumption
    DEF QueueInv, TypeOK, ThreadTypeOK, WgPC, At, AeWakeup,
        DoneSignals, WakeThere
<1>1. PICK q, r : q = toWake[c] /\ r = Tail(q)
  OBVIOUS
<1>2. /\ q \in Seq(Coroutines) /\ q # <<>> /\ IsInjective(q)
      /\ wpc[c] = "signal" /\ toWake'[c] = r
      /\ wpc'[c] = IF Len(q) = 1 THEN "out" ELSE "wake"
      /\ \A d \in Coroutines \ {c} : wpc'[d] = wpc[d] /\ toWake'[d] = toWake[d]
  BY <1>1 DEF OneDrainPerWaiter, NextLabel
<1>3. /\ r \in Seq(Coroutines) /\ IsInjective(r) /\ ToSet(r) \subseteq Coroutines
  BY <1>1, <1>2, PopQueue, QueueElements
<1>4. Len(q) \in Nat \ {0} /\ Len(r) = Len(q) - 1
  BY <1>1, <1>2, HeadTailProperties, LenProperties, EmptySeq
<1>5. /\ Len(q) = 1 => ToSet(r) = {} /\ r = <<>>
      /\ Len(q) # 1 => r # <<>>
  <2>1. r = <<>> <=> Len(r) = 0
    BY <1>3, EmptySeq
  <2>2. Len(q) = 1 <=> Len(r) = 0
    BY <1>4
  <2> QED
    BY <2>1, <2>2, EmptyQueue
<1>6. /\ \A d \in Coroutines : DrainedBy(d)' = DrainedBy(d)
      /\ Drained' = Drained
  <2>1. DrainedBy(c) = ToSet(r) /\ DrainedBy(c)' = ToSet(r)
    BY <1>1, <1>2, <1>3, <1>5 DEF DrainedBy
  <2>2. \A d \in Coroutines \ {c} : DrainedBy(d)' = DrainedBy(d)
    BY <1>2 DEF DrainedBy
  <2>3. \A d \in Coroutines : DrainedBy(d)' = DrainedBy(d)
    BY <2>1, <2>2
  <2> QED
    BY <2>3 DEF Drained
<1>7. TypeOK'
  BY <1>1, <1>3 DEF NextLabel
<1>8. SingleQueueMembership'
  BY <1>6 DEF SingleQueueMembership
<1>9. WaitersWait'
  <2>1. c \notin ToSet(wgWaiters) \union Drained
    BY <1>2 DEF WaitersWait
  <2>2. ToSet(wgWaiters) \subseteq Coroutines /\ Drained \subseteq Coroutines
    BY QueueElements DEF Drained
  <2> QED
    BY <1>2, <1>6, <2>1, <2>2 DEF WaitersWait
<1>10. ExecutingIsUnlinked'
  BY <1>2, <1>6 DEF ExecutingIsUnlinked, Executing
<1>11. OneDrainPerWaiter'
  <2>1. ASSUME NEW d \in Coroutines, wpc'[d] \in {"wake", "signal"}
        PROVE  toWake'[d] # <<>> /\ IsInjective(toWake'[d])
    BY <1>2, <1>3, <1>5, <2>1 DEF OneDrainPerWaiter
  <2> QED
    BY <1>6, <2>1 DEF OneDrainPerWaiter
<1>12. DeadAreUnlinked'
  BY <1>2 DEF DeadAreUnlinked, Executing
<1> QED
  BY <1>7, <1>8, <1>9, <1>10, <1>11, <1>12

-----------------------------------------------------------------------------
\* yld, async and epilogue move the running coroutine to ready, or drop it,
\* from a state in which it is in no list.
LEMMA UserPreservesQueueInv ==
  ASSUME QueueInv, NEW c \in Coroutines, UserStep(c)
  PROVE  QueueInv'
<1> USE HomeAssumption, NullAssumption
    DEF QueueInv, TypeOK, ThreadTypeOK, WgPC, wgVars
<1>1. Drained' = Drained /\ UNCHANGED wgVars
  BY DEF UserStep, Drained, DrainedBy
<1>2. Executing(c) /\ wpc[c] = "out" /\ home[c] \in Threads
  BY DEF UserStep, Yield, Async, Epilogue
<1>3. /\ c \notin ToSet(wgWaiters) \union Drained
      /\ c \notin ToSet(ready[home[c]]) \union ToSet(pending[home[c]])
  BY <1>2 DEF WaitersWait, ExecutingIsUnlinked
<1>4. WaitersWait'
  BY <1>1 DEF WaitersWait
<1>5. OneDrainPerWaiter'
  BY <1>1 DEF OneDrainPerWaiter, DrainedBy
<1>6. ASSUME Resume(c)
      PROVE  /\ ready' \in [Threads -> Seq(Coroutines)]
             /\ IsInjective(ready'[home[c]])
             /\ ToSet(ready'[home[c]]) = ToSet(ready[home[c]]) \union {c}
             /\ \A t \in Threads \ {home[c]} : ready'[t] = ready[t]
  <2>1. /\ Append(ready[home[c]], c) \in Seq(Coroutines)
        /\ ToSet(Append(ready[home[c]], c)) = ToSet(ready[home[c]]) \union {c}
        /\ IsInjective(Append(ready[home[c]], c))
    BY <1>2, <1>3, PushQueue DEF SingleQueueMembership
  <2> QED
    BY <1>2, <1>6, <2>1 DEF Resume
<1>7. ASSUME Resume(c), UNCHANGED pending
       PROVE  SingleQueueMembership'
  <2>1. /\ IsInjective(ready'[home[c]])
        /\ ToSet(ready'[home[c]]) = ToSet(ready[home[c]]) \union {c}
        /\ \A t \in Threads \ {home[c]} : ready'[t] = ready[t]
    BY <1>6, <1>7
  <2>2. ASSUME NEW t \in Threads
        PROVE  /\ IsInjective(ready'[t]) /\ IsInjective(pending'[t])
               /\ ToSet(ready'[t]) \intersect ToSet(pending'[t]) = {}
               /\ \A d \in ToSet(ready'[t]) \union ToSet(pending'[t]) :
                    home[d] = t /\ d \notin ToSet(wgWaiters) \union Drained
    <3>1. CASE t = home[c]
      BY <1>2, <1>3, <1>7, <2>1, <3>1 DEF SingleQueueMembership
    <3>2. CASE t # home[c]
      BY <1>7, <2>1, <3>2 DEF SingleQueueMembership
    <3> QED
      BY <3>1, <3>2
  <2> QED
    BY <1>1, <2>2 DEF SingleQueueMembership
<1>8. c \in live
  BY <1>2 DEF DeadAreUnlinked
<1>9. CASE Yield(c)
  <2>1. Resume(c) /\ UNCHANGED <<running, pending, wakefd, live>>
    BY <1>9 DEF Yield
  <2>2. /\ ready' \in [Threads -> Seq(Coroutines)]
        /\ ToSet(ready'[home[c]]) = ToSet(ready[home[c]]) \union {c}
        /\ \A t \in Threads \ {home[c]} : ready'[t] = ready[t]
    BY <1>6, <2>1
  <2>3. SingleQueueMembership'
    BY <1>7, <2>1
  <2>4. tpc' = [tpc EXCEPT ![home[c]] = "sched"]
    BY <1>9 DEF Yield, Suspend
  <2>5. TypeOK'
    BY <1>1, <2>1, <2>2, <2>4
  <2>6. ExecutingIsUnlinked'
    BY <1>1, <1>2, <2>1, <2>2, <2>4 DEF ExecutingIsUnlinked, Executing
  <2>7. DeadAreUnlinked'
    <3>1. ASSUME NEW d \in Coroutines \ live' PROVE ~Executing(d)'
      BY <1>1, <2>1, <2>4, <3>1 DEF DeadAreUnlinked, Executing
    <3>2. ASSUME NEW d \in Coroutines \ live', NEW t \in Threads
          PROVE  d \notin ToSet(ready'[t]) \union ToSet(pending'[t])
      <4>1. d # c /\ d \notin ToSet(ready[t]) \union ToSet(pending[t])
        BY <1>8, <2>1, <3>2 DEF DeadAreUnlinked
      <4>2. ToSet(ready'[t]) \subseteq ToSet(ready[t]) \union {c}
        BY <2>2
      <4> QED
        BY <2>1, <4>1, <4>2
    <3> QED
      BY <1>1, <2>1, <3>1, <3>2 DEF DeadAreUnlinked
  <2> QED
    BY <1>4, <1>5, <2>3, <2>5, <2>6, <2>7
<1>10. ASSUME NEW d \in Coroutines, Async(c, d)
      PROVE  QueueInv'
  <2>1. SingleQueueMembership'
    BY <1>10, <1>7 DEF Async
  <2>2. /\ ready' \in [Threads -> Seq(Coroutines)]
        /\ ToSet(ready'[home[c]]) = ToSet(ready[home[c]]) \union {c}
        /\ \A t \in Threads \ {home[c]} : ready'[t] = ready[t]
    BY <1>6, <1>10 DEF Async
  <2>3. d # c /\ wpc[d] = "out" /\ d \notin ToSet(wgWaiters) \union Drained
    BY <1>2, <1>10 DEF Async, DeadAreUnlinked, WaitersWait
  <2>4. /\ d \notin ToSet(ready[home[c]]) \union ToSet(pending[home[c]])
        /\ home[d] = home[c] /\ d \notin live
    BY <1>2, <1>10 DEF Async, DeadAreUnlinked
  <2>5. TypeOK'
    BY <1>1, <1>10, <2>2 DEF Async
  <2>6. ExecutingIsUnlinked'
    <3>1. ASSUME NEW e \in Coroutines, Executing(e)'
          PROVE  e = d \/ (Executing(e) /\ home[e] # home[c])
      BY <1>2, <1>10, <2>4, <3>1 DEF Executing, Async
    <3>2. ASSUME NEW e \in Coroutines, Executing(e), home[e] # home[c]
          PROVE  ready'[home[e]] = ready[home[e]] /\ pending' = pending
      BY <1>10, <2>2, <3>2 DEF Async
    <3>3. /\ d \notin ToSet(ready'[home[d]]) \union ToSet(pending'[home[d]])
          /\ d \notin ToSet(wgWaiters) \union Drained
      BY <1>10, <2>2, <2>3, <2>4 DEF Async
    <3> QED
      BY <1>1, <3>1, <3>2, <3>3 DEF ExecutingIsUnlinked
  <2>7. DeadAreUnlinked'
    <3>1. ASSUME NEW e \in Coroutines \ live'
          PROVE  e \notin {c, d} /\ e \notin live /\ ~Executing(e)'
      BY <1>8, <1>10, <3>1 DEF DeadAreUnlinked, Executing, Async
    <3>2. ASSUME NEW e \in Coroutines \ live', NEW t \in Threads
          PROVE  e \notin ToSet(ready'[t]) \union ToSet(pending'[t])
      <4>1. e # c /\ e \notin ToSet(ready[t]) \union ToSet(pending[t])
        BY <3>1 DEF DeadAreUnlinked
      <4>2. ToSet(ready'[t]) \subseteq ToSet(ready[t]) \union {c}
        BY <2>2
      <4> QED
        BY <1>10, <4>1, <4>2 DEF Async
    <3> QED
      BY <1>1, <3>1, <3>2 DEF DeadAreUnlinked
  <2> QED
    BY <1>4, <1>5, <2>1, <2>5, <2>6, <2>7
<1>11. CASE Epilogue(c)
  <2>1. SingleQueueMembership'
    BY <1>1, <1>11 DEF SingleQueueMembership, Epilogue
  <2>2. \A t \in Threads : c \notin ToSet(ready[t]) \union ToSet(pending[t])
    BY <1>3 DEF SingleQueueMembership
  <2>3. ExecutingIsUnlinked'
    <3>1. ASSUME NEW d \in Coroutines, Executing(d)' PROVE Executing(d)
      BY <1>2, <1>11, <3>1 DEF Executing, Epilogue, Suspend
    <3>2. UNCHANGED <<ready, pending>>
      BY <1>11 DEF Epilogue
    <3> QED
      BY <1>1, <3>1, <3>2 DEF ExecutingIsUnlinked
  <2>4. DeadAreUnlinked' /\ TypeOK'
    BY <1>1, <1>2, <1>11, <2>2 DEF DeadAreUnlinked, Executing, Epilogue, Suspend
  <2> QED
    BY <1>4, <1>5, <2>1, <2>3, <2>4
<1> QED
  BY <1>9, <1>10, <1>11 DEF UserStep

-----------------------------------------------------------------------------
\* The scheduler's loop moves pending to the end of ready and runs the head:
\* a coroutine that is in no other list.
LEMMA ThreadPreservesQueueInv ==
  ASSUME QueueInv, NEW t \in Threads, ThreadStep(t)
  PROVE  QueueInv'
<1> USE HomeAssumption, NullAssumption
    DEF QueueInv, TypeOK, ThreadTypeOK, WgPC, wgVars
<1>1. Drained' = Drained /\ UNCHANGED wgVars
  BY DEF ThreadStep, Drained, DrainedBy
<1>2. WaitersWait' /\ OneDrainPerWaiter'
  BY <1>1 DEF WaitersWait, OneDrainPerWaiter, DrainedBy
<1>3. CASE Dispatch(t)
  <2> DEFINE q == ready[t] \o pending[t]
  <2>1. /\ q \in Seq(Coroutines) /\ IsInjective(q)
        /\ ToSet(q) = ToSet(ready[t]) \union ToSet(pending[t])
    BY DrainQueue DEF SingleQueueMembership
  <2>2. /\ pending' \in [Threads -> Seq(Coroutines)]
        /\ ToSet(pending'[t]) = {} /\ IsInjective(pending'[t])
        /\ \A u \in Threads \ {t} : pending'[u] = pending[u]
        /\ UNCHANGED <<wakefd, live>>
    BY <1>3, EmptyQueue DEF Dispatch, ProcessPending
  <2>3. CASE q = <<>>
    <3>1. UNCHANGED <<running, ready>> /\ tpc' = [tpc EXCEPT ![t] = "poll"]
      BY <1>3, <2>3 DEF Dispatch, ProcessPending
    <3>2. SingleQueueMembership'
      BY <1>1, <2>2, <3>1 DEF SingleQueueMembership
    <3>3. ExecutingIsUnlinked' /\ DeadAreUnlinked' /\ TypeOK'
      BY <1>1, <2>2, <3>1 DEF ExecutingIsUnlinked, DeadAreUnlinked, Executing
    <3> QED
      BY <1>2, <3>2, <3>3
  <2>4. CASE q # <<>>
    <3> DEFINE h == Head(q)
    <3>1. /\ running' = [running EXCEPT ![t] = h]
          /\ ready' = [ready EXCEPT ![t] = Tail(q)]
          /\ tpc' = [tpc EXCEPT ![t] = "run"]
      BY <1>3, <2>4 DEF Dispatch, ProcessPending
    <3>2. /\ h \in Coroutines /\ h \in ToSet(q)
          /\ Tail(q) \in Seq(Coroutines) /\ IsInjective(Tail(q))
          /\ ToSet(Tail(q)) = ToSet(q) \ {h}
      BY <2>1, <2>4, PopQueue
    <3> HIDE DEF q, h
    <3>3. /\ home[h] = t /\ h \notin ToSet(wgWaiters) \union Drained /\ h \in live
      BY <2>1, <3>2 DEF SingleQueueMembership, DeadAreUnlinked
    <3>4. TypeOK'
      BY <1>1, <2>2, <3>1, <3>2
    <3>5. ready'[t] = Tail(q) /\ \A u \in Threads \ {t} : ready'[u] = ready[u]
      BY <3>1
    <3>6. SingleQueueMembership'
      <4>1. ASSUME NEW u \in Threads
            PROVE  /\ IsInjective(ready'[u]) /\ IsInjective(pending'[u])
                   /\ ToSet(ready'[u]) \intersect ToSet(pending'[u]) = {}
                   /\ \A d \in ToSet(ready'[u]) \union ToSet(pending'[u]) :
                        home[d] = u /\ d \notin ToSet(wgWaiters) \union Drained
        <5>1. CASE u = t
          BY <2>1, <2>2, <3>2, <3>5, <5>1 DEF SingleQueueMembership
        <5>2. CASE u # t
          BY <2>2, <3>5, <5>2 DEF SingleQueueMembership
        <5> QED
          BY <5>1, <5>2
      <4> QED
        BY <1>1, <4>1 DEF SingleQueueMembership
    <3>7. ExecutingIsUnlinked'
      BY <1>1, <2>1, <2>2, <3>1, <3>2, <3>3 DEF ExecutingIsUnlinked, Executing
    <3>8. DeadAreUnlinked'
      <4>1. ASSUME NEW c \in Coroutines \ live' PROVE ~Executing(c)'
        BY <2>2, <3>1, <3>3, <4>1 DEF DeadAreUnlinked, Executing
      <4> QED
        BY <1>1, <2>1, <2>2, <3>2, <3>5, <4>1 DEF DeadAreUnlinked
    <3> QED
      BY <1>2, <3>4, <3>6, <3>7, <3>8
  <2> QED
    BY <2>3, <2>4
<1>4. CASE PollWakeup(t)
  BY <1>1, <1>2, <1>4
  DEF PollWakeup, SingleQueueMembership, ExecutingIsUnlinked, DeadAreUnlinked,
      Executing
<1> QED
  BY <1>3, <1>4 DEF ThreadStep

-----------------------------------------------------------------------------
\* QueueInv is inductive.
LEMMA NextPreservesQueueInv == QueueInv /\ [Next]_vars => QueueInv'
<1> SUFFICES ASSUME QueueInv, [Next]_vars PROVE QueueInv'
  OBVIOUS
<1>1. ASSUME NEW c \in Coroutines, WgStep(c) PROVE QueueInv'
  BY <1>1, CountStepPreservesQueueInv, WaitPreservesQueueInv,
     DrainPreservesQueueInv, ResumePreservesQueueInv, SignalPreservesQueueInv
  DEF WgStep, CountStep
<1>2. ASSUME NEW c \in Coroutines, UserStep(c) PROVE QueueInv'
  BY <1>2, UserPreservesQueueInv
<1>3. ASSUME NEW t \in Threads, ThreadStep(t) PROVE QueueInv'
  BY <1>3, ThreadPreservesQueueInv
<1>4. CASE UNCHANGED vars
  BY <1>4 DEF vars, QueueInv, TypeOK, ThreadTypeOK, SingleQueueMembership,
     Drained, DrainedBy, WaitersWait, ExecutingIsUnlinked, OneDrainPerWaiter,
     DeadAreUnlinked, Executing
<1> QED
  BY <1>1, <1>2, <1>3, <1>4 DEF Next

\* The lists of the schedulers, of the wait group and of its done calls stay
\* disjoint, and their elements are where QueueInv says.
THEOREM WaitGroupQueues == Spec => []QueueInv
  BY InitEstablishesQueueInv, NextPreservesQueueInv, PTL DEF Spec

-----------------------------------------------------------------------------
(* The count                                                               *)

\* The steps that touch neither the count nor the waiters' progress: those of
\* the schedulers, and the resumes of done.
LEMMA OtherStepsKeepCount ==
  ASSUME QueueInv,
         \/ UNCHANGED vars
         \/ \E c \in Coroutines : \/ UserStep(c) \/ DoneWakesHere(c)
                                  \/ DoneWakesThere(c) \/ DoneSignals(c)
         \/ \E t \in Threads : ThreadStep(t)
  PROVE  /\ count' = count /\ wgWaiters' = wgWaiters /\ sawZero' = sawZero
         /\ \A d \in Coroutines, l \in {"enq", "susp", "parked", "drain"} :
              wpc'[d] = l <=> wpc[d] = l
<1>1. CASE UNCHANGED vars \/ \E t \in Threads : ThreadStep(t)
  BY <1>1 DEF vars, ThreadStep, wgVars
<1>2. ASSUME NEW c \in Coroutines, UserStep(c) PROVE UNCHANGED wgVars
  BY <1>2 DEF UserStep
<1>3. ASSUME NEW c \in Coroutines,
             DoneWakesHere(c) \/ DoneWakesThere(c) \/ DoneSignals(c)
      PROVE  /\ count' = count /\ wgWaiters' = wgWaiters /\ sawZero' = sawZero
             /\ \A d \in Coroutines, l \in {"enq", "susp", "parked", "drain"} :
                  wpc'[d] = l <=> wpc[d] = l
  BY <1>3 DEF DoneWakesHere, DoneWakesThere, DoneSignals, At, NextLabel,
              QueueInv, TypeOK, WgPC
<1> QED
  BY <1>1, <1>2, <1>3 DEF wgVars

\* Every other step is one of add, done or wait.
LEMMA StepKinds ==
  ASSUME [HNext]_hvars
  PROVE  \/ /\ UNCHANGED <<missed, reused>> \/ HNext
            /\ \/ UNCHANGED vars
               \/ \E c \in Coroutines : \/ UserStep(c) \/ DoneWakesHere(c)
                                        \/ DoneWakesThere(c) \/ DoneSignals(c)
               \/ \E t \in Threads : ThreadStep(t)
         \/ /\ HNext
            /\ \E c \in Coroutines :
                 \/ Add(c) \/ Done(c) \/ DoneDrain(c) \/ WaitBlocks(c)
                 \/ WaitEnqueue(c) \/ WaitSuspend(c) \/ WaitReturns(c)
  BY DEF HNext, Next, WgStep, hvars, vars

\* No drain is under way, the count is positive, or the count is zero and
\* everybody in wait has seen it so.
LEMMA NextPreservesZeroInv ==
  ASSUME QueueInv, ZeroInv, [HNext]_hvars
  PROVE  ZeroInv'
<1> DEFINE Draining == \E d \in Coroutines : wpc[d] = "drain"
<1> SUFFICES ASSUME ~reused'
             PROVE  /\ Draining' =>
                         count' = 0 /\ \A d \in Coroutines : InWait(d)' => sawZero'[d]
                    /\ \A d \in Coroutines :
                         wpc'[d] \in {"susp", "parked"} /\ d \notin ToSet(wgWaiters')
                           => sawZero'[d]
  BY DEF ZeroInv
<1>1. ~reused /\ (HNext => ~ReusedStep)
  <2>1. CASE HNext
    <3>1. reused' = (reused \/ ReusedStep)
      BY <2>1 DEF HNext
    <3> QED
      BY <3>1
  <2>2. CASE UNCHANGED hvars
    <3>1. reused' = reused
      BY <2>2 DEF hvars
    <3>2. HNext => reused' = (reused \/ ReusedStep)
      BY DEF HNext
    <3> QED
      BY <3>1, <3>2
  <2> QED
    BY <2>1, <2>2
<1> USE DEF QueueInv, TypeOK, WgPC, InWait
<1>2. /\ Draining => count = 0 /\ \A d \in Coroutines : InWait(d) => sawZero[d]
      /\ \A d \in Coroutines :
           wpc[d] \in {"susp", "parked"} /\ d \notin ToSet(wgWaiters) => sawZero[d]
  BY <1>1 DEF ZeroInv
<1>3. ASSUME \/ UNCHANGED vars
             \/ \E c \in Coroutines : \/ UserStep(c) \/ DoneWakesHere(c)
                                      \/ DoneWakesThere(c) \/ DoneSignals(c)
             \/ \E t \in Threads : ThreadStep(t)
      PROVE  ZeroInv'
  <2>1. /\ count' = count /\ wgWaiters' = wgWaiters /\ sawZero' = sawZero
        /\ \A d \in Coroutines, l \in {"enq", "susp", "parked", "drain"} :
             wpc'[d] = l <=> wpc[d] = l
    BY <1>3, OtherStepsKeepCount
  <2>2. Draining' => Draining
    BY <2>1
  <2>3. \A d \in Coroutines : InWait(d)' => InWait(d)
    BY <2>1
  <2> QED
    BY <1>2, <2>1, <2>2, <2>3 DEF ZeroInv
<1>4. ASSUME NEW c \in Coroutines, Add(c), HNext PROVE ZeroInv'
  <2>1. count' > count /\ UNCHANGED <<wgWaiters, wpc, sawZero>>
    BY <1>4, MaxCountAssumption DEF Add
  <2>2. ~Draining
    BY <1>1, <1>4, <2>1 DEF ReusedStep
  <2> QED
    BY <1>2, <2>1, <2>2 DEF ZeroInv
<1>5. ASSUME NEW c \in Coroutines, Done(c) PROVE ZeroInv'
  <2>1. /\ count > 0 /\ count' = count - 1 /\ wgWaiters' = wgWaiters
        /\ wpc[c] = "out" /\ wpc'[c] = IF count = 1 THEN "drain" ELSE "out"
        /\ \A d \in Coroutines \ {c} : wpc'[d] = wpc[d]
        /\ \A d \in Coroutines :
             sawZero'[d] = (sawZero[d] \/ (count = 1 /\ InWait(d)))
    BY <1>5 DEF Done, At
  <2>2. ~Draining
    BY <1>2, <2>1
  <2>3. \A d \in Coroutines : InWait(d)' => InWait(d) /\ wpc'[d] = wpc[d]
    BY <2>1
  <2>4. Draining' => count = 1
    BY <2>1, <2>2
  <2>5. ASSUME Draining' PROVE count' = 0
    BY <2>1, <2>4, <2>5
  <2>6. ASSUME Draining', NEW d \in Coroutines, InWait(d)' PROVE sawZero'[d]
    BY <2>1, <2>3, <2>4, <2>6
  <2>7. ASSUME NEW d \in Coroutines,
               wpc'[d] \in {"susp", "parked"}, d \notin ToSet(wgWaiters')
        PROVE  sawZero'[d]
    BY <1>2, <2>1, <2>3, <2>7
  <2> QED
    BY <2>5, <2>6, <2>7 DEF ZeroInv
<1>6. ASSUME NEW c \in Coroutines, DoneDrain(c) PROVE ZeroInv'
  <2>1. /\ Draining /\ wpc'[c] \in {"out", "wake"} /\ UNCHANGED <<count, sawZero>>
        /\ \A d \in Coroutines \ {c} : wpc'[d] = wpc[d]
    BY <1>6 DEF DoneDrain, At
  <2>2. \A d \in Coroutines : InWait(d)' => InWait(d)
    BY <2>1
  <2> QED
    BY <1>2, <2>1, <2>2 DEF ZeroInv
<1>7. ASSUME NEW c \in Coroutines, WaitBlocks(c) PROVE ZeroInv'
  <2>1. /\ count # 0 /\ wpc'[c] = "enq" /\ UNCHANGED <<count, wgWaiters, sawZero>>
        /\ \A d \in Coroutines \ {c} : wpc'[d] = wpc[d]
    BY <1>7 DEF WaitBlocks, At
  <2>2. ~Draining /\ ~Draining'
    BY <1>2, <2>1
  <2> QED
    BY <1>2, <2>1, <2>2 DEF ZeroInv
<1>8. ASSUME NEW c \in Coroutines, WaitEnqueue(c) PROVE ZeroInv'
  <2>1. /\ wpc[c] = "enq" /\ wpc'[c] = "susp" /\ UNCHANGED <<count, sawZero>>
        /\ \A d \in Coroutines \ {c} : wpc'[d] = wpc[d]
        /\ ToSet(wgWaiters') = ToSet(wgWaiters) \union {c}
    BY <1>8, PushQueue DEF WaitEnqueue, At
  <2>2. (Draining' => Draining) /\ \A d \in Coroutines : InWait(d)' => InWait(d)
    BY <2>1
  <2> QED
    BY <1>2, <2>1, <2>2 DEF ZeroInv
<1>9. ASSUME NEW c \in Coroutines, WaitSuspend(c) PROVE ZeroInv'
  <2>1. /\ wpc[c] = "susp" /\ wpc'[c] = "parked"
        /\ UNCHANGED <<count, wgWaiters, sawZero>>
        /\ \A d \in Coroutines \ {c} : wpc'[d] = wpc[d]
    BY <1>9 DEF WaitSuspend, At
  <2>2. (Draining' => Draining) /\ \A d \in Coroutines : InWait(d)' => InWait(d)
    BY <2>1
  <2> QED
    BY <1>2, <2>1, <2>2 DEF ZeroInv
<1>10. ASSUME NEW c \in Coroutines, WaitReturns(c) PROVE ZeroInv'
  <2>1. /\ wpc'[c] = "out" /\ UNCHANGED <<count, wgWaiters>>
        /\ \A d \in Coroutines \ {c} : wpc'[d] = wpc[d] /\ sawZero'[d] = sawZero[d]
    BY <1>10 DEF WaitReturns, At
  <2>2. /\ Draining' => Draining
        /\ \A d \in Coroutines : InWait(d)' => InWait(d) /\ d # c
    BY <2>1
  <2> QED
    BY <1>2, <2>1, <2>2 DEF ZeroInv
<1>11. ZeroInv'
  BY <1>3, <1>4, <1>5, <1>6, <1>7, <1>8, <1>9, <1>10, StepKinds
<1> QED
  BY <1>11 DEF ZeroInv

\* A coroutine enters wait only with the count positive; the done that takes it
\* to zero stays in the way until it drains the list.
LEMMA NextPreservesStrandInv ==
  ASSUME QueueInv, StrandInv, [HNext]_hvars
  PROVE  StrandInv'
<1> DEFINE Draining == \E d \in Coroutines : wpc[d] = "drain"
           Loaded == \E d \in Coroutines : wpc[d] = "enq"
<1> SUFFICES ASSUME ~missed', wgWaiters' # <<>> \/ Loaded'
             PROVE  count' > 0 \/ Draining'
  BY DEF StrandInv
<1>1. ~missed /\ (HNext => ~MissedStep)
  <2>1. CASE HNext
    <3>1. missed' = (missed \/ MissedStep)
      BY <2>1 DEF HNext
    <3> QED
      BY <3>1
  <2>2. CASE UNCHANGED hvars
    <3>1. missed' = missed
      BY <2>2 DEF hvars
    <3>2. HNext => missed' = (missed \/ MissedStep)
      BY DEF HNext
    <3> QED
      BY <3>1, <3>2
  <2> QED
    BY <2>1, <2>2
<1> USE DEF QueueInv, TypeOK, WgPC
<1>2. wgWaiters # <<>> \/ Loaded => count > 0 \/ Draining
  BY <1>1 DEF StrandInv
<1>3. ASSUME \/ UNCHANGED vars
             \/ \E c \in Coroutines : \/ UserStep(c) \/ DoneWakesHere(c)
                                      \/ DoneWakesThere(c) \/ DoneSignals(c)
             \/ \E t \in Threads : ThreadStep(t)
      PROVE  count' > 0 \/ Draining'
  <2>1. /\ count' = count /\ wgWaiters' = wgWaiters
        /\ \A d \in Coroutines, l \in {"enq", "susp", "parked", "drain"} :
             wpc'[d] = l <=> wpc[d] = l
    BY <1>3, OtherStepsKeepCount
  <2>2. (Loaded' => Loaded) /\ (Draining => Draining')
    BY <2>1
  <2> QED
    BY <1>2, <2>1, <2>2
<1>4. ASSUME NEW c \in Coroutines, Add(c) PROVE count' > 0
  BY <1>4, MaxCountAssumption DEF Add
<1>5. ASSUME NEW c \in Coroutines, Done(c) PROVE count' > 0 \/ Draining'
  BY <1>5 DEF Done, At
<1>6. ASSUME NEW c \in Coroutines, DoneDrain(c), HNext PROVE FALSE
  <2>1. /\ wpc[c] = "drain" /\ wpc'[c] \in {"out", "wake"} /\ wgWaiters' = <<>>
        /\ \A d \in Coroutines \ {c} : wpc'[d] = wpc[d]
    BY <1>6 DEF DoneDrain, At
  <2>2. ~Loaded
    BY <1>1, <1>6, <2>1 DEF MissedStep
  <2>3. ~Loaded'
    BY <2>1, <2>2
  <2> QED
    BY <2>1, <2>3
<1>7. ASSUME NEW c \in Coroutines, WaitBlocks(c) PROVE count' > 0
  BY <1>7 DEF WaitBlocks
<1>8. ASSUME NEW c \in Coroutines, WaitEnqueue(c) \/ WaitSuspend(c) \/ WaitReturns(c)
      PROVE  count' > 0 \/ Draining'
  <2>1. /\ wpc[c] # "drain" /\ wpc'[c] # "enq" /\ count' = count
        /\ wpc[c] = "enq" \/ wgWaiters' = wgWaiters
        /\ \A d \in Coroutines \ {c} : wpc'[d] = wpc[d]
    BY <1>8 DEF WaitEnqueue, WaitSuspend, WaitReturns, At
  <2>2. wgWaiters # <<>> \/ Loaded
    BY <2>1
  <2> QED
    BY <1>2, <2>1, <2>2
<1> QED
  BY <1>3, <1>4, <1>5, <1>6, <1>7, <1>8, StepKinds

\* Unless add is called between the last done and its drain, a coroutine that
\* returns from wait has seen the count at zero during the call.
THEOREM WaitAlwaysMeansZero == HSpec => []WaitMeansZero
<1>1. HInit => QueueInv /\ ZeroInv
  BY InitEstablishesQueueInv DEF HInit, Init, ZeroInv, InWait
<1>2. QueueInv /\ ZeroInv /\ [HNext]_hvars => (QueueInv /\ ZeroInv)'
  <2>1. [HNext]_hvars => [Next]_vars
    BY DEF HNext, hvars, vars
  <2> QED
    BY <2>1, NextPreservesQueueInv, NextPreservesZeroInv
<1>3. QueueInv /\ ZeroInv => WaitMeansZero
  BY DEF QueueInv, ZeroInv, ExecutingIsUnlinked, WaitMeansZero
<1> QED
  BY <1>1, <1>2, <1>3, PTL DEF HSpec

\* Unless a drain overtakes a wait between its load and its push, the list of
\* waiters is empty when there is nothing left to wait for.
THEOREM NoWaiterStaysStranded == HSpec => []NoStrandedWaiter
<1>1. HInit => QueueInv /\ StrandInv
  BY InitEstablishesQueueInv DEF HInit, Init, StrandInv
<1>2. QueueInv /\ StrandInv /\ [HNext]_hvars => (QueueInv /\ StrandInv)'
  <2>1. [HNext]_hvars => [Next]_vars
    BY DEF HNext, hvars, vars
  <2> QED
    BY <2>1, NextPreservesQueueInv, NextPreservesStrandInv
<1>3. StrandInv => NoStrandedWaiter
  BY DEF StrandInv, NoStrandedWaiter
<1> QED
  BY <1>1, <1>2, <1>3, PTL DEF HSpec
=============================================================================
