-------------------------- MODULE CoroMutexProofs --------------------------
(***************************************************************************)
(* Proofs about CoroMutex and CoroCondVar for every set of threads and     *)
(* coroutines.  For the mutex: type correctness, mutual exclusion and      *)
(* single queue membership, which are conjuncts of MutexInv, no sleep on   *)
(* work, and the refinement of AbstractMutex.  For the condition variable: *)
(* the same with its list and its notifies, by CvInv on top of the mutex's *)
(* invariant, if timers expire for a sole waiter only and the condition    *)
(* variable is given up after a timeout (QuietSpec), or if no wait has a   *)
(* timeout.  The lemmas take the actions one by one.                       *)
(***************************************************************************)
EXTENDS CoroCondVar, QueueLemmas

-----------------------------------------------------------------------------
\* The schedulers start with their main coroutine and empty lists, and the
\* mutex free.
LEMMA InitEstablishesInv == Init => MutexInv
<1> SUFFICES ASSUME Init PROVE MutexInv
  OBVIOUS
<1> USE HomeAssumption, MainAssumption, NullAssumption DEF Init, ThreadInit, MutexInit
<1>1. TypeOK
  BY EmptyQueue DEF TypeOK, ThreadTypeOK, MutexTypeOK, MutexPC
<1>2. Popped = {} /\ ToSet(waiters) = {}
  BY EmptyQueue DEF Popped
<1>3. MutualExclusion
  BY DEF MutualExclusion, Owns
<1>4. SingleQueueMembership
  BY <1>2, EmptyQueue DEF SingleQueueMembership
<1>5. WaitersWait
  BY <1>2 DEF WaitersWait
<1>6. ExecutingIsUnlinked /\ DeadAreUnlinked
  <2>1. \A t \in Threads : ToSet(ready[t]) = {} /\ ToSet(pending[t]) = {}
    BY EmptyQueue
  <2> QED
    BY <1>2, <2>1 DEF ExecutingIsUnlinked, DeadAreUnlinked, Executing
<1>7. OneHandoffPerWaiter
  BY DEF OneHandoffPerWaiter
<1> QED
  BY <1>1, <1>3, <1>4, <1>5, <1>6, <1>7 DEF MutexInv

-----------------------------------------------------------------------------
\* MutexInv for a mutex that is also called by ConditionVariable.wait: a notify
\* may have pushed a coroutine of E, which is still in wait's call of unlock, on
\* its pending list.  The lemmas below are used with E = {} for the mutex by
\* itself.
UnlinkedBut(E) ==
  \A c \in Coroutines : Executing(c) =>
    /\ c \notin ToSet(ready[home[c]])
    /\ mpc[c] # "susp" /\ c \notin E
         => c \notin ToSet(pending[home[c]]) \union Popped
    /\ mpc[c] = "parked" => c \notin ToSet(waiters)
InvBut(E) == /\ TypeOK /\ MutualExclusion /\ SingleQueueMembership
             /\ WaitersWait /\ UnlinkedBut(E)
             /\ OneHandoffPerWaiter /\ DeadAreUnlinked

\* For the mutex by itself, nothing is exempt.
LEMMA InvButNone == (MutexInv <=> InvBut({})) /\ (MutexInv' <=> InvBut({})')
  BY DEF MutexInv, InvBut, ExecutingIsUnlinked, UnlinkedBut

\* lock and tryLock keep the invariant: a compareAndSwap wins only a lock
\* nobody owns, and lock returns only in a coroutine that owns it.
LEMMA LockPreservesInv ==
  ASSUME NEW E, InvBut(E), NEW c \in Coroutines \ E,
         \/ AcquireCAS(c) \/ SetHolder(c) \/ LockCASFails(c)
         \/ LockEnqueue(c) \/ LockSuspend(c) \/ LockReturns(c)
  PROVE  InvBut(E)'
<1> USE HomeAssumption, NullAssumption
    DEF InvBut, TypeOK, ThreadTypeOK, MutexTypeOK, MutexPC, MutualExclusion,
        Owns, SingleQueueMembership, Popped, WaitersWait, UnlinkedBut,
        OneHandoffPerWaiter, DeadAreUnlinked, Executing, Goto, threadVars
<1>1. CASE AcquireCAS(c)
  BY <1>1 DEF AcquireCAS
<1>2. CASE SetHolder(c)
  <2> USE <1>2 DEF SetHolder
  <2>1. Popped' = Popped
    OBVIOUS
  <2>2. TypeOK' /\ WaitersWait'
    BY <2>1
  <2>3. MutualExclusion'
    OBVIOUS
  <2>4. SingleQueueMembership'
    BY <2>1
  <2>5. UnlinkedBut(E)' /\ OneHandoffPerWaiter' /\ DeadAreUnlinked'
    BY <2>1
  <2> QED
    BY <2>2, <2>3, <2>4, <2>5
<1>3. CASE LockCASFails(c)
  <2> USE <1>3 DEF LockCASFails
  <2>1. Popped' = Popped
    OBVIOUS
  <2>2. TypeOK' /\ WaitersWait'
    BY <2>1
  <2>3. MutualExclusion'
    OBVIOUS
  <2>4. SingleQueueMembership'
    BY <2>1
  <2>5. UnlinkedBut(E)' /\ OneHandoffPerWaiter' /\ DeadAreUnlinked'
    BY <2>1
  <2> QED
    BY <2>2, <2>3, <2>4, <2>5
<1>4. CASE LockEnqueue(c)
  <2> USE <1>4 DEF LockEnqueue
  <2>1. /\ c \notin ToSet(waiters) \union Popped
        /\ \A t \in Threads : c \notin ToSet(ready[t]) \union ToSet(pending[t])
    OBVIOUS
  <2>2. /\ waiters' \in Seq(Coroutines) /\ IsInjective(waiters')
        /\ ToSet(waiters') = ToSet(waiters) \union {c}
    BY <2>1, PushQueue
  <2>3. Popped' = Popped
    OBVIOUS
  <2>4. TypeOK'
    BY <2>2
  <2>5. MutualExclusion'
    BY <2>2
  <2>6. SingleQueueMembership' /\ WaitersWait'
    BY <2>1, <2>2, <2>3
  <2>7. UnlinkedBut(E)' /\ OneHandoffPerWaiter' /\ DeadAreUnlinked'
    BY <2>1, <2>2, <2>3
  <2> QED
    BY <2>4, <2>5, <2>6, <2>7
<1>5. CASE LockSuspend(c)
  BY <1>5 DEF LockSuspend, Suspend
<1>6. CASE LockReturns(c)
  BY <1>6 DEF LockReturns
<1> QED
  BY <1>1, <1>2, <1>3, <1>4, <1>5, <1>6

-----------------------------------------------------------------------------
\* unlock with no waiter: its caller was the only owner, so nobody owns the
\* lock when the flag is cleared.
LEMMA UnlockFreePreservesInv ==
  ASSUME NEW E, InvBut(E), NEW c \in Coroutines, UnlockFree(c) \/ ClearHolder(c)
  PROVE  InvBut(E)'
<1> USE HomeAssumption, NullAssumption
    DEF InvBut, TypeOK, ThreadTypeOK, MutexTypeOK, MutexPC, MutualExclusion,
        Owns, SingleQueueMembership, Popped, WaitersWait, UnlinkedBut,
        OneHandoffPerWaiter, DeadAreUnlinked, Executing, Goto, threadVars
<1>1. CASE UnlockFree(c)
  <2> USE <1>1 DEF UnlockFree
  <2>1. TypeOK'
    OBVIOUS
  <2>2. Popped' = Popped
    OBVIOUS
  <2>3. MutualExclusion'
    OBVIOUS
  <2>4. WaitersWait'
    BY <2>2
  <2>5. SingleQueueMembership'
    BY <2>2
  <2>6. UnlinkedBut(E)' /\ OneHandoffPerWaiter' /\ DeadAreUnlinked'
    BY <2>2
  <2> QED
    BY <2>1, <2>5, <2>6, <2>3, <2>4
<1>2. CASE ClearHolder(c)
  BY <1>2 DEF ClearHolder
<1> QED
  BY <1>1, <1>2

\* unlock with a waiter: the head of _waiters becomes the owner in the step
\* in which the caller stops being it.
LEMMA UnlockHandoffPreservesInv ==
  ASSUME NEW E, InvBut(E), NEW c \in Coroutines, UnlockHandoff(c)
  PROVE  InvBut(E)'
<1> DEFINE w == Head(waiters)
<1> USE HomeAssumption, NullAssumption
    DEF InvBut, TypeOK, ThreadTypeOK, MutexTypeOK, MutexPC, Goto, threadVars,
        UnlockHandoff
<1>1. /\ w \in Coroutines /\ w \in ToSet(waiters)
      /\ Tail(waiters) \in Seq(Coroutines) /\ IsInjective(Tail(waiters))
      /\ ToSet(waiters') = ToSet(waiters) \ {w}
  BY PopQueue DEF SingleQueueMembership
<1>2. mpc[w] \in {"susp", "parked"} /\ w # c
  BY <1>1 DEF WaitersWait
<1>3. Popped' = Popped \union {w}
  BY <1>1 DEF Popped
<1> HIDE DEF w
<1>4. TypeOK'
  BY <1>1 DEF w
<1>5. MutualExclusion'
  <2>1. Owns(c) /\ locked /\ \A d \in Coroutines : Owns(d) => d = c
    BY DEF MutualExclusion, Owns
  <2>2. \A d \in Coroutines : Owns(d)' => d = w
    BY <1>1, <1>2, <2>1 DEF Owns
  <2> QED
    BY <2>1, <2>2 DEF MutualExclusion
<1>6. SingleQueueMembership'
  BY <1>1, <1>3 DEF SingleQueueMembership
<1>7. WaitersWait'
  BY <1>1, <1>2, <1>3 DEF WaitersWait
<1>8. UnlinkedBut(E)'
  BY <1>1, <1>2, <1>3 DEF UnlinkedBut, Executing, SingleQueueMembership
<1>9. OneHandoffPerWaiter'
  BY <1>1 DEF OneHandoffPerWaiter, SingleQueueMembership, Popped, w
<1>10. DeadAreUnlinked'
  BY DEF DeadAreUnlinked, Executing
<1> QED
  BY <1>4, <1>5, <1>6, <1>7, <1>8, <1>9, <1>10

-----------------------------------------------------------------------------
\* The waiter unlock popped enters a list of its own scheduler, and leaves
\* unlock's hands, in one step.
LEMMA ResumePreservesInv ==
  ASSUME NEW E, InvBut(E), NEW c \in Coroutines, ResumeLocal(c) \/ ResumeRemote(c)
  PROVE  InvBut(E)'
<1> DEFINE w == wakee[c]
<1> USE HomeAssumption, NullAssumption
    DEF InvBut, TypeOK, ThreadTypeOK, MutexTypeOK, MutexPC, Goto
<1>1. /\ w \in Coroutines /\ w \in Popped /\ home[w] \in Threads
      /\ mpc[w] \in {"susp", "parked"} /\ w # c
      /\ w \notin ToSet(waiters)
      /\ \A t \in Threads : w \notin ToSet(ready[t]) \union ToSet(pending[t])
      /\ w \in live
  <2>1. mpc[c] = "resume"
    BY DEF ResumeLocal, ResumeRemote
  <2> QED
    BY <2>1 DEF OneHandoffPerWaiter, Popped, WaitersWait, SingleQueueMembership,
                DeadAreUnlinked
<1>2. Popped' = Popped \ {w}
  <2>1. /\ mpc[c] = "resume" /\ mpc'[c] # "resume"
        /\ \A d \in Coroutines \ {c} : mpc'[d] = mpc[d] /\ wakee'[d] = wakee[d]
    BY DEF ResumeLocal, ResumeRemote
  <2>2. \A d \in Coroutines \ {c} : mpc[d] = "resume" => wakee[d] # w
    BY <2>1 DEF OneHandoffPerWaiter
  <2>3. /\ \A x : x \in Popped <=>
               \E d \in Coroutines : mpc[d] = "resume" /\ wakee[d] = x
        /\ \A x : x \in Popped' <=>
               \E d \in Coroutines : mpc'[d] = "resume" /\ wakee'[d] = x
    BY DEF Popped
  <2>4. \A x : x \in Popped' <=> x \in Popped \ {w}
    <3>1. ASSUME NEW x, x \in Popped' PROVE x \in Popped /\ x # w
      <4>1. PICK d \in Coroutines : mpc'[d] = "resume" /\ wakee'[d] = x
        BY <2>3, <3>1
      <4>2. d # c /\ mpc[d] = "resume" /\ wakee[d] = x
        BY <2>1, <4>1
      <4> QED
        BY <2>2, <2>3, <4>2
    <3>2. ASSUME NEW x, x \in Popped, x # w PROVE x \in Popped'
      <4>1. PICK d \in Coroutines : mpc[d] = "resume" /\ wakee[d] = x
        BY <2>3, <3>2
      <4>2. d # c
        BY <3>2, <4>1
      <4> QED
        BY <2>1, <2>3, <4>1, <4>2
    <3> QED
      BY <3>1, <3>2
  <2> QED
    BY <2>4
<1>3. CASE ResumeLocal(c)
  <2> USE <1>3 DEF ResumeLocal, Resume
  <2>1. /\ ready'[home[w]] \in Seq(Coroutines)
        /\ IsInjective(ready'[home[w]])
        /\ ToSet(ready'[home[w]]) = ToSet(ready[home[w]]) \union {w}
        /\ \A t \in Threads \ {home[w]} : ready'[t] = ready[t]
    BY <1>1, PushQueue DEF SingleQueueMembership
  <2> HIDE DEF w
  <2>2. TypeOK'
    BY <1>1, <2>1 DEF w
  <2>3. MutualExclusion'
    BY DEF MutualExclusion, Owns
  <2>4. SingleQueueMembership'
    BY <1>1, <1>2, <2>1 DEF SingleQueueMembership
  <2>5. WaitersWait'
    BY <1>1, <1>2 DEF WaitersWait
  <2>6. UnlinkedBut(E)'
    BY <1>1, <1>2, <2>1 DEF UnlinkedBut, Executing, w
  <2>7. OneHandoffPerWaiter'
    BY DEF OneHandoffPerWaiter
  <2>8. DeadAreUnlinked'
    BY <1>1, <2>1 DEF DeadAreUnlinked, Executing
  <2> QED
    BY <2>2, <2>3, <2>4, <2>5, <2>6, <2>7, <2>8
<1>4. CASE ResumeRemote(c)
  <2> USE <1>4 DEF ResumeRemote, PushPending
  <2>1. /\ pending'[home[w]] \in Seq(Coroutines)
        /\ IsInjective(pending'[home[w]])
        /\ ToSet(pending'[home[w]]) = ToSet(pending[home[w]]) \union {w}
        /\ \A t \in Threads \ {home[w]} : pending'[t] = pending[t]
    BY <1>1, PushQueue DEF SingleQueueMembership
  <2> HIDE DEF w
  <2>2. TypeOK'
    BY <1>1, <2>1 DEF w
  <2>3. MutualExclusion'
    BY DEF MutualExclusion, Owns
  <2>4. SingleQueueMembership'
    BY <1>1, <1>2, <2>1 DEF SingleQueueMembership
  <2>5. WaitersWait'
    BY <1>1, <1>2 DEF WaitersWait
  <2>6. UnlinkedBut(E)'
    BY <1>1, <1>2, <2>1 DEF UnlinkedBut, Executing
  <2>7. OneHandoffPerWaiter'
    BY DEF OneHandoffPerWaiter
  <2>8. DeadAreUnlinked'
    BY <1>1, <2>1 DEF DeadAreUnlinked, Executing
  <2> QED
    BY <2>2, <2>3, <2>4, <2>5, <2>6, <2>7, <2>8
<1> QED
  BY <1>3, <1>4

\* aeWakeup touches no list.
LEMMA SignalPreservesInv ==
  ASSUME NEW E, InvBut(E), NEW c \in Coroutines, Signal(c)
  PROVE  InvBut(E)'
<1> USE HomeAssumption, NullAssumption
    DEF InvBut, TypeOK, ThreadTypeOK, MutexTypeOK, MutexPC, Goto, AeWakeup,
        Signal
<1>1. Popped' = Popped
  BY DEF Popped
<1>2. TypeOK'
  OBVIOUS
<1>3. MutualExclusion'
  BY DEF MutualExclusion, Owns
<1>4. SingleQueueMembership'
  BY <1>1 DEF SingleQueueMembership
<1>5. WaitersWait'
  BY <1>1 DEF WaitersWait
<1>6. UnlinkedBut(E)'
  BY <1>1 DEF UnlinkedBut, Executing
<1>7. OneHandoffPerWaiter'
  BY DEF OneHandoffPerWaiter
<1>8. DeadAreUnlinked'
  BY DEF DeadAreUnlinked, Executing
<1> QED
  BY <1>2, <1>3, <1>4, <1>5, <1>6, <1>7, <1>8

-----------------------------------------------------------------------------
\* yld, async and epilogue move the running coroutine to ready, or drop it,
\* from a state in which it is in no list.
LEMMA UserPreservesInv ==
  ASSUME NEW E, InvBut(E), NEW c \in Coroutines \ E, UserStep(c)
  PROVE  InvBut(E)'
<1> USE HomeAssumption, NullAssumption
    DEF InvBut, TypeOK, ThreadTypeOK, MutexTypeOK, mutexVars
<1>1. Popped' = Popped /\ UNCHANGED mutexVars
  BY DEF UserStep, Popped
<1>2. Executing(c) /\ mpc[c] \in {"out", "in"} /\ home[c] \in Threads
  BY DEF UserStep, Yield, Async, Epilogue
<1>3. /\ c \notin ToSet(waiters) \union Popped
      /\ c \notin ToSet(ready[home[c]]) \union ToSet(pending[home[c]])
  BY <1>2 DEF WaitersWait, UnlinkedBut
<1>4. MutualExclusion'
  BY <1>1 DEF MutualExclusion, Owns
<1>5. WaitersWait'
  BY <1>1 DEF WaitersWait
<1>6. OneHandoffPerWaiter'
  BY <1>1 DEF OneHandoffPerWaiter
<1>7. ASSUME Resume(c)
      PROVE  /\ ready' \in [Threads -> Seq(Coroutines)]
             /\ IsInjective(ready'[home[c]])
             /\ ToSet(ready'[home[c]]) = ToSet(ready[home[c]]) \union {c}
             /\ \A t \in Threads \ {home[c]} : ready'[t] = ready[t]
  <2>1. /\ Append(ready[home[c]], c) \in Seq(Coroutines)
        /\ ToSet(Append(ready[home[c]], c)) = ToSet(ready[home[c]]) \union {c}
        /\ IsInjective(Append(ready[home[c]], c))
    BY <1>2, <1>3, PushQueue DEF SingleQueueMembership
  <2> QED
    BY <1>2, <1>7, <2>1 DEF Resume
<1>8. ASSUME Resume(c), UNCHANGED pending
       PROVE  SingleQueueMembership'
  <2>1. /\ IsInjective(ready'[home[c]])
        /\ ToSet(ready'[home[c]]) = ToSet(ready[home[c]]) \union {c}
        /\ \A t \in Threads \ {home[c]} : ready'[t] = ready[t]
    BY <1>7, <1>8
  <2>2. ASSUME NEW t \in Threads
        PROVE  /\ IsInjective(ready'[t]) /\ IsInjective(pending'[t])
               /\ ToSet(ready'[t]) \intersect ToSet(pending'[t]) = {}
               /\ \A d \in ToSet(ready'[t]) \union ToSet(pending'[t]) :
                    home[d] = t /\ d \notin ToSet(waiters) \union Popped
    <3>1. CASE t = home[c]
      BY <1>2, <1>3, <1>8, <2>1, <3>1 DEF SingleQueueMembership
    <3>2. CASE t # home[c]
      BY <1>8, <2>1, <3>2 DEF SingleQueueMembership
    <3> QED
      BY <3>1, <3>2
  <2> QED
    BY <1>1, <2>2 DEF SingleQueueMembership
<1>9. c \in live
  BY <1>2 DEF DeadAreUnlinked
<1>10. CASE Yield(c)
  <2>1. Resume(c) /\ UNCHANGED <<running, pending, wakefd, live>>
    BY <1>10 DEF Yield
  <2>2. /\ ready' \in [Threads -> Seq(Coroutines)]
        /\ ToSet(ready'[home[c]]) = ToSet(ready[home[c]]) \union {c}
        /\ \A t \in Threads \ {home[c]} : ready'[t] = ready[t]
    BY <1>7, <2>1
  <2>3. SingleQueueMembership'
    BY <1>8, <2>1
  <2>4. tpc' = [tpc EXCEPT ![home[c]] = "sched"]
    BY <1>10 DEF Yield, Suspend
  <2>5. TypeOK'
    BY <1>1, <2>1, <2>2, <2>4
  <2>6. UnlinkedBut(E)'
    BY <1>1, <1>2, <2>1, <2>2, <2>4 DEF UnlinkedBut, Executing
  <2>7. DeadAreUnlinked'
    <3>1. ASSUME NEW d \in Coroutines \ live' PROVE ~Executing(d)'
      BY <1>1, <2>1, <2>4, <3>1 DEF DeadAreUnlinked, Executing
    <3>2. ASSUME NEW d \in Coroutines \ live', NEW t \in Threads
          PROVE  d \notin ToSet(ready'[t]) \union ToSet(pending'[t])
      <4>1. d # c /\ d \notin ToSet(ready[t]) \union ToSet(pending[t])
        BY <1>9, <2>1, <3>2 DEF DeadAreUnlinked
      <4>2. ToSet(ready'[t]) \subseteq ToSet(ready[t]) \union {c}
        BY <2>2
      <4> QED
        BY <2>1, <4>1, <4>2
    <3> QED
      BY <1>1, <2>1, <3>1, <3>2 DEF DeadAreUnlinked
  <2> QED
    BY <1>4, <1>5, <1>6, <2>3, <2>5, <2>6, <2>7
<1>11. ASSUME NEW d \in Coroutines, Async(c, d)
      PROVE  InvBut(E)'
  <2>1. SingleQueueMembership'
    BY <1>11, <1>8 DEF Async
  <2>2. /\ ready' \in [Threads -> Seq(Coroutines)]
        /\ ToSet(ready'[home[c]]) = ToSet(ready[home[c]]) \union {c}
        /\ \A t \in Threads \ {home[c]} : ready'[t] = ready[t]
    BY <1>7, <1>11 DEF Async
  <2>3. d # c /\ mpc[d] = "out" /\ d \notin ToSet(waiters) \union Popped
    BY <1>2, <1>11 DEF Async, DeadAreUnlinked, WaitersWait
  <2>4. /\ d \notin ToSet(ready[home[c]]) \union ToSet(pending[home[c]])
        /\ home[d] = home[c] /\ d \notin live
    BY <1>2, <1>11 DEF Async, DeadAreUnlinked
  <2>5. TypeOK'
    BY <1>1, <1>11, <2>2 DEF Async
  <2>6. UnlinkedBut(E)'
    <3>1. ASSUME NEW e \in Coroutines, Executing(e)'
          PROVE  e = d \/ (Executing(e) /\ home[e] # home[c])
      BY <1>2, <1>11, <2>4, <3>1 DEF Executing, Async
    <3>2. ASSUME NEW e \in Coroutines, Executing(e), home[e] # home[c]
          PROVE  ready'[home[e]] = ready[home[e]] /\ pending' = pending
      BY <1>11, <2>2, <3>2 DEF Async
    <3>3. /\ d \notin ToSet(ready'[home[d]]) \union ToSet(pending'[home[d]])
          /\ d \notin ToSet(waiters) \union Popped
      BY <1>11, <2>2, <2>3, <2>4 DEF Async
    <3> QED
      BY <1>1, <3>1, <3>2, <3>3 DEF UnlinkedBut
  <2>7. DeadAreUnlinked'
    <3>1. ASSUME NEW e \in Coroutines \ live'
          PROVE  e \notin {c, d} /\ e \notin live /\ ~Executing(e)'
      BY <1>9, <1>11, <3>1 DEF DeadAreUnlinked, Executing, Async
    <3>2. ASSUME NEW e \in Coroutines \ live', NEW t \in Threads
          PROVE  e \notin ToSet(ready'[t]) \union ToSet(pending'[t])
      <4>1. e # c /\ e \notin ToSet(ready[t]) \union ToSet(pending[t])
        BY <3>1 DEF DeadAreUnlinked
      <4>2. ToSet(ready'[t]) \subseteq ToSet(ready[t]) \union {c}
        BY <2>2
      <4> QED
        BY <1>11, <4>1, <4>2 DEF Async
    <3> QED
      BY <1>1, <3>1, <3>2 DEF DeadAreUnlinked
  <2> QED
    BY <1>4, <1>5, <1>6, <2>1, <2>5, <2>6, <2>7
<1>12. CASE mpc[c] = "out" /\ Epilogue(c)
  <2>1. SingleQueueMembership'
    BY <1>1, <1>12 DEF SingleQueueMembership, Epilogue
  <2>2. \A t \in Threads : c \notin ToSet(ready[t]) \union ToSet(pending[t])
    BY <1>3 DEF SingleQueueMembership
  <2>3. UnlinkedBut(E)'
    <3>1. ASSUME NEW d \in Coroutines, Executing(d)' PROVE Executing(d)
      BY <1>2, <1>12, <3>1 DEF Executing, Epilogue, Suspend
    <3>2. UNCHANGED <<ready, pending>>
      BY <1>12 DEF Epilogue
    <3> QED
      BY <1>1, <3>1, <3>2 DEF UnlinkedBut
  <2>4. DeadAreUnlinked' /\ TypeOK'
    BY <1>1, <1>2, <1>12, <2>2 DEF DeadAreUnlinked, Executing, Epilogue, Suspend
  <2> QED
    BY <1>4, <1>5, <1>6, <2>1, <2>3, <2>4
<1> QED
  BY <1>10, <1>11, <1>12 DEF UserStep

-----------------------------------------------------------------------------
\* The scheduler's loop moves pending to the end of ready and runs the head:
\* a coroutine that is in no other list.
LEMMA ThreadPreservesInv ==
  ASSUME NEW E, InvBut(E), NEW t \in Threads, ThreadStep(t)
  PROVE  InvBut(E)'
<1> USE HomeAssumption, NullAssumption
    DEF InvBut, TypeOK, ThreadTypeOK, MutexTypeOK, mutexVars
<1>1. Popped' = Popped /\ UNCHANGED mutexVars
  BY DEF ThreadStep, Popped
<1>2. MutualExclusion' /\ WaitersWait' /\ OneHandoffPerWaiter'
  BY <1>1 DEF MutualExclusion, Owns, WaitersWait, OneHandoffPerWaiter
<1>3. CASE Dispatch(t)
  <2> DEFINE q == ready[t] \o pending[t]
  <2>1. /\ q \in Seq(Coroutines) /\ IsInjective(q)
        /\ ToSet(q) = ToSet(ready[t]) \union ToSet(pending[t])
    BY DrainQueue DEF SingleQueueMembership
  <2>2. /\ pending' \in [Threads -> Seq(Coroutines)]
        /\ ToSet(pending'[t]) = {} /\ IsInjective(pending'[t])
        /\ \A u \in Threads \ {t} : pending'[u] = pending[u]
        /\ UNCHANGED <<wakefd, live>>
    BY <1>3, EmptyQueue DEF Dispatch, ProcessPending
  <2>3. CASE q = <<>>
    <3>1. UNCHANGED <<running, ready>> /\ tpc' = [tpc EXCEPT ![t] = "poll"]
      BY <1>3, <2>3 DEF Dispatch, ProcessPending
    <3>2. SingleQueueMembership'
      BY <1>1, <2>2, <3>1 DEF SingleQueueMembership
    <3>3. UnlinkedBut(E)' /\ DeadAreUnlinked' /\ TypeOK'
      BY <1>1, <2>2, <3>1 DEF UnlinkedBut, DeadAreUnlinked, Executing
    <3> QED
      BY <1>2, <3>2, <3>3
  <2>4. CASE q # <<>>
    <3> DEFINE h == Head(q)
    <3>1. /\ running' = [running EXCEPT ![t] = h]
          /\ ready' = [ready EXCEPT ![t] = Tail(q)]
          /\ tpc' = [tpc EXCEPT ![t] = "run"]
      BY <1>3, <2>4 DEF Dispatch, ProcessPending
    <3>2. /\ h \in Coroutines /\ h \in ToSet(q)
          /\ Tail(q) \in Seq(Coroutines) /\ IsInjective(Tail(q))
          /\ ToSet(Tail(q)) = ToSet(q) \ {h}
      BY <2>1, <2>4, PopQueue
    <3> HIDE DEF q, h
    <3>3. /\ home[h] = t /\ h \notin ToSet(waiters) \union Popped /\ h \in live
      BY <2>1, <3>2 DEF SingleQueueMembership, DeadAreUnlinked
    <3>4. TypeOK'
      BY <1>1, <2>2, <3>1, <3>2
    <3>5. ready'[t] = Tail(q) /\ \A u \in Threads \ {t} : ready'[u] = ready[u]
      BY <3>1
    <3>6. SingleQueueMembership'
      <4>1. ASSUME NEW u \in Threads
            PROVE  /\ IsInjective(ready'[u]) /\ IsInjective(pending'[u])
                   /\ ToSet(ready'[u]) \intersect ToSet(pending'[u]) = {}
                   /\ \A d \in ToSet(ready'[u]) \union ToSet(pending'[u]) :
                        home[d] = u /\ d \notin ToSet(waiters) \union Popped
        <5>1. CASE u = t
          BY <2>1, <2>2, <3>2, <3>5, <5>1 DEF SingleQueueMembership
        <5>2. CASE u # t
          BY <2>2, <3>5, <5>2 DEF SingleQueueMembership
        <5> QED
          BY <5>1, <5>2
      <4> QED
        BY <1>1, <4>1 DEF SingleQueueMembership
    <3>7. UnlinkedBut(E)'
      BY <1>1, <2>1, <2>2, <3>1, <3>2, <3>3 DEF UnlinkedBut, Executing
    <3>8. DeadAreUnlinked'
      <4>1. ASSUME NEW c \in Coroutines \ live' PROVE ~Executing(c)'
        BY <2>2, <3>1, <3>3, <4>1 DEF DeadAreUnlinked, Executing
      <4> QED
        BY <1>1, <2>1, <2>2, <3>2, <3>5, <4>1 DEF DeadAreUnlinked
    <3> QED
      BY <1>2, <3>4, <3>6, <3>7, <3>8
  <2> QED
    BY <2>3, <2>4
<1>4. CASE PollWakeup(t)
  BY <1>1, <1>2, <1>4
  DEF PollWakeup, SingleQueueMembership, UnlinkedBut, DeadAreUnlinked,
      Executing
<1> QED
  BY <1>3, <1>4 DEF ThreadStep

-----------------------------------------------------------------------------
\* MutexInv is inductive.
LEMMA NextPreservesInv == MutexInv /\ [Next]_vars => MutexInv'
<1> SUFFICES ASSUME MutexInv, [Next]_vars PROVE MutexInv'
  OBVIOUS
<1>0. InvBut({})
  BY InvButNone
<1>1. ASSUME NEW c \in Coroutines, MutexStep(c) PROVE MutexInv'
  BY <1>0, <1>1, LockPreservesInv, UnlockFreePreservesInv,
     UnlockHandoffPreservesInv, ResumePreservesInv, SignalPreservesInv,
     InvButNone DEF MutexStep
<1>2. ASSUME NEW c \in Coroutines, UserStep(c) PROVE MutexInv'
  BY <1>0, <1>2, UserPreservesInv, InvButNone
<1>3. ASSUME NEW t \in Threads, ThreadStep(t) PROVE MutexInv'
  BY <1>0, <1>3, ThreadPreservesInv, InvButNone
<1>4. CASE UNCHANGED vars
  BY <1>4 DEF vars, MutexInv, TypeOK, ThreadTypeOK, MutexTypeOK,
     MutualExclusion, Owns, SingleQueueMembership, Popped, WaitersWait,
     ExecutingIsUnlinked, OneHandoffPerWaiter, DeadAreUnlinked, Executing
<1> QED
  BY <1>1, <1>2, <1>3, <1>4 DEF Next

\* The inductive invariant holds in every reachable state.
THEOREM InvHolds == Spec => []MutexInv
<1> QED
  BY InitEstablishesInv, NextPreservesInv, PTL DEF Spec

\* Every variable of the schedulers and the mutex keeps its type.
THEOREM TypeCorrect == Spec => []TypeOK
<1>1. MutexInv => TypeOK
  BY DEF MutexInv
<1> QED
  BY <1>1, InvHolds, PTL

\* Mutex.lock, tryLock and unlock never let two coroutines own the lock,
\* whatever threads they run on and however their steps interleave.
THEOREM MutexExcludes == Spec => []MutualExclusion
<1>1. MutexInv => MutualExclusion
  BY DEF MutexInv
<1> QED
  BY <1>1, InvHolds, PTL

\* Ready, pending and waiter lists can share Coroutine.link: no coroutine is
\* ever in two of them, or twice in one.
THEOREM LinkIsExclusive == Spec => []SingleQueueMembership
<1>1. MutexInv => SingleQueueMembership
  BY DEF MutexInv
<1> QED
  BY <1>1, InvHolds, PTL

-----------------------------------------------------------------------------
\* A thread in epoll with work in pending, and one that unlock is waking.
Asleep(t) == tpc[t] = "poll" /\ pending[t] # <<>>
Signalled(t) ==
  wakefd[t] \/ \E c \in Coroutines : mpc[c] = "signal" /\ home[wakee[c]] = t

\* aeWakeup is called after the push on pending, by the same unlock: a step
\* that leaves a thread asleep with work also leaves the signal on its way,
\* unless the thread was asleep without one.
LEMMA StepKeepsSignal ==
  ASSUME TypeOK, Next, NEW t \in Threads, Asleep(t)'
  PROVE  Signalled(t)' \/ (Asleep(t) /\ ~Signalled(t))
<1> USE HomeAssumption DEF TypeOK, ThreadTypeOK, MutexTypeOK, Asleep, Signalled
<1> SUFFICES ASSUME Asleep(t) => Signalled(t) PROVE Signalled(t)'
  OBVIOUS
<1>1. tpc[t] = "poll" /\ pending[t] # <<>> => Signalled(t)
  OBVIOUS
<1>2. ASSUME NEW c \in Coroutines, mpc[c] # "signal", mpc'[c] # "signal",
             UNCHANGED <<pending, wakefd>>,
             tpc' = tpc \/ Suspend(home[c]),
             \A d \in Coroutines \ {c} : mpc'[d] = mpc[d] /\ wakee'[d] = wakee[d]
      PROVE  Signalled(t)'
  BY <1>1, <1>2 DEF Suspend
<1>3. ASSUME NEW c \in Coroutines, MutexStep(c) PROVE Signalled(t)'
  <2>1. CASE AcquireCAS(c) \/ SetHolder(c) \/ LockCASFails(c) \/ LockEnqueue(c)
             \/ LockReturns(c) \/ UnlockFree(c) \/ ClearHolder(c)
    BY <1>2, <2>1 DEF AcquireCAS, SetHolder, LockCASFails, LockEnqueue,
       LockReturns, UnlockFree, ClearHolder, Goto, threadVars
  <2>2. CASE LockSuspend(c)
    BY <1>2, <2>2 DEF LockSuspend, Goto
  <2>3. CASE UnlockHandoff(c)
    BY <1>2, <2>3 DEF UnlockHandoff, Goto, threadVars
  <2>4. CASE ResumeLocal(c)
    BY <1>2, <2>4 DEF ResumeLocal, Goto
  <2>5. CASE ResumeRemote(c)
    <3>1. mpc'[c] = "signal" /\ UNCHANGED <<tpc, wakefd, wakee>>
          /\ \A d \in Coroutines \ {c} : mpc'[d] = mpc[d]
      BY <2>5 DEF ResumeRemote, Goto
    <3>2. CASE home[wakee[c]] = t
      BY <3>1, <3>2
    <3>3. CASE home[wakee[c]] # t
      <4>1. pending'[t] = pending[t]
        BY <2>5, <3>3 DEF ResumeRemote, PushPending
      <4>2. mpc[c] # "signal"
        BY <2>5 DEF ResumeRemote
      <4> QED
        BY <1>1, <3>1, <4>1, <4>2
    <3> QED
      BY <3>2, <3>3
  <2>6. CASE Signal(c)
    <3>1. /\ UNCHANGED <<tpc, pending>>
          /\ wakefd' = [wakefd EXCEPT ![home[wakee[c]]] = TRUE]
          /\ \A d \in Coroutines \ {c} : mpc'[d] = mpc[d] /\ wakee'[d] = wakee[d]
      BY <2>6 DEF Signal, Goto, AeWakeup
    <3>2. CASE home[wakee[c]] = t
      BY <3>1, <3>2
    <3>3. CASE home[wakee[c]] # t
      <4>1. wakefd'[t] = wakefd[t]
        BY <3>1, <3>3
      <4> QED
        BY <1>1, <3>1, <3>3, <4>1
    <3> QED
      BY <3>2, <3>3
  <2> QED
    BY <1>3, <2>1, <2>2, <2>3, <2>4, <2>5, <2>6 DEF MutexStep
<1>4. ASSUME NEW c \in Coroutines, UserStep(c) PROVE Signalled(t)'
  <2>1. UNCHANGED <<mpc, wakee, pending, wakefd>> /\ (tpc' = tpc \/ Suspend(home[c]))
    BY <1>4 DEF UserStep, mutexVars, Yield, Async, Epilogue
  <2> QED
    BY <1>1, <2>1 DEF Suspend
<1>5. ASSUME NEW u \in Threads, ThreadStep(u) PROVE Signalled(t)'
  <2>1. UNCHANGED <<mpc, wakee>>
    BY <1>5 DEF ThreadStep, mutexVars
  <2>2. CASE Dispatch(u)
    <3>1. pending' = [pending EXCEPT ![u] = <<>>] /\ wakefd' = wakefd
      BY <2>2 DEF Dispatch
    <3>2. t # u /\ pending'[t] = pending[t]
      BY <3>1
    <3>3. tpc'[t] = tpc[t]
      BY <2>2, <3>2 DEF Dispatch
    <3> QED
      BY <1>1, <2>1, <3>1, <3>2, <3>3
  <2>3. CASE PollWakeup(u)
    <3>1. tpc' = [tpc EXCEPT ![u] = "sched"] /\ pending' = pending
          /\ \A v \in Threads \ {u} : wakefd'[v] = wakefd[v]
      BY <2>3 DEF PollWakeup
    <3>2. t # u
      BY <3>1
    <3> QED
      BY <1>1, <2>1, <3>1, <3>2
  <2> QED
    BY <1>5, <2>2, <2>3 DEF ThreadStep
<1> QED
  BY <1>3, <1>4, <1>5 DEF Next

\* So no thread is ever left asleep with work.
LEMMA NextPreservesSignal ==
  ASSUME MutexInv, SleeperIsSignalled, [Next]_vars
  PROVE  SleeperIsSignalled'
<1>1. TypeOK
  BY DEF MutexInv
<1>2. CASE Next
  BY <1>1, <1>2, StepKeepsSignal DEF SleeperIsSignalled, Asleep, Signalled
<1>3. CASE UNCHANGED vars
  BY <1>3 DEF vars, SleeperIsSignalled
<1> QED
  BY <1>2, <1>3

\* No thread sleeps on work another thread handed it: whenever it is in epoll
\* with a coroutine in pending, its wakeup fd is readable or about to be.
THEOREM NoSleepOnWork == Spec => []SleeperIsSignalled
<1>1. Init => SleeperIsSignalled
  BY DEF Init, ThreadInit, SleeperIsSignalled
<1>2. MutexInv /\ SleeperIsSignalled /\ [Next]_vars => SleeperIsSignalled'
  BY NextPreservesSignal
<1> QED
  BY <1>1, <1>2, InvHolds, PTL DEF Spec

-----------------------------------------------------------------------------
(* The mutex implements AbstractMutex, in the behaviours without the race  *)
(* of NoLostWakeup.                                                        *)

\* A set flag means that the lock has an owner, and whoever waits for it, or has
\* seen it taken and is about to wait, waits for a lock that is taken.  The
\* second part is what the race breaks.
OwnedInv == /\ locked => \E c \in Coroutines : Owns(c)
            /\ waiters # <<>> => locked
            /\ \A c \in Coroutines : mpc[c] = "enq" => locked

\* Owner is the coroutine that owns the lock, if there is one.
LEMMA OwnerIsWhoOwns ==
  ASSUME MutualExclusion
  PROVE  /\ \A c \in Coroutines : Owns(c) => Owner = c
         /\ (\A c \in Coroutines : ~Owns(c)) => Owner = NULL
<1>1. ASSUME NEW c \in Coroutines, Owns(c) PROVE Owner = c
  <2>1. \A d \in Coroutines : Owns(d) => d = c
    BY <1>1 DEF MutualExclusion
  <2>2. (CHOOSE d \in Coroutines : Owns(d)) = c
    BY <1>1, <2>1
  <2> QED
    BY <1>1, <2>2 DEF Owner
<1>2. (\A c \in Coroutines : ~Owns(c)) => Owner = NULL
  BY DEF Owner
<1> QED
  BY <1>1, <1>2

\* The same in the next state.
LEMMA OwnerIsWhoOwnsNext ==
  ASSUME MutualExclusion'
  PROVE  /\ \A c \in Coroutines : Owns(c)' => Owner' = c
         /\ (\A c \in Coroutines : ~Owns(c)') => Owner' = NULL
<1>1. ASSUME NEW c \in Coroutines, Owns(c)' PROVE Owner' = c
  <2>1. \A d \in Coroutines : Owns(d)' => d = c
    BY <1>1 DEF MutualExclusion
  <2>2. (CHOOSE d \in Coroutines : Owns(d)') = c
    BY <1>1, <2>1
  <2> QED
    BY <1>1, <2>2 DEF Owner
<1>2. (\A c \in Coroutines : ~Owns(c)') => Owner' = NULL
  BY DEF Owner
<1> QED
  BY <1>1, <1>2

\* A step that changes neither the owner nor the waiters is a stutter.
LEMMA QuietRefines ==
  ASSUME MutexInv, MutexInv', OwnedInv,
         UNCHANGED <<locked, waiters>>,
         \A d \in Coroutines : Owns(d)' <=> Owns(d),
         \A d \in Coroutines : mpc'[d] = "enq" => locked
  PROVE  OwnedInv' /\ UNCHANGED <<Owner, waiters>>
<1>1. OwnedInv'
  BY DEF OwnedInv
<1>2. Owner' = Owner
  <2>1. CASE \E c \in Coroutines : Owns(c)
    BY <2>1, OwnerIsWhoOwns, OwnerIsWhoOwnsNext DEF MutexInv
  <2>2. CASE \A c \in Coroutines : ~Owns(c)
    BY <2>2, OwnerIsWhoOwns, OwnerIsWhoOwnsNext DEF MutexInv
  <2> QED
    BY <2>1, <2>2
<1> QED
  BY <1>1, <1>2

\* lock and unlock, step by step: the compareAndSwap is the abstract Acquire,
\* the push on _waiters is Wait, and unlock's critical section is Release.
LEMMA MutexStepRefines ==
  ASSUME MutexInv, MutexInv', OwnedInv, NEW c \in Coroutines, MutexStep(c),
         UnlockFree(c) => \A d \in Coroutines : mpc[d] # "enq"
  PROVE  OwnedInv' /\ [Abstract!Next]_<<Owner, waiters>>
<1> USE DEF MutexInv, TypeOK, MutexTypeOK, Goto
<1>1. CASE AcquireCAS(c)
  <2> USE <1>1 DEF AcquireCAS
  <2>1. /\ \A d \in Coroutines : ~Owns(d)
        /\ waiters = <<>> /\ UNCHANGED waiters
        /\ \A d \in Coroutines : mpc[d] # "enq"
    BY DEF MutualExclusion, OwnedInv
  <2>2. Owns(c)' /\ locked'
    BY DEF Owns
  <2>3. Owner = NULL /\ Owner' = c
    BY <2>1, <2>2, OwnerIsWhoOwns, OwnerIsWhoOwnsNext
  <2>4. Abstract!Acquire(c)
    BY <2>1, <2>3 DEF Abstract!Acquire
  <2>5. OwnedInv'
    BY <2>2 DEF OwnedInv
  <2> QED
    BY <2>4, <2>5 DEF Abstract!Next
<1>2. CASE LockEnqueue(c)
  <2> USE <1>2 DEF LockEnqueue
  <2>1. PICK o \in Coroutines : Owns(o)
    BY DEF OwnedInv
  <2>2. c \notin ToSet(waiters)
    BY DEF WaitersWait
  <2>3. ToSet(waiters') = ToSet(waiters) \union {c} /\ waiters' # <<>>
    BY <2>2, PushQueue, EmptyQueue
  <2>4. o # c /\ Owns(o)'
    BY <2>1, <2>3 DEF Owns
  <2>5. Owner = o /\ Owner' = o /\ o # NULL
    BY <2>1, <2>4, NullAssumption, OwnerIsWhoOwns, OwnerIsWhoOwnsNext
  <2>6. Abstract!Wait(c)
    BY <2>2, <2>4, <2>5 DEF Abstract!Wait, Abstract!ToSet, ToSet
  <2>7. OwnedInv'
    BY <2>4 DEF OwnedInv
  <2> QED
    BY <2>6, <2>7 DEF Abstract!Next
<1>3. CASE UnlockFree(c)
  <2> USE <1>3 DEF UnlockFree
  <2>1. Owns(c) /\ waiters = <<>> /\ UNCHANGED waiters
    BY DEF Owns
  <2>2. \A d \in Coroutines : ~Owns(d)'
    BY <2>1 DEF MutualExclusion
  <2>3. Owner = c /\ Owner' = NULL /\ c # NULL
    BY <2>1, <2>2, NullAssumption, OwnerIsWhoOwns, OwnerIsWhoOwnsNext
  <2>4. Abstract!Release
    BY <2>1, <2>3 DEF Abstract!Release
  <2>5. OwnedInv'
    <3>1. \A d \in Coroutines : mpc'[d] # "enq"
      OBVIOUS
    <3>2. waiters' = <<>> /\ locked' = FALSE
      BY <2>1
    <3> QED
      BY <3>1, <3>2 DEF OwnedInv
  <2> QED
    BY <2>4, <2>5 DEF Abstract!Next
<1>4. CASE UnlockHandoff(c)
  <2> USE <1>4 DEF UnlockHandoff
  <2>0. PICK w : w = Head(waiters)
    OBVIOUS
  <2>1. /\ w \in Coroutines /\ w \in ToSet(waiters)
        /\ ToSet(waiters') = ToSet(waiters) \ {w}
    BY <2>0, PopQueue DEF SingleQueueMembership
  <2>2. mpc[w] \in {"susp", "parked"} /\ w # c
    BY <2>1 DEF WaitersWait
  <2>3. Owns(c) /\ Owns(w)'
    BY <2>1, <2>2 DEF Owns
  <2>4. Owner = c /\ Owner' = w /\ c # NULL
    BY <2>1, <2>3, NullAssumption, OwnerIsWhoOwns, OwnerIsWhoOwnsNext
  <2>5. Abstract!Release
    BY <2>0, <2>4 DEF Abstract!Release
  <2>6. locked /\ locked'
    BY DEF OwnedInv
  <2>7. OwnedInv'
    BY <2>1, <2>3, <2>6 DEF OwnedInv
  <2> QED
    BY <2>5, <2>7 DEF Abstract!Next
<1>5. CASE SetHolder(c) \/ LockCASFails(c) \/ LockSuspend(c) \/ LockReturns(c)
           \/ ClearHolder(c) \/ ResumeLocal(c) \/ ResumeRemote(c) \/ Signal(c)
  <2>1. UNCHANGED <<locked, waiters>>
    BY <1>5 DEF SetHolder, LockCASFails, LockSuspend, LockReturns, ClearHolder,
                ResumeLocal, ResumeRemote, Signal
  <2>2. /\ \A d \in Coroutines \ {c} : mpc'[d] = mpc[d]
        /\ \/ mpc[c] = "hold" /\ mpc'[c] = "in"
           \/ mpc[c] = "out" /\ mpc'[c] = "enq" /\ locked
           \/ mpc[c] = "susp" /\ mpc'[c] = "parked"
           \/ mpc[c] = "parked" /\ mpc'[c] = "in" /\ Executing(c)
           \/ mpc[c] = "clear" /\ mpc'[c] = "out"
           \/ mpc[c] \in {"resume", "signal"} /\ mpc'[c] \in {"out", "signal"}
    BY <1>5 DEF SetHolder, LockCASFails, LockSuspend, LockReturns, ClearHolder,
                ResumeLocal, ResumeRemote, Signal
  <2>3. mpc[c] = "parked" /\ Executing(c) => c \notin ToSet(waiters)
    BY DEF ExecutingIsUnlinked
  <2>4. \A d \in Coroutines : Owns(d)' <=> Owns(d)
    BY <2>1, <2>2, <2>3 DEF Owns
  <2>5. \A d \in Coroutines : mpc'[d] = "enq" => locked
    BY <2>2 DEF OwnedInv
  <2> QED
    BY <2>1, <2>4, <2>5, QuietRefines
<1> QED
  BY <1>1, <1>2, <1>3, <1>4, <1>5 DEF MutexStep

\* Every step of the mutex and of its callers is a step of AbstractMutex or a
\* stutter.
LEMMA NextRefines ==
  MutexInv /\ MutexInv' /\ OwnedInv /\ [RacelessNext]_vars
    => OwnedInv' /\ [Abstract!Next]_<<Owner, waiters>>
<1> SUFFICES ASSUME MutexInv, MutexInv', OwnedInv, [RacelessNext]_vars
             PROVE  OwnedInv' /\ [Abstract!Next]_<<Owner, waiters>>
  OBVIOUS
<1>1. ASSUME UNCHANGED mutexVars
      PROVE  OwnedInv' /\ [Abstract!Next]_<<Owner, waiters>>
  <2>1. \A d \in Coroutines : Owns(d)' <=> Owns(d)
    BY <1>1 DEF mutexVars, Owns
  <2>2. \A d \in Coroutines : mpc'[d] = "enq" => locked
    BY <1>1 DEF mutexVars, OwnedInv
  <2> QED
    BY <1>1, <2>1, <2>2, QuietRefines DEF mutexVars
<1>2. CASE UNCHANGED vars
  BY <1>1, <1>2 DEF vars, mutexVars
<1>3. CASE RacelessNext
  <2>1. Next /\ ~ \E c, d \in Coroutines : mpc[d] = "enq" /\ UnlockFree(c)
    BY <1>3 DEF RacelessNext
  <2>2. ASSUME NEW c \in Coroutines, MutexStep(c)
        PROVE  OwnedInv' /\ [Abstract!Next]_<<Owner, waiters>>
    BY <2>1, <2>2, MutexStepRefines
  <2>3. ASSUME NEW c \in Coroutines, UserStep(c)
        PROVE  OwnedInv' /\ [Abstract!Next]_<<Owner, waiters>>
    BY <1>1, <2>3 DEF UserStep
  <2>4. ASSUME NEW t \in Threads, ThreadStep(t)
        PROVE  OwnedInv' /\ [Abstract!Next]_<<Owner, waiters>>
    BY <1>1, <2>4 DEF ThreadStep
  <2> QED
    BY <2>1, <2>2, <2>3, <2>4 DEF Next
<1> QED
  BY <1>2, <1>3

\* coro.Mutex is a FIFO lock: without the race between a failed compareAndSwap
\* and its push, lock, tryLock and unlock implement AbstractMutex, whatever
\* threads they run on.
THEOREM MutexRefines == RacelessSpec => ImplementsAbstract
<1>1. Init => MutexInv /\ OwnedInv
  <2>1. Init => OwnedInv
    BY DEF Init, MutexInit, OwnedInv
  <2> QED
    BY <2>1, InitEstablishesInv
<1>2. Init => Abstract!Init
  <2> SUFFICES ASSUME Init PROVE Abstract!Init
    OBVIOUS
  <2>1. \A c \in Coroutines : ~Owns(c)
    BY DEF Init, MutexInit, Owns
  <2>2. Owner = NULL /\ waiters = <<>>
    BY <2>1 DEF Owner, Init, MutexInit
  <2> QED
    BY <2>2 DEF Abstract!Init
<1>3. [RacelessNext]_vars => [Next]_vars
  BY DEF RacelessNext
<1> QED
  BY <1>1, <1>2, <1>3, NextPreservesInv, NextRefines, PTL
  DEF RacelessSpec, ImplementsAbstract, Abstract!Spec

-----------------------------------------------------------------------------
(* ConditionVariable on top of the mutex.  CvInv is the inductive          *)
(* invariant; Unlocking are the coroutines in wait's call of unlock.       *)

\* The condition variable's variables have their types.
CvPC == {"idle", "unlock", "parked", "relock", "wake", "signal"}
CvTypeOK ==
  /\ cvWaiters \in Seq(Coroutines)
  /\ cpc \in [Coroutines -> CvPC]
  /\ toWake \in [Coroutines -> Seq(Coroutines)]
  /\ timed \in [Coroutines -> BOOLEAN]
  /\ timers \in SUBSET Coroutines
  /\ byTimer \in SUBSET Coroutines

\* Where a coroutine can be in the mutex's methods while it is in the condition
\* variable's.
CallsMatch ==
  \A c \in Coroutines :
    /\ cpc[c] = "unlock" => mpc[c] \in {"in", "clear", "resume", "signal", "out"}
    /\ cpc[c] = "parked" => mpc[c] = "out"
    /\ cpc[c] = "relock" =>
         mpc[c] \in {"out", "hold", "enq", "susp", "parked", "in"}
    /\ cpc[c] \in {"wake", "signal"} => mpc[c] \in {"in", "out"}

\* What notify and notifyAll hold in their hands.
HandsOff ==
  /\ \A c \in Coroutines :
       /\ toWake[c] # <<>> <=> cpc[c] \in {"wake", "signal"}
       /\ IsInjective(toWake[c])
  /\ \A c, d \in Coroutines :
       c # d => ToSet(ToWake(c)) \intersect ToSet(ToWake(d)) = {}
  /\ CvPopped \intersect ToSet(cvWaiters) = {}

\* Who waits, or was popped and not yet pushed, is in wait and in no list of a
\* scheduler, and does not return from suspend.
SleepersSleep ==
  /\ \A c \in Waiting \union CvPopped :
       /\ cpc[c] \in {"unlock", "parked"} /\ c \notin byTimer
       /\ c \notin ToSet(ready[home[c]]) \union ToSet(pending[home[c]])
  /\ \A c \in Coroutines :
       Executing(c) /\ cpc[c] = "parked" => c \notin Waiting \union CvPopped

\* A timer is armed for a coroutine in suspend and fires once per wait.
TimersArmed ==
  /\ byTimer \subseteq ToSet(cvWaiters)
  /\ \A c \in timers : cpc[c] = "parked" /\ c \notin byTimer
  /\ \A c \in byTimer : cpc[c] # "unlock"

DeadAreIdle == \A c \in Coroutines \ live : cpc[c] = "idle"

Unlocking == {c \in Coroutines : cpc[c] = "unlock"}
CvInv == /\ InvBut(Unlocking)
         /\ CvTypeOK /\ CallsMatch /\ IsInjective(cvWaiters) /\ HandsOff
         /\ SleepersSleep /\ TrueMeansNotified /\ TimersArmed /\ DeadAreIdle

\* The condition variable starts with no waiter.
LEMMA CvInitEstablishesInv == CvInit => CvInv
<1> SUFFICES ASSUME CvInit PROVE CvInv
  OBVIOUS
<1> USE DEF CvInit
<1>1. MutexInv
  BY InitEstablishesInv
<1>2. InvBut(Unlocking)
  <2>1. Unlocking = {}
    BY DEF Unlocking
  <2>2. InvBut({})
    BY <1>1, InvButNone
  <2> QED
    BY <2>1, <2>2
<1>3. CvTypeOK
  BY EmptyQueue DEF CvTypeOK, CvPC
<1>4. ToSet(cvWaiters) = {} /\ \A c \in Coroutines : ToSet(ToWake(c)) = {}
  BY EmptyQueue DEF ToWake
<1>5. CvPopped = {} /\ Waiting = {}
  BY <1>4 DEF CvPopped, Waiting
<1>6. CallsMatch /\ IsInjective(cvWaiters) /\ TrueMeansNotified /\ DeadAreIdle
  BY <1>4, EmptyQueue DEF CallsMatch, TrueMeansNotified, DeadAreIdle
<1>7. HandsOff
  BY <1>4, <1>5, EmptyQueue DEF HandsOff
<1>8. SleepersSleep /\ TimersArmed
  BY <1>4, <1>5 DEF SleepersSleep, TimersArmed
<1> QED
  BY <1>2, <1>3, <1>6, <1>7, <1>8 DEF CvInv

-----------------------------------------------------------------------------
\* What a step that leaves the condition variable alone has to respect: it puts
\* nobody who waits on a scheduler's list, and runs nobody who waits.
LEMMA OutsideKeepsCvInv ==
  ASSUME CvInv, UNCHANGED cvVars, InvBut(Unlocking)', CallsMatch', DeadAreIdle',
         \A c \in Coroutines :
           c \in ToSet(ready'[home[c]]) \union ToSet(pending'[home[c]]) =>
             \/ c \in ToSet(ready[home[c]]) \union ToSet(pending[home[c]])
             \/ cpc[c] \notin {"unlock", "parked"},
         \A c \in Coroutines :
           Executing(c)' =>
             \/ Executing(c)
             \/ c \in ToSet(ready[home[c]]) \union ToSet(pending[home[c]])
             \/ cpc[c] # "parked"
  PROVE  CvInv'
<1>1. /\ UNCHANGED <<cvWaiters, cpc, toWake, timed, timers, byTimer>>
      /\ Waiting' = Waiting /\ CvPopped' = CvPopped
      /\ \A c \in Coroutines : ToWake(c)' = ToWake(c)
  BY DEF cvVars, Waiting, CvPopped, ToWake
<1>2. CvTypeOK' /\ IsInjective(cvWaiters)' /\ TrueMeansNotified' /\ TimersArmed'
  BY <1>1 DEF CvInv, CvTypeOK, TrueMeansNotified, TimersArmed
<1>3. HandsOff'
  BY <1>1 DEF CvInv, HandsOff
<1>4. Waiting \union CvPopped \subseteq Coroutines
  <2>1. \A c \in Coroutines : ToSet(ToWake(c)) \subseteq Coroutines
    <3> SUFFICES ASSUME NEW c \in Coroutines PROVE ToSet(ToWake(c)) \subseteq Coroutines
      OBVIOUS
    <3>1. ToWake(c) \in Seq(Coroutines)
      BY HeadAndTail DEF ToWake, CvInv, CvTypeOK, HandsOff
    <3> QED
      BY <3>1, QueueElements
  <2>2. ToSet(cvWaiters) \subseteq Coroutines
    BY QueueElements DEF CvInv, CvTypeOK
  <2> QED
    BY <2>1, <2>2 DEF Waiting, CvPopped
<1>5. SleepersSleep'
  <2>1. ASSUME NEW c \in Waiting \union CvPopped
        PROVE  /\ cpc[c] \in {"unlock", "parked"} /\ c \notin byTimer
               /\ c \notin ToSet(ready'[home[c]]) \union ToSet(pending'[home[c]])
    BY <1>4 DEF CvInv, SleepersSleep
  <2>2. ASSUME NEW c \in Coroutines, Executing(c)', cpc[c] = "parked"
        PROVE  c \notin Waiting \union CvPopped
    BY <2>2 DEF CvInv, SleepersSleep
  <2> QED
    BY <1>1, <2>1, <2>2 DEF SleepersSleep
<1> QED
  BY <1>2, <1>3, <1>5 DEF CvInv

\* The mutex's own invariant, with E frozen at the coroutines in wait's unlock.
LEMMA UnlockingFrozen ==
  ASSUME CvInv, UNCHANGED cpc,
         \A E : InvBut(E) /\ E = Unlocking => InvBut(E)'
  PROVE  InvBut(Unlocking)'
<1>1. PICK E : E = Unlocking
  OBVIOUS
<1>2. InvBut(E)
  BY <1>1 DEF CvInv
<1>3. InvBut(E)'
  BY <1>1, <1>2
<1>4. Unlocking' = E
  BY <1>1 DEF Unlocking
<1> QED
  BY <1>3, <1>4 DEF InvBut, UnlinkedBut

\* lock and unlock move a coroutine along its own path only, and put on a
\* scheduler's list only the waiter unlock popped.
LEMMA MutexStepEffect ==
  ASSUME TypeOK, NEW c \in Coroutines, MutexStep(c)
  PROVE  /\ UNCHANGED <<running, live>>
         /\ tpc' = tpc \/ tpc' = [tpc EXCEPT ![home[c]] = "sched"]
         /\ \A d \in Coroutines \ {c} : mpc'[d] = mpc[d]
         /\ \/ mpc[c] = "out" /\ mpc'[c] \in {"hold", "enq"}
            \/ mpc[c] = "hold" /\ mpc'[c] = "in"
            \/ mpc[c] = "enq" /\ mpc'[c] = "susp"
            \/ mpc[c] = "susp" /\ mpc'[c] = "parked"
            \/ mpc[c] = "parked" /\ mpc'[c] = "in"
            \/ mpc[c] = "in" /\ mpc'[c] \in {"clear", "resume"}
            \/ mpc[c] = "clear" /\ mpc'[c] = "out"
            \/ mpc[c] = "resume" /\ mpc'[c] \in {"out", "signal"}
            \/ mpc[c] = "signal" /\ mpc'[c] = "out"
         /\ \/ UNCHANGED <<ready, pending>>
            \/ mpc[c] = "resume" /\ Resume(wakee[c]) /\ UNCHANGED pending
            \/ mpc[c] = "resume" /\ PushPending(wakee[c]) /\ UNCHANGED ready
<1> USE DEF TypeOK, MutexTypeOK, Goto, threadVars
<1>1. CASE AcquireCAS(c) \/ SetHolder(c) \/ LockCASFails(c) \/ LockEnqueue(c)
  BY <1>1 DEF AcquireCAS, SetHolder, LockCASFails, LockEnqueue
<1>2. CASE LockSuspend(c) \/ LockReturns(c)
  BY <1>2 DEF LockSuspend, LockReturns, Suspend
<1>3. CASE UnlockFree(c) \/ ClearHolder(c) \/ UnlockHandoff(c) \/ Signal(c)
  BY <1>3 DEF UnlockFree, ClearHolder, UnlockHandoff, Signal
<1>4. CASE ResumeLocal(c) \/ ResumeRemote(c)
  BY <1>4 DEF ResumeLocal, ResumeRemote
<1> QED
  BY <1>1, <1>2, <1>3, <1>4 DEF MutexStep

\* The calls of lock and unlock, the program's or wait's, keep CvInv.
LEMMA CvMutexStepKeeps ==
  ASSUME CvInv, NEW c \in Coroutines, CvMutexStep(c)
  PROVE  CvInv'
<1>1. MutexStep(c) /\ UNCHANGED cvVars /\ UNCHANGED cpc
  BY DEF CvMutexStep, cvVars
<1>2. InvBut(Unlocking)'
  <2>1. c \in Unlocking => mpc[c] \in {"in", "clear", "resume", "signal"}
    BY DEF CvInv, CallsMatch, Unlocking, CvMutexStep
  <2>2. ASSUME NEW E, InvBut(E), E = Unlocking PROVE InvBut(E)'
    <3>1. CASE c \notin E
      BY <1>1, <2>2, <3>1, LockPreservesInv, UnlockFreePreservesInv,
         UnlockHandoffPreservesInv, ResumePreservesInv, SignalPreservesInv
      DEF MutexStep
    <3>2. CASE c \in E
      <4>1. ~(AcquireCAS(c) \/ SetHolder(c) \/ LockCASFails(c)
              \/ LockEnqueue(c) \/ LockSuspend(c) \/ LockReturns(c))
        BY <2>1, <2>2, <3>2 DEF AcquireCAS, SetHolder, LockCASFails,
           LockEnqueue, LockSuspend, LockReturns
      <4> QED
        BY <1>1, <2>2, <4>1, UnlockFreePreservesInv, UnlockHandoffPreservesInv,
           ResumePreservesInv, SignalPreservesInv DEF MutexStep
    <3> QED
      BY <3>1, <3>2
  <2> QED
    BY <1>1, <2>2, UnlockingFrozen
<1>3. TypeOK /\ CallsMatch /\ DeadAreIdle
  BY DEF CvInv, InvBut
<1>4. /\ UNCHANGED <<running, live>>
      /\ tpc' = tpc \/ tpc' = [tpc EXCEPT ![home[c]] = "sched"]
      /\ \A d \in Coroutines \ {c} : mpc'[d] = mpc[d]
      /\ \/ mpc[c] = "out" /\ mpc'[c] \in {"hold", "enq"}
         \/ mpc[c] = "hold" /\ mpc'[c] = "in"
         \/ mpc[c] = "enq" /\ mpc'[c] = "susp"
         \/ mpc[c] = "susp" /\ mpc'[c] = "parked"
         \/ mpc[c] = "parked" /\ mpc'[c] = "in"
         \/ mpc[c] = "in" /\ mpc'[c] \in {"clear", "resume"}
         \/ mpc[c] = "clear" /\ mpc'[c] = "out"
         \/ mpc[c] = "resume" /\ mpc'[c] \in {"out", "signal"}
         \/ mpc[c] = "signal" /\ mpc'[c] = "out"
      /\ \/ UNCHANGED <<ready, pending>>
         \/ mpc[c] = "resume" /\ Resume(wakee[c]) /\ UNCHANGED pending
         \/ mpc[c] = "resume" /\ PushPending(wakee[c]) /\ UNCHANGED ready
  BY <1>1, <1>3, MutexStepEffect
<1>5. CallsMatch'
  <2>1. /\ mpc[c] = "out" => cpc[c] \in {"idle", "relock"}
        /\ mpc[c] = "in" => cpc[c] \in {"idle", "unlock"}
    BY DEF CvMutexStep
  <2> QED
    BY <1>1, <1>3, <1>4, <2>1 DEF CallsMatch
<1>6. DeadAreIdle'
  BY <1>1, <1>3, <1>4 DEF DeadAreIdle
<1>7. ASSUME NEW d \in Coroutines,
             d \in ToSet(ready'[home[d]]) \union ToSet(pending'[home[d]])
      PROVE  \/ d \in ToSet(ready[home[d]]) \union ToSet(pending[home[d]])
             \/ cpc[d] \notin {"unlock", "parked"}
  <2>1. CASE UNCHANGED <<ready, pending>>
    BY <1>7, <2>1
  <2>2. CASE mpc[c] = "resume"
             /\ \/ Resume(wakee[c]) /\ UNCHANGED pending
                \/ PushPending(wakee[c]) /\ UNCHANGED ready
    <3>1. PICK w : w = wakee[c]
      OBVIOUS
    <3>2. w \in Coroutines /\ mpc[w] \in {"susp", "parked"} /\ home[w] \in Threads
      BY <1>3, <2>2, <3>1, HomeAssumption
      DEF CvInv, InvBut, OneHandoffPerWaiter, WaitersWait, Popped, TypeOK,
          MutexTypeOK
    <3>3. cpc[w] \notin {"unlock", "parked"}
      BY <1>3, <3>2 DEF CallsMatch
    <3>4. ASSUME NEW t \in Threads
          PROVE  ToSet(ready'[t]) \union ToSet(pending'[t])
                   \subseteq ToSet(ready[t]) \union ToSet(pending[t]) \union {w}
      <4>1. ready[t] \in Seq(Coroutines) /\ pending[t] \in Seq(Coroutines)
        BY <1>3 DEF TypeOK, ThreadTypeOK
      <4>2. /\ ready'[t] = ready[t] \/ ready'[t] = Append(ready[t], w)
            /\ pending'[t] = pending[t] \/ pending'[t] = Append(pending[t], w)
        BY <1>3, <2>2, <3>1, <3>2 DEF TypeOK, ThreadTypeOK, Resume, PushPending
      <4>3. /\ ToSet(Append(ready[t], w)) = ToSet(ready[t]) \union {w}
            /\ ToSet(Append(pending[t], w)) = ToSet(pending[t]) \union {w}
        BY <3>2, <4>1, PushQueue
      <4>4. ToSet(ready'[t]) \subseteq ToSet(ready[t]) \union {w}
        BY <4>2, <4>3
      <4>5. ToSet(pending'[t]) \subseteq ToSet(pending[t]) \union {w}
        BY <4>2, <4>3
      <4> QED
        BY <4>4, <4>5
    <3> QED
      BY <1>7, <3>3, <3>4, HomeAssumption
  <2> QED
    BY <1>4, <2>1, <2>2
<1>8. \A d \in Coroutines : Executing(d)' => Executing(d)
  BY <1>3, <1>4, HomeAssumption DEF TypeOK, ThreadTypeOK, Executing
<1> QED
  BY <1>1, <1>2, <1>5, <1>6, <1>7, <1>8, OutsideKeepsCvInv

\* yld, async and epilogue outside the condition variable keep CvInv.
LEMMA CvUserStepKeeps ==
  ASSUME CvInv, NEW c \in Coroutines, CvUserStep(c)
  PROVE  CvInv'
<1>1. /\ UserStep(c) /\ cpc[c] = "idle" /\ c \notin Unlocking
      /\ UNCHANGED <<cvVars, mutexVars>> /\ UNCHANGED <<cpc, mpc>>
  BY DEF CvUserStep, UserStep, cvVars, mutexVars, Unlocking
<1>2. InvBut(Unlocking)'
  <2>1. ASSUME NEW E, InvBut(E), E = Unlocking PROVE InvBut(E)'
    BY <1>1, <2>1, UserPreservesInv
  <2> QED
    BY <1>1, <2>1, UnlockingFrozen
<1>3. TypeOK /\ CallsMatch /\ DeadAreIdle /\ home[c] \in Threads
  BY HomeAssumption DEF CvInv, InvBut
<1>4. CallsMatch'
  BY <1>1, <1>3 DEF CallsMatch
<1>5. /\ ready' = ready \/ Resume(c)
      /\ pending' = pending
      /\ \/ UNCHANGED <<running, live>> /\ tpc' = [tpc EXCEPT ![home[c]] = "sched"]
         \/ \E d \in Coroutines \ live :
              /\ running' = [running EXCEPT ![home[c]] = d]
              /\ live' = live \union {d} /\ UNCHANGED tpc
         \/ /\ running' = [running EXCEPT ![home[c]] = NULL]
            /\ live' = live \ {c} /\ tpc' = [tpc EXCEPT ![home[c]] = "sched"]
  BY <1>1 DEF UserStep, Yield, Async, Epilogue, Suspend
<1>6. DeadAreIdle'
  BY <1>1, <1>3, <1>5 DEF DeadAreIdle
<1>7. ASSUME NEW d \in Coroutines,
             d \in ToSet(ready'[home[d]]) \union ToSet(pending'[home[d]])
      PROVE  \/ d \in ToSet(ready[home[d]]) \union ToSet(pending[home[d]])
             \/ cpc[d] \notin {"unlock", "parked"}
  <2>1. \A t \in Threads : ToSet(ready'[t]) \subseteq ToSet(ready[t]) \union {c}
    <3> SUFFICES ASSUME NEW t \in Threads
                 PROVE  ToSet(ready'[t]) \subseteq ToSet(ready[t]) \union {c}
      OBVIOUS
    <3>1. ready[t] \in Seq(Coroutines)
      BY <1>3 DEF TypeOK, ThreadTypeOK
    <3>2. ready'[t] = ready[t] \/ ready'[t] = Append(ready[t], c)
      BY <1>3, <1>5 DEF TypeOK, ThreadTypeOK, Resume
    <3> QED
      BY <3>1, <3>2, PushQueue
  <2> QED
    BY <1>1, <1>5, <1>7, <2>1, HomeAssumption
<1>8. ASSUME NEW d \in Coroutines, Executing(d)'
      PROVE  Executing(d) \/ cpc[d] # "parked"
  BY <1>3, <1>5, <1>8, HomeAssumption, NullAssumption
  DEF TypeOK, ThreadTypeOK, Executing, DeadAreIdle
<1> QED
  BY <1>1, <1>2, <1>4, <1>6, <1>7, <1>8, OutsideKeepsCvInv

\* The scheduler runs only what is in its lists, so nobody who waits.
LEMMA CvThreadStepKeeps ==
  ASSUME CvInv, NEW t \in Threads, CvThreadStep(t)
  PROVE  CvInv'
<1>1. ThreadStep(t) /\ UNCHANGED <<cvVars, mutexVars>> /\ UNCHANGED <<cpc, mpc>>
  BY DEF CvThreadStep, ThreadStep, cvVars, mutexVars
<1>2. InvBut(Unlocking)'
  <2>1. ASSUME NEW E, InvBut(E), E = Unlocking PROVE InvBut(E)'
    BY <1>1, <2>1, ThreadPreservesInv
  <2> QED
    BY <1>1, <2>1, UnlockingFrozen
<1>3. TypeOK /\ CallsMatch /\ DeadAreIdle
  BY DEF CvInv, InvBut
<1>4. CallsMatch'
  BY <1>1, <1>3 DEF CallsMatch
<1>5. live' = live
  BY <1>1 DEF ThreadStep, Dispatch, PollWakeup
<1>6. DeadAreIdle'
  BY <1>1, <1>3, <1>5 DEF DeadAreIdle
<1> DEFINE Linked(u) == ToSet(ready[u]) \union ToSet(pending[u])
<1>7. /\ \A u \in Threads : Linked(u)' \subseteq Linked(u)
      /\ \A d \in Coroutines : Executing(d)' => Executing(d) \/ d \in Linked(home[d])
  <2>1. CASE PollWakeup(t)
    BY <1>3, <2>1, HomeAssumption DEF PollWakeup, Executing, TypeOK, ThreadTypeOK
  <2>2. CASE Dispatch(t)
    <3>1. PICK q : q = ready[t] \o pending[t]
      OBVIOUS
    <3>2. /\ q \in Seq(Coroutines) /\ ToSet(q) = Linked(t)
      BY <1>3, <3>1, DrainQueue DEF TypeOK, ThreadTypeOK
    <3>3. ToSet(pending'[t]) = {} /\ \A u \in Threads \ {t} : pending'[u] = pending[u]
      BY <1>3, <2>2, EmptyQueue DEF Dispatch, TypeOK, ThreadTypeOK
    <3>4. CASE q = <<>>
      BY <1>3, <2>2, <3>1, <3>3, <3>4, HomeAssumption
      DEF Dispatch, ProcessPending, Executing, TypeOK, ThreadTypeOK
    <3>5. CASE q # <<>>
      <4>1. PICK h : h = Head(q)
        OBVIOUS
      <4>2. h \in ToSet(q) /\ ToSet(Tail(q)) \subseteq ToSet(q)
        BY <3>2, <3>5, <4>1, HeadAndTail
      <4>3. /\ running' = [running EXCEPT ![t] = h]
            /\ ready' = [ready EXCEPT ![t] = Tail(q)]
            /\ tpc' = [tpc EXCEPT ![t] = "run"]
        BY <2>2, <3>1, <3>5, <4>1 DEF Dispatch, ProcessPending
      <4>4. \A u \in Threads : Linked(u)' \subseteq Linked(u)
        BY <1>3, <3>2, <3>3, <4>2, <4>3 DEF TypeOK, ThreadTypeOK
      <4>5. ASSUME NEW d \in Coroutines, Executing(d)'
            PROVE  Executing(d) \/ d \in Linked(home[d])
        BY <1>3, <3>2, <4>2, <4>3, <4>5, HomeAssumption
        DEF Executing, TypeOK, ThreadTypeOK
      <4> QED
        BY <4>4, <4>5
    <3> QED
      BY <3>4, <3>5
  <2> QED
    BY <1>1, <2>1, <2>2 DEF ThreadStep
<1>8. \A d \in Coroutines : d \in Linked(home[d])' => d \in Linked(home[d])
  BY <1>7, HomeAssumption
<1> QED
  BY <1>1, <1>2, <1>4, <1>6, <1>7, <1>8, OutsideKeepsCvInv

-----------------------------------------------------------------------------
\* Who was popped is in the hands of some notify, and a coroutine.
LEMMA PoppedFacts ==
  ASSUME CvInv
  PROVE  /\ \A d \in Coroutines : ToWake(d) \in Seq(Coroutines)
         /\ \A d \in Coroutines : ToSet(ToWake(d)) \subseteq CvPopped
         /\ \A x \in CvPopped : \E d \in Coroutines : x \in ToSet(ToWake(d))
         /\ CvPopped \subseteq Coroutines
         /\ Waiting \subseteq Coroutines
         /\ ToSet(cvWaiters) \subseteq Coroutines
<1>1. \A d \in Coroutines : ToWake(d) \in Seq(Coroutines)
  BY HeadAndTail DEF ToWake, CvInv, CvTypeOK, HandsOff
<1>2. \A d \in Coroutines : ToSet(ToWake(d)) \subseteq Coroutines
  BY <1>1, QueueElements
<1>3. ToSet(cvWaiters) \subseteq Coroutines
  BY QueueElements DEF CvInv, CvTypeOK
<1> QED
  BY <1>1, <1>2, <1>3 DEF CvPopped, Waiting

\* The same elements in somebody's hands, the same popped coroutines.
LEMMA PoppedNext ==
  /\ \A x : x \in CvPopped' <=> \E d \in Coroutines : x \in ToSet(ToWake(d)')
  /\ \A x : x \in CvPopped <=> \E d \in Coroutines : x \in ToSet(ToWake(d))
  BY DEF CvPopped

\* A step of the condition variable that moves no coroutine between lists of a
\* scheduler keeps the mutex's invariant, if it lets nobody leave unlock and run.
LEMMA StillKeepsInvBut ==
  ASSUME CvInv, UNCHANGED <<mutexVars, running, ready, pending, live>>,
         tpc' \in [Threads -> {"run", "sched", "poll"}],
         wakefd' \in [Threads -> BOOLEAN],
         \A d \in Coroutines :
           Executing(d)' => Executing(d) /\ (d \in Unlocking => d \in Unlocking')
  PROVE  InvBut(Unlocking)'
<1> USE DEF CvInv, InvBut, mutexVars
<1>1. Popped' = Popped
  BY DEF Popped
<1>2. TypeOK'
  BY DEF TypeOK, ThreadTypeOK, MutexTypeOK
<1>3. MutualExclusion' /\ OneHandoffPerWaiter'
  BY DEF MutualExclusion, Owns, OneHandoffPerWaiter
<1>4. SingleQueueMembership' /\ WaitersWait'
  BY <1>1 DEF SingleQueueMembership, WaitersWait
<1>5. UnlinkedBut(Unlocking)'
  <2>1. UnlinkedBut(Unlocking)
    OBVIOUS
  <2> QED
    BY <1>1, <2>1 DEF UnlinkedBut
<1>6. DeadAreUnlinked'
  BY DEF DeadAreUnlinked
<1> QED
  BY <1>2, <1>3, <1>4, <1>5, <1>6

\* resume and resumeAndWake keep the mutex's invariant for a coroutine that is in
\* no list, as notify's and the timer's are.
LEMMA PushKeepsInvBut ==
  ASSUME NEW E, InvBut(E), NEW w \in live, mpc[w] \notin {"susp", "parked"},
         w \notin ToSet(ready[home[w]]) \union ToSet(pending[home[w]]),
         UNCHANGED <<mutexVars, running, wakefd, live>>,
         \/ /\ Resume(w) /\ UNCHANGED pending /\ ~Executing(w)
            /\ tpc' = tpc \/ tpc' = [tpc EXCEPT ![home[w]] = "sched"]
         \/ /\ PushPending(w) /\ UNCHANGED <<ready, tpc>>
            /\ Executing(w) => w \in E
  PROVE  InvBut(E)'
<1> USE HomeAssumption DEF InvBut, mutexVars
<1>1. Popped' = Popped
  BY DEF Popped
<1>2. /\ w \in Coroutines /\ home[w] \in Threads
      /\ w \notin ToSet(waiters) \union Popped
      /\ ready \in [Threads -> Seq(Coroutines)]
      /\ pending \in [Threads -> Seq(Coroutines)]
      /\ tpc \in [Threads -> {"run", "sched", "poll"}]
  BY DEF TypeOK, ThreadTypeOK, WaitersWait
<1>3. MutualExclusion' /\ OneHandoffPerWaiter' /\ WaitersWait'
  BY <1>1 DEF MutualExclusion, Owns, OneHandoffPerWaiter, WaitersWait
<1>4. CASE Resume(w) /\ UNCHANGED pending /\ ~Executing(w)
           /\ (tpc' = tpc \/ tpc' = [tpc EXCEPT ![home[w]] = "sched"])
  <2>1. /\ ready'[home[w]] \in Seq(Coroutines)
        /\ IsInjective(ready'[home[w]])
        /\ ToSet(ready'[home[w]]) = ToSet(ready[home[w]]) \union {w}
        /\ \A t \in Threads \ {home[w]} : ready'[t] = ready[t]
        /\ ready' \in [Threads -> Seq(Coroutines)]
    BY <1>2, <1>4, PushQueue DEF SingleQueueMembership, Resume
  <2>2. \A d \in Coroutines : Executing(d)' => Executing(d) /\ d # w
    BY <1>2, <1>4 DEF Executing
  <2>3. TypeOK'
    BY <1>2, <1>4, <2>1 DEF TypeOK, ThreadTypeOK, MutexTypeOK
  <2>4. SingleQueueMembership'
    <3>1. ASSUME NEW t \in Threads
          PROVE  /\ IsInjective(ready'[t]) /\ IsInjective(pending'[t])
                 /\ ToSet(ready'[t]) \intersect ToSet(pending'[t]) = {}
                 /\ \A d \in ToSet(ready'[t]) \union ToSet(pending'[t]) :
                      home[d] = t /\ d \notin ToSet(waiters) \union Popped
      <4>1. CASE t = home[w]
        BY <1>2, <1>4, <2>1, <4>1 DEF SingleQueueMembership
      <4>2. CASE t # home[w]
        BY <1>4, <2>1, <4>2 DEF SingleQueueMembership
      <4> QED
        BY <4>1, <4>2
    <3>2. IsInjective(waiters) /\ Popped \intersect ToSet(waiters) = {}
      BY DEF SingleQueueMembership
    <3> QED
      BY <1>1, <3>1, <3>2 DEF SingleQueueMembership
  <2>5. UnlinkedBut(E)'
    BY <1>1, <1>2, <1>4, <2>1, <2>2 DEF UnlinkedBut
  <2>6. DeadAreUnlinked'
    <3>1. \A t \in Threads : ToSet(ready'[t]) \subseteq ToSet(ready[t]) \union {w}
      BY <2>1
    <3> QED
      BY <1>4, <2>2, <3>1 DEF DeadAreUnlinked
  <2> QED
    BY <1>3, <2>3, <2>4, <2>5, <2>6
<1>5. CASE PushPending(w) /\ UNCHANGED <<ready, tpc>> /\ (Executing(w) => w \in E)
  <2>1. /\ pending'[home[w]] \in Seq(Coroutines)
        /\ IsInjective(pending'[home[w]])
        /\ ToSet(pending'[home[w]]) = ToSet(pending[home[w]]) \union {w}
        /\ \A t \in Threads \ {home[w]} : pending'[t] = pending[t]
        /\ pending' \in [Threads -> Seq(Coroutines)]
    BY <1>2, <1>5, PushQueue DEF SingleQueueMembership, PushPending
  <2>2. \A d \in Coroutines : Executing(d)' <=> Executing(d)
    BY <1>5 DEF Executing
  <2>3. TypeOK'
    BY <1>2, <1>5, <2>1 DEF TypeOK, ThreadTypeOK, MutexTypeOK
  <2>4. SingleQueueMembership'
    <3>1. ASSUME NEW t \in Threads
          PROVE  /\ IsInjective(ready'[t]) /\ IsInjective(pending'[t])
                 /\ ToSet(ready'[t]) \intersect ToSet(pending'[t]) = {}
                 /\ \A d \in ToSet(ready'[t]) \union ToSet(pending'[t]) :
                      home[d] = t /\ d \notin ToSet(waiters) \union Popped
      <4>1. CASE t = home[w]
        BY <1>2, <1>5, <2>1, <4>1 DEF SingleQueueMembership
      <4>2. CASE t # home[w]
        BY <1>5, <2>1, <4>2 DEF SingleQueueMembership
      <4> QED
        BY <4>1, <4>2
    <3>2. IsInjective(waiters) /\ Popped \intersect ToSet(waiters) = {}
      BY DEF SingleQueueMembership
    <3> QED
      BY <1>1, <3>1, <3>2 DEF SingleQueueMembership
  <2>5. UnlinkedBut(E)'
    BY <1>1, <1>2, <1>5, <2>1, <2>2 DEF UnlinkedBut
  <2>6. DeadAreUnlinked'
    BY <1>2, <1>5, <2>1, <2>2 DEF DeadAreUnlinked
  <2> QED
    BY <1>3, <2>3, <2>4, <2>5, <2>6
<1> QED
  BY <1>4, <1>5

-----------------------------------------------------------------------------
\* wait pushes its caller, which is in no other list.
LEMMA WaitKeeps ==
  ASSUME CvInv, NEW c \in Coroutines, NEW b \in BOOLEAN, Wait(c, b),
         UnusedAfterTimeout
  PROVE  CvInv'
<1> USE DEF CvGoto
<1>1. /\ Executing(c) /\ mpc[c] = "in" /\ cpc[c] = "idle"
      /\ cvWaiters' = Append(cvWaiters, c) /\ cpc' = [cpc EXCEPT ![c] = "unlock"]
      /\ timed' = [timed EXCEPT ![c] = b]
      /\ UNCHANGED <<toWake, timers, byTimer>> /\ UNCHANGED mutexVars
      /\ UNCHANGED mpc /\ UNCHANGED <<running, ready, pending, tpc, wakefd, live>>
  BY DEF Wait, mutexVars, threadVars
<1>2. /\ CvTypeOK /\ TypeOK /\ CallsMatch /\ HandsOff /\ SleepersSleep
      /\ TrueMeansNotified /\ TimersArmed /\ DeadAreIdle /\ UnlinkedBut(Unlocking)
      /\ DeadAreUnlinked
  BY DEF CvInv, InvBut
<1>3. /\ c \notin ToSet(cvWaiters)
      /\ cvWaiters' \in Seq(Coroutines) /\ IsInjective(cvWaiters')
      /\ ToSet(cvWaiters') = ToSet(cvWaiters) \union {c}
  <2>1. cvWaiters' # cvWaiters
    BY <1>1, <1>2, AppendProperties DEF CvTypeOK
  <2>2. c \notin ToSet(cvWaiters)
    BY <1>1, <1>2, <2>1 DEF TrueMeansNotified, UnusedAfterTimeout
  <2>3. IsInjective(cvWaiters)
    BY DEF CvInv
  <2> QED
    BY <1>1, <1>2, <2>2, <2>3, PushQueue DEF CvTypeOK
<1>4. c \notin byTimer /\ c \notin CvPopped
  BY <1>1, <1>2, <1>3 DEF TimersArmed, SleepersSleep
<1>5. c \notin ToSet(ready[home[c]]) \union ToSet(pending[home[c]])
  BY <1>1, <1>2 DEF UnlinkedBut, Unlocking
<1>6. CvTypeOK'
  BY <1>1, <1>2, <1>3 DEF CvTypeOK, CvPC
<1>7. /\ cpc'[c] = "unlock" /\ \A d \in Coroutines \ {c} : cpc'[d] = cpc[d]
  BY <1>1, <1>2 DEF CvTypeOK
<1>8. \A d \in Coroutines : ToWake(d)' = ToWake(d)
  BY <1>1, <1>7 DEF ToWake
<1>9. CvPopped' = CvPopped
  BY <1>8 DEF CvPopped
<1>10. InvBut(Unlocking)'
  <2>1. \A d \in Coroutines : d \in Unlocking => d \in Unlocking'
    BY <1>7 DEF Unlocking
  <2>2. \A d \in Coroutines : Executing(d)' => Executing(d)
    BY <1>1 DEF Executing
  <2>3. /\ tpc' \in [Threads -> {"run", "sched", "poll"}]
        /\ wakefd' \in [Threads -> BOOLEAN]
    BY <1>1, <1>2 DEF TypeOK, ThreadTypeOK
  <2> QED
    BY <1>1, <2>1, <2>2, <2>3, StillKeepsInvBut
<1>11. CallsMatch'
  BY <1>1, <1>2, <1>7 DEF CallsMatch
<1>12. HandsOff'
  <2>1. \A d \in Coroutines :
          /\ toWake'[d] # <<>> <=> cpc'[d] \in {"wake", "signal"}
          /\ IsInjective(toWake'[d])
    BY <1>1, <1>2, <1>7 DEF HandsOff
  <2>2. CvPopped' \intersect ToSet(cvWaiters)' = {}
    BY <1>2, <1>3, <1>4, <1>9 DEF HandsOff
  <2> QED
    BY <1>2, <1>8, <2>1, <2>2 DEF HandsOff
<1>13. SleepersSleep'
  <2>1. ASSUME NEW d \in Waiting' \union CvPopped'
        PROVE  d = c \/ d \in Waiting \union CvPopped
    <3>1. d \in Coroutines
      BY <1>3, <1>9, PoppedFacts DEF Waiting
    <3> QED
      BY <1>1, <1>3, <1>7, <1>9, <3>1 DEF Waiting
  <2>2. ASSUME NEW d \in Waiting' \union CvPopped'
        PROVE  /\ cpc'[d] \in {"unlock", "parked"} /\ d \notin byTimer'
               /\ d \notin ToSet(ready'[home[d]]) \union ToSet(pending'[home[d]])
    <3>1. CASE d = c
      BY <1>1, <1>4, <1>5, <1>7, <3>1
    <3>2. CASE d # c /\ d \in Waiting \union CvPopped
      BY <1>1, <1>2, <1>7, <3>2, PoppedFacts DEF SleepersSleep
    <3> QED
      BY <2>1, <3>1, <3>2
  <2>3. ASSUME NEW d \in Coroutines, Executing(d)', cpc'[d] = "parked"
        PROVE  d \notin Waiting' \union CvPopped'
    <3>1. d # c /\ Executing(d) /\ cpc[d] = "parked"
      BY <1>1, <1>7, <2>3 DEF Executing
    <3> QED
      BY <1>2, <2>1, <3>1 DEF SleepersSleep
  <2> QED
    BY <2>2, <2>3 DEF SleepersSleep
<1>14. TrueMeansNotified'
  BY <1>1, <1>2, <1>3, <1>7, PoppedFacts DEF TrueMeansNotified
<1>15. TimersArmed'
  <2>1. byTimer \subseteq ToSet(cvWaiters) /\ ToSet(cvWaiters) \subseteq Coroutines
    BY <1>2, PoppedFacts DEF TimersArmed
  <2>2. \A d \in timers : d \in Coroutines /\ d # c
    BY <1>1, <1>2 DEF TimersArmed, CvTypeOK
  <2> QED
    BY <1>1, <1>2, <1>3, <1>4, <1>7, <2>1, <2>2 DEF TimersArmed
<1>16. DeadAreIdle'
  BY <1>1, <1>2, <1>7 DEF DeadAreIdle, DeadAreUnlinked
<1> QED
  BY <1>3, <1>6, <1>10, <1>11, <1>12, <1>13, <1>14, <1>15, <1>16 DEF CvInv

\* wait and waitTimeout reach suspend, come back from it and return.
LEMMA WaiterMovesKeep ==
  ASSUME CvInv, NEW c \in Coroutines,
         CvSuspend(c) \/ CvResumed(c) \/ CvReturns(c)
  PROVE  CvInv'
<1> USE DEF CvGoto
<1>1. /\ Executing(c)
      /\ UNCHANGED <<cvWaiters, toWake, byTimer>> /\ UNCHANGED mutexVars
      /\ UNCHANGED mpc /\ UNCHANGED <<running, ready, pending, wakefd, live>>
      /\ timed' = timed \/ timed' = [timed EXCEPT ![c] = FALSE]
      /\ \/ /\ cpc[c] = "unlock" /\ mpc[c] = "out"
            /\ cpc' = [cpc EXCEPT ![c] = "parked"]
            /\ tpc' = [tpc EXCEPT ![home[c]] = "sched"]
            /\ timers' = timers \/ timers' = timers \union {c}
         \/ /\ cpc[c] = "parked" /\ cpc' = [cpc EXCEPT ![c] = "relock"]
            /\ UNCHANGED tpc /\ timers' = timers \ {c}
         \/ /\ cpc[c] = "relock" /\ mpc[c] = "in"
            /\ cpc' = [cpc EXCEPT ![c] = "idle"]
            /\ UNCHANGED tpc /\ timers' = timers
  BY DEF CvSuspend, CvResumed, CvReturns, mutexVars, threadVars, Suspend
<1>2. /\ CvTypeOK /\ TypeOK /\ CallsMatch /\ HandsOff /\ SleepersSleep
      /\ TrueMeansNotified /\ TimersArmed /\ DeadAreIdle /\ IsInjective(cvWaiters)
      /\ DeadAreUnlinked
  BY DEF CvInv, InvBut
<1>3. /\ cpc[c] \in {"unlock", "parked", "relock"}
      /\ \A d \in Coroutines \ {c} : cpc'[d] = cpc[d]
      /\ \/ cpc[c] = "unlock" /\ cpc'[c] = "parked"
         \/ cpc[c] = "parked" /\ cpc'[c] = "relock"
         \/ cpc[c] = "relock" /\ cpc'[c] = "idle"
  BY <1>1, <1>2 DEF CvTypeOK
<1>4. \A d \in Coroutines : ToWake(d)' = ToWake(d)
  BY <1>1, <1>3 DEF ToWake
<1>5. CvPopped' = CvPopped
  BY <1>4 DEF CvPopped
<1>6. cpc[c] = "parked" => c \notin Waiting \union CvPopped
  BY <1>1, <1>2 DEF SleepersSleep
<1>7. Waiting' = Waiting
  BY <1>1, <1>3, <1>6, PoppedFacts DEF Waiting
<1>8. /\ \A d \in Coroutines : Executing(d)' => Executing(d)
      /\ cpc[c] = "unlock" => ~Executing(c)'
  BY <1>1, <1>2, HomeAssumption DEF Executing, TypeOK, ThreadTypeOK
<1>9. CvTypeOK'
  BY <1>1, <1>2 DEF CvTypeOK, CvPC
<1>10. InvBut(Unlocking)'
  <2>1. \A d \in Coroutines : Executing(d)' /\ d \in Unlocking => d \in Unlocking'
    BY <1>3, <1>8 DEF Unlocking
  <2>2. /\ tpc' \in [Threads -> {"run", "sched", "poll"}]
        /\ wakefd' \in [Threads -> BOOLEAN]
    BY <1>1, <1>2, HomeAssumption DEF TypeOK, ThreadTypeOK
  <2> QED
    BY <1>1, <1>8, <2>1, <2>2, StillKeepsInvBut
<1>11. CallsMatch'
  BY <1>1, <1>2, <1>3 DEF CallsMatch
<1>12. HandsOff'
  BY <1>1, <1>2, <1>3, <1>4, <1>5 DEF HandsOff
<1>13. SleepersSleep'
  <2>1. ASSUME NEW d \in Waiting \union CvPopped
        PROVE  /\ cpc'[d] \in {"unlock", "parked"} /\ d \notin byTimer'
               /\ d \notin ToSet(ready'[home[d]]) \union ToSet(pending'[home[d]])
    <3>1. d \in Coroutines /\ cpc[d] \in {"unlock", "parked"}
      BY <1>2, PoppedFacts DEF SleepersSleep
    <3> QED
      BY <1>1, <1>2, <1>3, <1>6, <3>1 DEF SleepersSleep
  <2>2. ASSUME NEW d \in Coroutines, Executing(d)', cpc'[d] = "parked"
        PROVE  d \notin Waiting \union CvPopped
    BY <1>2, <1>3, <1>8, <2>2 DEF SleepersSleep
  <2> QED
    BY <1>5, <1>7, <2>1, <2>2 DEF SleepersSleep
<1>14. TrueMeansNotified'
  <2>1. c \in ToSet(cvWaiters) /\ cpc'[c] \notin {"unlock", "parked"} => c \in byTimer
    BY <1>2, <1>3, <1>6 DEF TrueMeansNotified, Waiting
  <2> QED
    BY <1>1, <1>2, <1>3, <2>1, PoppedFacts DEF TrueMeansNotified
<1>15. TimersArmed'
  <2>1. \A d \in byTimer : d \in Coroutines /\ cpc[d] # "unlock"
    BY <1>2 DEF TimersArmed, CvTypeOK
  <2>2. \A d \in timers : d \in Coroutines /\ cpc[d] = "parked" /\ d \notin byTimer
    BY <1>2 DEF TimersArmed, CvTypeOK
  <2>3. \A d \in timers' : cpc'[d] = "parked" /\ d \notin byTimer'
    BY <1>1, <1>3, <2>1, <2>2
  <2>4. \A d \in byTimer' : cpc'[d] # "unlock"
    BY <1>1, <1>3, <2>1
  <2> QED
    BY <1>1, <1>2, <2>3, <2>4 DEF TimersArmed
<1>16. DeadAreIdle'
  BY <1>1, <1>2, <1>3 DEF DeadAreIdle, DeadAreUnlinked
<1> QED
  BY <1>1, <1>2, <1>9, <1>10, <1>11, <1>12, <1>13, <1>14, <1>15, <1>16 DEF CvInv

-----------------------------------------------------------------------------
\* notify and notifyAll take waiters that still wait out of _waiters.
LEMMA NotifyKeeps ==
  ASSUME CvInv, NEW c \in Coroutines, Notify(c) \/ NotifyAll(c),
         UnusedAfterTimeout
  PROVE  CvInv'
<1> USE DEF CvGoto
<1>1. /\ Executing(c) /\ mpc[c] \in {"in", "out"} /\ cpc[c] = "idle"
      /\ cvWaiters # <<>>
      /\ cpc' = [cpc EXCEPT ![c] = "wake"]
      /\ UNCHANGED <<timed, timers, byTimer>> /\ UNCHANGED mutexVars
      /\ UNCHANGED mpc /\ UNCHANGED <<running, ready, pending, tpc, wakefd, live>>
  BY DEF Notify, NotifyAll, MayNotify, mutexVars, threadVars
<1>2. /\ CvTypeOK /\ TypeOK /\ CallsMatch /\ HandsOff /\ SleepersSleep
      /\ TrueMeansNotified /\ TimersArmed /\ DeadAreIdle /\ IsInjective(cvWaiters)
      /\ DeadAreUnlinked
  BY DEF CvInv, InvBut
<1>3. PICK p \in Seq(Coroutines) :
        /\ p # <<>> /\ IsInjective(p) /\ toWake' = [toWake EXCEPT ![c] = p]
        /\ cvWaiters' \in Seq(Coroutines) /\ IsInjective(cvWaiters')
        /\ ToSet(p) \subseteq ToSet(cvWaiters)
        /\ ToSet(cvWaiters') = ToSet(cvWaiters) \ ToSet(p)
  <2>1. CASE Notify(c)
    <3>1. PICK h : h = Head(cvWaiters)
      OBVIOUS
    <3>2. /\ h \in Coroutines /\ h \in ToSet(cvWaiters)
          /\ Tail(cvWaiters) \in Seq(Coroutines) /\ IsInjective(Tail(cvWaiters))
          /\ ToSet(Tail(cvWaiters)) = ToSet(cvWaiters) \ {h}
      BY <1>1, <1>2, <3>1, PopQueue DEF CvTypeOK
    <3>3. PICK p : p = <<h>>
      OBVIOUS
    <3>4. p \in Seq(Coroutines) /\ p # <<>> /\ ToSet(p) = {h} /\ IsInjective(p)
      BY <3>2, <3>3 DEF ToSet, IsInjective
    <3>5. toWake' = [toWake EXCEPT ![c] = p] /\ cvWaiters' = Tail(cvWaiters)
      BY <2>1, <3>1, <3>3 DEF Notify
    <3> QED
      BY <3>2, <3>4, <3>5
  <2>2. CASE NotifyAll(c)
    <3>1. toWake' = [toWake EXCEPT ![c] = cvWaiters] /\ cvWaiters' = <<>>
      BY <2>2 DEF NotifyAll
    <3> QED
      BY <1>1, <1>2, <3>1, EmptyQueue DEF CvTypeOK
  <2> QED
    BY <2>1, <2>2
<1>4. /\ cpc'[c] = "wake" /\ toWake'[c] = p /\ ToSet(toWake[c]) = {}
      /\ \A d \in Coroutines \ {c} : cpc'[d] = cpc[d] /\ toWake'[d] = toWake[d]
  <2>1. toWake[c] = <<>>
    BY <1>1, <1>2 DEF HandsOff
  <2> QED
    BY <1>1, <1>2, <1>3, <2>1, EmptyQueue DEF CvTypeOK
<1>5. ToSet(p) \subseteq Waiting
  <2>1. \A d \in ToSet(p) : d \in Coroutines
    BY <1>3, QueueElements
  <2>2. \A d \in ToSet(p) : cpc[d] \in {"unlock", "parked"} /\ d \notin byTimer
    <3>1. cvWaiters' # cvWaiters
      <4>1. Head(p) \in ToSet(p)
        BY <1>3, PopQueue
      <4> QED
        BY <1>3, <4>1
    <3>2. byTimer = {}
      BY <3>1 DEF UnusedAfterTimeout
    <3> QED
      BY <1>2, <1>3, <3>2 DEF TrueMeansNotified
  <2> QED
    BY <1>3, <2>2 DEF Waiting
<1>6. /\ ToWake(c)' = p
      /\ \A d \in Coroutines \ {c} : ToWake(d)' = ToWake(d)
      /\ ToSet(ToWake(c)) = {}
  BY <1>1, <1>4 DEF ToWake
<1>7. \A x : x \in CvPopped' <=> x \in CvPopped \/ x \in ToSet(p)
  BY <1>6, PoppedNext
<1>8. Waiting' = Waiting \ ToSet(p)
  BY <1>1, <1>3, <1>4, PoppedFacts DEF Waiting
<1>9. CvTypeOK'
  BY <1>1, <1>2, <1>3 DEF CvTypeOK, CvPC
<1>10. InvBut(Unlocking)'
  <2>1. \A d \in Coroutines : d \in Unlocking => d \in Unlocking'
    BY <1>1, <1>4 DEF Unlocking
  <2>2. \A d \in Coroutines : Executing(d)' => Executing(d)
    BY <1>1 DEF Executing
  <2>3. /\ tpc' \in [Threads -> {"run", "sched", "poll"}]
        /\ wakefd' \in [Threads -> BOOLEAN]
    BY <1>1, <1>2 DEF TypeOK, ThreadTypeOK
  <2> QED
    BY <1>1, <2>1, <2>2, <2>3, StillKeepsInvBut
<1>11. CallsMatch'
  BY <1>1, <1>2, <1>4 DEF CallsMatch
<1>12. HandsOff'
  <2>1. \A d \in Coroutines :
          /\ toWake'[d] # <<>> <=> cpc'[d] \in {"wake", "signal"}
          /\ IsInjective(toWake'[d])
    BY <1>2, <1>3, <1>4 DEF HandsOff
  <2>2. CvPopped \intersect ToSet(cvWaiters) = {}
    BY <1>2 DEF HandsOff
  <2>3. CvPopped' \intersect ToSet(cvWaiters') = {}
    BY <1>3, <1>7, <2>2
  <2>4. \A d \in Coroutines : ToSet(ToWake(d)) \intersect ToSet(p) = {}
    BY <1>3, <2>2, PoppedFacts
  <2>5. \A d, e \in Coroutines :
          d # e => ToSet(ToWake(d)') \intersect ToSet(ToWake(e)') = {}
    BY <1>2, <1>6, <2>4 DEF HandsOff
  <2> QED
    BY <2>1, <2>3, <2>5 DEF HandsOff
<1>13. SleepersSleep'
  <2>1. \A d \in Waiting' \union CvPopped' : d \in Waiting \union CvPopped
    BY <1>5, <1>7, <1>8
  <2>2. ASSUME NEW d \in Waiting \union CvPopped
        PROVE  /\ cpc'[d] \in {"unlock", "parked"} /\ d \notin byTimer'
               /\ d \notin ToSet(ready'[home[d]]) \union ToSet(pending'[home[d]])
    <3>1. d \in Coroutines /\ cpc[d] \in {"unlock", "parked"}
      BY <1>2, PoppedFacts DEF SleepersSleep
    <3> QED
      BY <1>1, <1>2, <1>4, <3>1 DEF SleepersSleep
  <2>3. ASSUME NEW d \in Coroutines, Executing(d)', cpc'[d] = "parked"
        PROVE  d \notin Waiting \union CvPopped
    BY <1>1, <1>2, <1>4, <2>3 DEF SleepersSleep, Executing
  <2> QED
    BY <2>1, <2>2, <2>3 DEF SleepersSleep
<1>14. TrueMeansNotified'
  BY <1>1, <1>2, <1>3, <1>4, PoppedFacts DEF TrueMeansNotified
<1>15. TimersArmed'
  <2>1. byTimer \intersect ToSet(p) = {}
    BY <1>5 DEF Waiting
  <2>2. \A d \in byTimer \union timers : d \in Coroutines
    BY <1>2 DEF CvTypeOK
  <2> QED
    BY <1>1, <1>2, <1>3, <1>4, <2>1, <2>2 DEF TimersArmed
<1>16. DeadAreIdle'
  BY <1>1, <1>2, <1>4 DEF DeadAreIdle, DeadAreUnlinked
<1> QED
  BY <1>3, <1>9, <1>10, <1>11, <1>12, <1>13, <1>14, <1>15, <1>16 DEF CvInv

\* notify hands the coroutine it popped to its scheduler.
LEMMA WakeKeeps ==
  ASSUME CvInv, NEW c \in Coroutines, WakeHere(c) \/ CvPushThere(c)
  PROVE  CvInv'
<1> USE DEF CvGoto
<1>1. PICK w : w = Head(toWake[c])
  OBVIOUS
<1>2. /\ Executing(c) /\ cpc[c] = "wake"
      /\ byTimer' = byTimer \ {w}
      /\ UNCHANGED <<cvWaiters, timed, timers>> /\ UNCHANGED mutexVars
      /\ UNCHANGED mpc /\ UNCHANGED <<running, tpc, wakefd, live>>
      /\ \/ /\ home[w] = home[c] /\ Resume(w) /\ UNCHANGED pending
            /\ toWake' = [toWake EXCEPT ![c] = Tail(toWake[c])]
            /\ cpc' = [cpc EXCEPT ![c] = IF Len(toWake[c]) = 1 THEN "idle" ELSE "wake"]
         \/ /\ home[w] # home[c] /\ PushPending(w) /\ UNCHANGED <<ready, toWake>>
            /\ cpc' = [cpc EXCEPT ![c] = "signal"]
  <2>1. CASE WakeHere(c)
    BY <1>1, <2>1 DEF WakeHere, ResumeHere, PopToWake, mutexVars
  <2>2. CASE CvPushThere(c)
    BY <1>1, <2>2 DEF CvPushThere, ResumeThere, mutexVars
  <2> QED
    BY <2>1, <2>2
<1>3. /\ CvTypeOK /\ TypeOK /\ CallsMatch /\ HandsOff /\ SleepersSleep
      /\ TrueMeansNotified /\ TimersArmed /\ DeadAreIdle /\ IsInjective(cvWaiters)
      /\ DeadAreUnlinked
  BY DEF CvInv, InvBut
<1>4. PICK r : r = Tail(toWake[c])
  OBVIOUS
<1>5. /\ toWake[c] # <<>> /\ toWake[c] \in Seq(Coroutines)
      /\ w \in Coroutines /\ w \in ToSet(toWake[c])
      /\ r \in Seq(Coroutines) /\ IsInjective(r)
      /\ ToSet(r) = ToSet(toWake[c]) \ {w}
      /\ r = <<>> <=> Len(toWake[c]) = 1
  <2>1. toWake[c] # <<>> /\ toWake[c] \in Seq(Coroutines) /\ IsInjective(toWake[c])
    BY <1>2, <1>3 DEF HandsOff, CvTypeOK
  <2> QED
    BY <1>1, <1>4, <2>1, PopQueue, LastOfList
<1>6. /\ cpc'[c] \in {"idle", "wake", "signal"}
      /\ cpc'[c] \in {"wake", "signal"} <=> toWake'[c] # <<>>
      /\ IsInjective(toWake'[c]) /\ toWake'[c] \in Seq(Coroutines)
      /\ ToWake(c)' = r /\ ToWake(c) = toWake[c]
      /\ \A d \in Coroutines \ {c} :
           cpc'[d] = cpc[d] /\ toWake'[d] = toWake[d] /\ ToWake(d)' = ToWake(d)
  <2>1. /\ \A d \in Coroutines \ {c} : cpc'[d] = cpc[d] /\ toWake'[d] = toWake[d]
        /\ \/ /\ toWake'[c] = r
              /\ cpc'[c] = IF Len(toWake[c]) = 1 THEN "idle" ELSE "wake"
           \/ toWake'[c] = toWake[c] /\ cpc'[c] = "signal"
    BY <1>2, <1>3, <1>4 DEF CvTypeOK
  <2>2. IsInjective(toWake[c])
    BY <1>3 DEF HandsOff
  <2>3. ToWake(c)' = r /\ ToWake(c) = toWake[c]
    BY <1>2, <1>4, <2>1 DEF ToWake
  <2>4. \A d \in Coroutines \ {c} : ToWake(d)' = ToWake(d)
    BY <2>1 DEF ToWake
  <2> QED
    BY <1>5, <2>1, <2>2, <2>3, <2>4
<1>7. /\ w \in CvPopped /\ cpc[w] \in {"unlock", "parked"} /\ w \notin byTimer
      /\ w \notin ToSet(ready[home[w]]) \union ToSet(pending[home[w]])
      /\ w # c /\ w \in live /\ mpc[w] \notin {"susp", "parked"}
      /\ Executing(w) => w \in Unlocking
  <2>1. w \in CvPopped
    BY <1>5, <1>6, PoppedFacts
  <2>2. /\ cpc[w] \in {"unlock", "parked"} /\ w \notin byTimer
        /\ w \notin ToSet(ready[home[w]]) \union ToSet(pending[home[w]])
    BY <1>3, <2>1 DEF SleepersSleep
  <2>3. w \in live
    BY <1>3, <1>5, <2>2 DEF DeadAreIdle
  <2>4. mpc[w] \notin {"susp", "parked"}
    BY <1>3, <1>5, <2>2 DEF CallsMatch
  <2>5. Executing(w) => w \in Unlocking
    BY <1>3, <1>5, <2>1, <2>2 DEF SleepersSleep, Unlocking
  <2> QED
    BY <1>2, <2>1, <2>2, <2>3, <2>4, <2>5
<1>8. byTimer' = byTimer
  BY <1>2, <1>7
<1>9. /\ \A x : x \in CvPopped' <=> x \in CvPopped /\ x # w
  <2>1. \A d \in Coroutines \ {c} : w \notin ToSet(ToWake(d))
    BY <1>3, <1>5, <1>6 DEF HandsOff
  <2> QED
    BY <1>5, <1>6, <2>1, PoppedNext
<1>10. Waiting' = Waiting
  BY <1>2, <1>6, <1>8, PoppedFacts DEF Waiting
<1>11. CvTypeOK'
  <2>1. toWake' \in [Coroutines -> Seq(Coroutines)]
    BY <1>2, <1>3, <1>4, <1>5 DEF CvTypeOK
  <2>2. cpc' \in [Coroutines -> CvPC]
    BY <1>2, <1>3 DEF CvTypeOK, CvPC
  <2> QED
    BY <1>2, <1>3, <1>8, <2>1, <2>2 DEF CvTypeOK
<1>12. InvBut(Unlocking)'
  <2>1. PICK E : E = Unlocking
    OBVIOUS
  <2>2. InvBut(E) /\ Unlocking' = E
    BY <1>2, <1>6, <2>1 DEF CvInv, Unlocking
  <2>3. ~Executing(w) \/ home[w] # home[c]
    BY <1>2, <1>7 DEF Executing
  <2>4. InvBut(E)'
    BY <1>2, <1>7, <2>1, <2>2, <2>3, PushKeepsInvBut
  <2> QED
    BY <2>2, <2>4 DEF InvBut, UnlinkedBut
<1>13. CallsMatch'
  BY <1>2, <1>3, <1>6 DEF CallsMatch
<1>14. HandsOff'
  <2>1. \A d \in Coroutines :
          /\ toWake'[d] # <<>> <=> cpc'[d] \in {"wake", "signal"}
          /\ IsInjective(toWake'[d])
    BY <1>3, <1>6 DEF HandsOff
  <2>2. CvPopped' \intersect ToSet(cvWaiters') = {}
    BY <1>2, <1>3, <1>9 DEF HandsOff
  <2>3. \A d \in Coroutines : ToSet(ToWake(d)') \subseteq ToSet(ToWake(d))
    BY <1>5, <1>6
  <2>4. \A d, e \in Coroutines :
          d # e => ToSet(ToWake(d)') \intersect ToSet(ToWake(e)') = {}
    BY <1>3, <2>3 DEF HandsOff
  <2> QED
    BY <2>1, <2>2, <2>4 DEF HandsOff
<1>15. \A t \in Threads : ToSet(ready'[t]) \union ToSet(pending'[t])
                            \subseteq ToSet(ready[t]) \union ToSet(pending[t]) \union {w}
  <2> SUFFICES ASSUME NEW t \in Threads
               PROVE  /\ ToSet(ready'[t]) \subseteq ToSet(ready[t]) \union {w}
                      /\ ToSet(pending'[t]) \subseteq ToSet(pending[t]) \union {w}
    OBVIOUS
  <2>1. ready[t] \in Seq(Coroutines) /\ pending[t] \in Seq(Coroutines)
    BY <1>3 DEF TypeOK, ThreadTypeOK
  <2>2. /\ ready'[t] = ready[t] \/ ready'[t] = Append(ready[t], w)
        /\ pending'[t] = pending[t] \/ pending'[t] = Append(pending[t], w)
    BY <1>2, <1>3 DEF TypeOK, ThreadTypeOK, Resume, PushPending
  <2>3. /\ ToSet(Append(ready[t], w)) = ToSet(ready[t]) \union {w}
        /\ ToSet(Append(pending[t], w)) = ToSet(pending[t]) \union {w}
    BY <1>5, <2>1, PushQueue
  <2>4. ToSet(ready'[t]) \subseteq ToSet(ready[t]) \union {w}
    BY <2>2, <2>3
  <2>5. ToSet(pending'[t]) \subseteq ToSet(pending[t]) \union {w}
    BY <2>2, <2>3
  <2> QED
    BY <2>4, <2>5
<1>16. SleepersSleep'
  <2>1. ASSUME NEW d \in Waiting' \union CvPopped'
        PROVE  d \in Waiting \union CvPopped /\ d # w /\ d \in Coroutines
    <3>1. w \notin Waiting
      BY <1>3, <1>7 DEF HandsOff, Waiting
    <3> QED
      BY <1>9, <1>10, <3>1, PoppedFacts
  <2>2. ASSUME NEW d \in Waiting' \union CvPopped'
        PROVE  /\ cpc'[d] \in {"unlock", "parked"} /\ d \notin byTimer'
               /\ d \notin ToSet(ready'[home[d]]) \union ToSet(pending'[home[d]])
    <3>1. /\ d \in Coroutines /\ cpc[d] \in {"unlock", "parked"} /\ d # w
          /\ d \notin byTimer /\ home[d] \in Threads
          /\ d \notin ToSet(ready[home[d]]) \union ToSet(pending[home[d]])
      BY <1>3, <2>1, HomeAssumption DEF SleepersSleep
    <3> QED
      BY <1>2, <1>6, <1>8, <1>15, <3>1
  <2>3. ASSUME NEW d \in Coroutines, Executing(d)', cpc'[d] = "parked"
        PROVE  d \notin Waiting' \union CvPopped'
    <3>1. Executing(d) /\ cpc[d] = "parked"
      BY <1>2, <1>6, <2>3 DEF Executing
    <3> QED
      BY <1>3, <2>1, <3>1 DEF SleepersSleep
  <2> QED
    BY <2>2, <2>3 DEF SleepersSleep
<1>17. TrueMeansNotified'
  BY <1>2, <1>3, <1>6, <1>8, PoppedFacts DEF TrueMeansNotified
<1>18. TimersArmed'
  <2>1. \A d \in byTimer \union timers : d \in Coroutines
    BY <1>3 DEF CvTypeOK
  <2> QED
    BY <1>2, <1>3, <1>6, <1>8, <2>1 DEF TimersArmed
<1>19. DeadAreIdle'
  BY <1>2, <1>3, <1>6 DEF DeadAreIdle, DeadAreUnlinked
<1> QED
  BY <1>2, <1>3, <1>11, <1>12, <1>13, <1>14, <1>16, <1>17, <1>18, <1>19 DEF CvInv

\* aeWakeup, the end of resumeAndWake, moves nobody.
LEMMA CvSignalKeeps ==
  ASSUME CvInv, NEW c \in Coroutines, CvSignal(c)
  PROVE  CvInv'
<1> USE DEF CvGoto
<1>1. /\ Executing(c) /\ cpc[c] = "signal"
      /\ toWake' = [toWake EXCEPT ![c] = Tail(toWake[c])]
      /\ cpc' = [cpc EXCEPT ![c] = IF Len(toWake[c]) = 1 THEN "idle" ELSE "wake"]
      /\ wakefd' = [wakefd EXCEPT ![home[Head(toWake[c])]] = TRUE]
      /\ UNCHANGED <<cvWaiters, timed, timers, byTimer>> /\ UNCHANGED mutexVars
      /\ UNCHANGED mpc /\ UNCHANGED <<running, ready, pending, tpc, live>>
  BY DEF CvSignal, WakeThere, AeWakeup, PopToWake, mutexVars
<1>2. /\ CvTypeOK /\ TypeOK /\ CallsMatch /\ HandsOff /\ SleepersSleep
      /\ TrueMeansNotified /\ TimersArmed /\ DeadAreIdle /\ IsInjective(cvWaiters)
      /\ DeadAreUnlinked
  BY DEF CvInv, InvBut
<1>3. PICK r : r = Tail(toWake[c])
  OBVIOUS
<1>4. /\ r \in Seq(Coroutines) /\ IsInjective(r)
      /\ r = <<>> <=> Len(toWake[c]) = 1
  <2>1. toWake[c] # <<>> /\ toWake[c] \in Seq(Coroutines) /\ IsInjective(toWake[c])
    BY <1>1, <1>2 DEF HandsOff, CvTypeOK
  <2> QED
    BY <1>3, <2>1, PopQueue, LastOfList
<1>5. /\ toWake'[c] = r
      /\ cpc'[c] = IF Len(toWake[c]) = 1 THEN "idle" ELSE "wake"
      /\ \A d \in Coroutines \ {c} : cpc'[d] = cpc[d] /\ toWake'[d] = toWake[d]
  BY <1>1, <1>2, <1>3 DEF CvTypeOK
<1>6. \A d \in Coroutines : ToWake(d)' = ToWake(d)
  BY <1>1, <1>3, <1>5 DEF ToWake
<1>7. CvPopped' = CvPopped /\ Waiting' = Waiting
  BY <1>1, <1>5, <1>6, PoppedFacts DEF CvPopped, Waiting
<1>8. CvTypeOK'
  BY <1>1, <1>2, <1>3, <1>4 DEF CvTypeOK, CvPC
<1>9. InvBut(Unlocking)'
  <2>1. \A d \in Coroutines : d \in Unlocking => d \in Unlocking'
    BY <1>1, <1>5 DEF Unlocking
  <2>2. \A d \in Coroutines : Executing(d)' => Executing(d)
    BY <1>1 DEF Executing
  <2>3. /\ tpc' \in [Threads -> {"run", "sched", "poll"}]
        /\ wakefd' \in [Threads -> BOOLEAN]
    BY <1>1, <1>2 DEF TypeOK, ThreadTypeOK
  <2> QED
    BY <1>1, <2>1, <2>2, <2>3, StillKeepsInvBut
<1>10. CallsMatch'
  BY <1>1, <1>2, <1>5 DEF CallsMatch
<1>11. HandsOff'
  <2>1. \A d \in Coroutines :
          /\ toWake'[d] # <<>> <=> cpc'[d] \in {"wake", "signal"}
          /\ IsInjective(toWake'[d])
    BY <1>2, <1>4, <1>5 DEF HandsOff
  <2> QED
    BY <1>1, <1>2, <1>6, <1>7, <2>1 DEF HandsOff
<1>12. SleepersSleep'
  <2>1. ASSUME NEW d \in Waiting \union CvPopped
        PROVE  /\ cpc'[d] \in {"unlock", "parked"} /\ d \notin byTimer'
               /\ d \notin ToSet(ready'[home[d]]) \union ToSet(pending'[home[d]])
    <3>1. d \in Coroutines /\ cpc[d] \in {"unlock", "parked"}
      BY <1>2, PoppedFacts DEF SleepersSleep
    <3> QED
      BY <1>1, <1>2, <1>5, <3>1 DEF SleepersSleep
  <2>2. ASSUME NEW d \in Coroutines, Executing(d)', cpc'[d] = "parked"
        PROVE  d \notin Waiting \union CvPopped
    BY <1>1, <1>2, <1>5, <2>2 DEF SleepersSleep, Executing
  <2> QED
    BY <1>7, <2>1, <2>2 DEF SleepersSleep
<1>13. TrueMeansNotified'
  BY <1>1, <1>2, <1>5, PoppedFacts DEF TrueMeansNotified
<1>14. TimersArmed'
  <2>1. \A d \in byTimer \union timers : d \in Coroutines
    BY <1>2 DEF CvTypeOK
  <2> QED
    BY <1>1, <1>2, <1>5, <2>1 DEF TimersArmed
<1>15. DeadAreIdle'
  BY <1>1, <1>2, <1>5 DEF DeadAreIdle, DeadAreUnlinked
<1> QED
  BY <1>1, <1>2, <1>8, <1>9, <1>10, <1>11, <1>12, <1>13, <1>14, <1>15 DEF CvInv

\* A timer that expires for a coroutine still in _waiters resumes one that is in
\* no scheduler's list.
LEMMA TimerKeeps ==
  ASSUME CvInv, NEW t \in Threads, NEW c \in Coroutines, TimerFires(t, c),
         SoleExpiry
  PROVE  CvInv'
<1>1. /\ c \in timers /\ home[c] = t /\ tpc[t] \in {"poll", "sched"}
      /\ timers' = timers \ {c} /\ byTimer' = byTimer \union {c}
      /\ Resume(c) /\ tpc' = [tpc EXCEPT ![t] = "sched"]
      /\ UNCHANGED <<cvWaiters, cpc, toWake, timed>> /\ UNCHANGED mutexVars
      /\ UNCHANGED mpc /\ UNCHANGED <<running, pending, wakefd, live>>
  BY DEF TimerFires, mutexVars
<1>2. /\ CvTypeOK /\ TypeOK /\ CallsMatch /\ HandsOff /\ SleepersSleep
      /\ TrueMeansNotified /\ TimersArmed /\ DeadAreIdle /\ IsInjective(cvWaiters)
  BY DEF CvInv, InvBut
<1>3. cpc[c] = "parked" /\ c \notin byTimer /\ c \in ToSet(cvWaiters)
  <2>1. cpc[c] = "parked" /\ c \notin byTimer
    BY <1>1, <1>2 DEF TimersArmed
  <2>2. cvWaiters = <<c>>
    BY <1>1, <2>1 DEF SoleExpiry
  <2> QED
    BY <2>1, <2>2 DEF ToSet
<1>4. /\ c \in Waiting /\ c \notin CvPopped
      /\ c \notin ToSet(ready[home[c]]) \union ToSet(pending[home[c]])
  BY <1>2, <1>3 DEF Waiting, SleepersSleep, HandsOff
<1>5. c \in live /\ mpc[c] = "out" /\ ~Executing(c)
  BY <1>1, <1>2, <1>3 DEF DeadAreIdle, CallsMatch, Executing
<1>6. /\ \A d \in Coroutines : ToWake(d)' = ToWake(d)
      /\ CvPopped' = CvPopped /\ Waiting' = Waiting \ {c}
  BY <1>1 DEF ToWake, CvPopped, Waiting
<1>7. CvTypeOK'
  BY <1>1, <1>2 DEF CvTypeOK
<1>8. InvBut(Unlocking)'
  <2>1. ASSUME NEW E, InvBut(E), E = Unlocking PROVE InvBut(E)'
    BY <1>1, <1>4, <1>5, <2>1, PushKeepsInvBut
  <2> QED
    BY <1>1, <2>1, UnlockingFrozen
<1>9. CallsMatch' /\ TrueMeansNotified' /\ DeadAreIdle'
  BY <1>1, <1>2 DEF CallsMatch, TrueMeansNotified, DeadAreIdle
<1>10. HandsOff'
  BY <1>1, <1>2, <1>6 DEF HandsOff
<1>11. TimersArmed'
  BY <1>1, <1>2, <1>3 DEF TimersArmed
<1>12. SleepersSleep'
  <2>1. \A u \in Threads : ToSet(ready'[u]) \subseteq ToSet(ready[u]) \union {c}
    <3> SUFFICES ASSUME NEW u \in Threads
                 PROVE  ToSet(ready'[u]) \subseteq ToSet(ready[u]) \union {c}
      OBVIOUS
    <3>1. ready[u] \in Seq(Coroutines)
      BY <1>2 DEF TypeOK, ThreadTypeOK
    <3>2. ready'[u] = ready[u] \/ ready'[u] = Append(ready[u], c)
      BY <1>1, <1>2 DEF TypeOK, ThreadTypeOK, Resume
    <3> QED
      BY <3>1, <3>2, PushQueue
  <2>2. ASSUME NEW d \in Waiting' \union CvPopped'
        PROVE  /\ cpc'[d] \in {"unlock", "parked"} /\ d \notin byTimer'
               /\ d \notin ToSet(ready'[home[d]]) \union ToSet(pending'[home[d]])
    <3>1. d \in Coroutines /\ d # c /\ d \in Waiting \union CvPopped
      BY <1>4, <1>6, PoppedFacts
    <3>2. /\ cpc[d] \in {"unlock", "parked"} /\ d \notin byTimer
          /\ d \notin ToSet(ready[home[d]]) \union ToSet(pending[home[d]])
      BY <1>2, <3>1 DEF SleepersSleep
    <3> QED
      BY <1>1, <2>1, <3>1, <3>2, HomeAssumption
  <2>3. ASSUME NEW d \in Coroutines, Executing(d)', cpc'[d] = "parked"
        PROVE  d \notin Waiting' \union CvPopped'
    <3>1. Executing(d) /\ cpc[d] = "parked"
      BY <1>1, <1>2, <2>3, HomeAssumption DEF Executing, TypeOK, ThreadTypeOK
    <3> QED
      BY <1>2, <1>6, <3>1 DEF SleepersSleep
  <2> QED
    BY <2>2, <2>3 DEF SleepersSleep
<1> QED
  BY <1>1, <1>2, <1>7, <1>8, <1>9, <1>10, <1>11, <1>12 DEF CvInv

-----------------------------------------------------------------------------
\* CvInv is inductive as long as a timer expires for a sole waiter only, and
\* _waiters with the stale entry that leaves is not used again.
LEMMA QuietStepKeeps ==
  ASSUME CvInv, CvNext, SoleExpiry, UnusedAfterTimeout
  PROVE  CvInv'
<1>1. ASSUME NEW c \in Coroutines, CvStep(c) PROVE CvInv'
  <2>1. ASSUME NEW b \in Timed, Wait(c, b) PROVE CvInv'
    BY <2>1, WaitKeeps, TimedAssumption
  <2>2. CASE CvSuspend(c) \/ CvResumed(c) \/ CvReturns(c)
    BY <2>2, WaiterMovesKeep
  <2>3. CASE Notify(c) \/ NotifyAll(c)
    BY <2>3, NotifyKeeps
  <2>4. CASE WakeHere(c) \/ CvPushThere(c)
    BY <2>4, WakeKeeps
  <2>5. CASE CvSignal(c)
    BY <2>5, CvSignalKeeps
  <2> QED
    BY <1>1, <2>1, <2>2, <2>3, <2>4, <2>5 DEF CvStep
<1>2. ASSUME NEW c \in Coroutines, CvMutexStep(c) \/ CvUserStep(c) PROVE CvInv'
  BY <1>2, CvMutexStepKeeps, CvUserStepKeeps
<1>3. ASSUME NEW t \in Threads, CvThreadStep(t) PROVE CvInv'
  BY <1>3, CvThreadStepKeeps
<1>4. ASSUME NEW t \in Threads, CvTimerStep(t) PROVE CvInv'
  BY <1>4, TimerKeeps DEF CvTimerStep
<1> QED
  BY <1>1, <1>2, <1>3, <1>4 DEF CvNext

\* A step of another part of the program changes nothing here.
LEMMA CvStutterKeeps == CvInv /\ UNCHANGED allVars => CvInv'
<1> SUFFICES ASSUME CvInv, UNCHANGED allVars PROVE CvInv'
  OBVIOUS
<1>1. UNCHANGED cvVars /\ UNCHANGED mutexVars /\ UNCHANGED <<mpc, cpc>>
      /\ UNCHANGED <<running, ready, pending, tpc, wakefd, live>>
  BY DEF allVars, cvVars, mutexVars
<1>2. Unlocking' = Unlocking /\ \A d \in Coroutines : Executing(d)' <=> Executing(d)
  BY <1>1 DEF Unlocking, Executing
<1>3. InvBut(Unlocking)'
  <2>1. TypeOK
    BY DEF CvInv, InvBut
  <2>2. /\ tpc' \in [Threads -> {"run", "sched", "poll"}]
        /\ wakefd' \in [Threads -> BOOLEAN]
    BY <1>1, <2>1 DEF TypeOK, ThreadTypeOK
  <2> QED
    BY <1>1, <1>2, <2>2, StillKeepsInvBut
<1>4. CallsMatch' /\ DeadAreIdle'
  BY <1>1 DEF CvInv, CallsMatch, DeadAreIdle
<1> QED
  BY <1>1, <1>2, <1>3, <1>4, OutsideKeepsCvInv

\* The inductive invariant holds if timers expire for a sole waiter only and
\* the condition variable is given up after a timeout (QuietSpec).
THEOREM CvInvHolds == QuietSpec => []CvInv
<1>1. CvInv /\ [CvNext /\ SoleExpiry /\ UnusedAfterTimeout]_allVars => CvInv'
  BY QuietStepKeeps, CvStutterKeeps
<1> QED
  BY <1>1, CvInitEstablishesInv, PTL DEF QuietSpec

\* The mutex still excludes when wait, waitTimeout, notify and notifyAll call its
\* lock and unlock, under the two conditions of QuietSpec; a notify after a
\* timeout breaks it (CondVarTimeout.cfg).
THEOREM CvExcludes == QuietSpec => []MutualExclusion
<1>1. CvInv => MutualExclusion
  BY DEF CvInv, InvBut
<1> QED
  BY <1>1, CvInvHolds, PTL

\* What CvInv says of the lists of the condition variable.
LEMMA CvInvLists == CvInv => CvSingleQueueMembership
<1> SUFFICES ASSUME CvInv PROVE CvSingleQueueMembership
  OBVIOUS
<1>1. SingleQueueMembership /\ WaitersWait /\ CallsMatch /\ SleepersSleep /\ HandsOff
      /\ IsInjective(cvWaiters)
  BY DEF CvInv, InvBut
<1>2. Waiting \intersect CvPopped = {}
  BY <1>1 DEF HandsOff, Waiting
<1>3. ASSUME NEW c \in Waiting \union CvPopped
      PROVE  c \notin ToSet(waiters) \union Popped
  <2>1. c \in Coroutines /\ cpc[c] \in {"unlock", "parked"}
    BY <1>1, PoppedFacts DEF SleepersSleep
  <2> QED
    BY <1>1, <2>1 DEF CallsMatch, WaitersWait
<1> QED
  BY <1>1, <1>2, <1>3 DEF CvSingleQueueMembership, HandsOff, SleepersSleep

\* A coroutine handed from the condition's list to a scheduler's, or from the
\* mutex's, is never in two lists, under the two conditions of QuietSpec; a
\* timer that expires while another waiter is linked breaks it.
THEOREM CvLinkIsExclusive == QuietSpec => []CvSingleQueueMembership
  BY CvInvLists, CvInvHolds, PTL

\* wait returns only when notified, and waitTimeout answers true only then,
\* under the two conditions of QuietSpec.
THEOREM CvReturnsNotified == QuietSpec => []TrueMeansNotified
<1>1. CvInv => TrueMeansNotified
  BY DEF CvInv
<1> QED
  BY <1>1, CvInvHolds, PTL

-----------------------------------------------------------------------------
\* notify calls aeWakeup after the push on pending: no step of the condition
\* variable leaves a thread asleep with work and no signal on its way.
LEMMA CvStepKeepsSignal ==
  ASSUME CvInv, CvSleeperIsSignalled, CvNext
  PROVE  CvSleeperIsSignalled'
<1> DEFINE Notified(t) ==
             \E c \in Coroutines : cpc[c] = "signal" /\ home[Head(toWake[c])] = t
<1> SUFFICES ASSUME NEW t \in Threads, Asleep(t)'
             PROVE  Signalled(t)' \/ Notified(t)'
  BY DEF CvSleeperIsSignalled, Asleep, Signalled
<1>1. Asleep(t) => Signalled(t) \/ Notified(t)
  BY DEF CvSleeperIsSignalled, Asleep, Signalled
<1>2. TypeOK /\ CvTypeOK
  BY DEF CvInv, InvBut
<1>3. ASSUME Next, UNCHANGED cvVars PROVE Signalled(t)' \/ Notified(t)'
  <2>1. Notified(t) => Notified(t)'
    BY <1>3 DEF cvVars
  <2> QED
    BY <1>1, <1>2, <1>3, <2>1, StepKeepsSignal
<1>4. ASSUME NEW c \in Coroutines, UNCHANGED <<pending, wakefd>>,
             UNCHANGED mutexVars, tpc' = tpc \/ Suspend(home[c]),
             cpc[c] # "signal",
             \A d \in Coroutines \ {c} : cpc'[d] = cpc[d] /\ toWake'[d] = toWake[d]
      PROVE  Signalled(t)' \/ Notified(t)'
  <2>1. Asleep(t)
    BY <1>2, <1>4 DEF Asleep, Suspend, TypeOK, ThreadTypeOK
  <2>2. Signalled(t) => Signalled(t)'
    BY <1>4 DEF Signalled, mutexVars
  <2>3. Notified(t) => Notified(t)'
    BY <1>4
  <2> QED
    BY <1>1, <2>1, <2>2, <2>3
<1> USE DEF CvGoto
<1>5. ASSUME NEW c \in Coroutines, CvStep(c) PROVE Signalled(t)' \/ Notified(t)'
  <2>1. ASSUME NEW b \in Timed, Wait(c, b) PROVE Signalled(t)' \/ Notified(t)'
    BY <1>2, <1>4, <2>1 DEF Wait, threadVars, CvTypeOK
  <2>2. CASE CvSuspend(c) \/ CvResumed(c) \/ CvReturns(c)
    BY <1>2, <1>4, <2>2 DEF CvSuspend, CvResumed, CvReturns, threadVars, CvTypeOK
  <2>3. CASE Notify(c) \/ NotifyAll(c)
    BY <1>2, <1>4, <2>3 DEF Notify, NotifyAll, MayNotify, threadVars, CvTypeOK
  <2>4. CASE WakeHere(c)
    BY <1>2, <1>4, <2>4 DEF WakeHere, ResumeHere, PopToWake, CvTypeOK
  <2>5. CASE CvPushThere(c)
    <3>1. PICK w : w = Head(toWake[c])
      OBVIOUS
    <3>2. /\ cpc[c] = "wake" /\ PushPending(w)
          /\ UNCHANGED <<tpc, wakefd, toWake>> /\ UNCHANGED mutexVars
          /\ cpc'[c] = "signal" /\ \A d \in Coroutines \ {c} : cpc'[d] = cpc[d]
      BY <1>2, <2>5, <3>1 DEF CvPushThere, ResumeThere, CvTypeOK
    <3>3. CASE home[w] = t
      BY <3>1, <3>2, <3>3
    <3>4. CASE home[w] # t
      <4>1. Asleep(t)
        BY <1>2, <3>2, <3>4 DEF Asleep, PushPending, TypeOK, ThreadTypeOK
      <4>2. Signalled(t) => Signalled(t)'
        BY <3>2 DEF Signalled, mutexVars
      <4>3. Notified(t) => Notified(t)'
        BY <3>2
      <4> QED
        BY <1>1, <4>1, <4>2, <4>3
    <3> QED
      BY <3>3, <3>4
  <2>6. CASE CvSignal(c)
    <3>1. PICK w : w = Head(toWake[c])
      OBVIOUS
    <3>2. /\ UNCHANGED <<tpc, pending>> /\ UNCHANGED mutexVars
          /\ wakefd' = [wakefd EXCEPT ![home[w]] = TRUE]
          /\ \A d \in Coroutines \ {c} : cpc'[d] = cpc[d] /\ toWake'[d] = toWake[d]
      BY <1>2, <2>6, <3>1 DEF CvSignal, WakeThere, AeWakeup, PopToWake, CvTypeOK
    <3>3. CASE home[w] = t
      BY <1>2, <3>2, <3>3 DEF Signalled, TypeOK, ThreadTypeOK
    <3>4. CASE home[w] # t
      <4>1. Asleep(t) /\ wakefd'[t] = wakefd[t]
        BY <1>2, <3>2, <3>4 DEF Asleep, TypeOK, ThreadTypeOK
      <4>2. Signalled(t) => Signalled(t)'
        BY <3>2, <4>1 DEF Signalled, mutexVars
      <4>3. Notified(t) => Notified(t)'
        <5> SUFFICES ASSUME Notified(t) PROVE Notified(t)'
          OBVIOUS
        <5>1. PICK d \in Coroutines : cpc[d] = "signal" /\ home[Head(toWake[d])] = t
          OBVIOUS
        <5>2. d # c
          BY <3>1, <3>4, <5>1
        <5> QED
          BY <3>2, <5>1, <5>2
      <4> QED
        BY <1>1, <4>1, <4>2, <4>3
    <3> QED
      BY <3>3, <3>4
  <2> QED
    BY <1>5, <2>1, <2>2, <2>3, <2>4, <2>5, <2>6 DEF CvStep
<1>6. ASSUME NEW u \in Threads, NEW c \in Coroutines, TimerFires(u, c)
      PROVE  Signalled(t)' \/ Notified(t)'
  <2>1. /\ UNCHANGED <<pending, wakefd, cpc, toWake>> /\ UNCHANGED mutexVars
        /\ tpc' = [tpc EXCEPT ![u] = "sched"]
    BY <1>6 DEF TimerFires
  <2>2. Asleep(t)
    BY <1>2, <2>1 DEF Asleep, TypeOK, ThreadTypeOK
  <2>3. Signalled(t) => Signalled(t)'
    BY <2>1 DEF Signalled, mutexVars
  <2>4. Notified(t) => Notified(t)'
    BY <2>1
  <2> QED
    BY <1>1, <2>2, <2>3, <2>4
<1>7. ASSUME NEW c \in Coroutines, CvMutexStep(c) \/ CvUserStep(c)
      PROVE  Next /\ UNCHANGED cvVars
  BY <1>7 DEF CvMutexStep, CvUserStep, Next
<1>8. ASSUME NEW u \in Threads, CvThreadStep(u) PROVE Next /\ UNCHANGED cvVars
  BY <1>8 DEF CvThreadStep, Next
<1> HIDE DEF Notified
<1> QED
  BY <1>3, <1>5, <1>6, <1>7, <1>8 DEF CvNext, CvTimerStep

\* No thread sleeps on work that unlock, notify or notifyAll handed it, under
\* the two conditions of QuietSpec.
THEOREM CvNoSleepOnWork == QuietSpec => []CvSleeperIsSignalled
<1>1. CvInit => CvSleeperIsSignalled
  BY DEF CvInit, Init, ThreadInit, CvSleeperIsSignalled
<1>2. CvInv /\ CvSleeperIsSignalled
        /\ [CvNext /\ SoleExpiry /\ UnusedAfterTimeout]_allVars
        => CvSleeperIsSignalled'
  <2>1. CvSleeperIsSignalled /\ UNCHANGED allVars => CvSleeperIsSignalled'
    BY DEF allVars, CvSleeperIsSignalled
  <2> QED
    BY <2>1, CvStepKeepsSignal
<1> QED
  BY <1>1, <1>2, CvInvHolds, PTL DEF QuietSpec

-----------------------------------------------------------------------------
(* A program that never calls waitTimeout needs none of QuietSpec's        *)
(* restrictions: no timer is ever armed, so no entry of _waiters is stale. *)

NoTimer == timers = {} /\ byTimer = {} /\ \A c \in Coroutines : ~timed[c]

\* Without timers every step is a quiet one.
LEMMA UntimedStepIsQuiet ==
  ASSUME TRUE \notin Timed, CvInv, NoTimer, CvNext
  PROVE  NoTimer' /\ SoleExpiry /\ UnusedAfterTimeout
<1> SUFFICES NoTimer'
  BY DEF NoTimer, SoleExpiry, UnusedAfterTimeout
<1>1. CvTypeOK
  BY DEF CvInv
<1>2. ASSUME NEW c \in Coroutines, CvStep(c) PROVE NoTimer'
  <2>1. ASSUME NEW b \in Timed, Wait(c, b) PROVE NoTimer'
    <3>1. b = FALSE
      BY <2>1, TimedAssumption
    <3> QED
      BY <1>1, <2>1, <3>1 DEF Wait, NoTimer, CvTypeOK
  <2>2. CASE CvSuspend(c) \/ CvResumed(c)
    BY <2>2 DEF CvSuspend, CvResumed, NoTimer
  <2>3. CASE CvReturns(c)
    BY <1>1, <2>3 DEF CvReturns, NoTimer, CvTypeOK
  <2>4. CASE Notify(c) \/ NotifyAll(c)
    BY <2>4 DEF Notify, NotifyAll, NoTimer
  <2>5. CASE WakeHere(c) \/ CvPushThere(c) \/ CvSignal(c)
    BY <2>5 DEF WakeHere, CvPushThere, CvSignal, NoTimer
  <2> QED
    BY <1>2, <2>1, <2>2, <2>3, <2>4, <2>5 DEF CvStep
<1>3. ASSUME UNCHANGED cvVars PROVE NoTimer'
  BY <1>3 DEF cvVars, NoTimer
<1>4. ASSUME NEW t \in Threads, CvTimerStep(t) PROVE FALSE
  BY <1>4 DEF CvTimerStep, TimerFires, NoTimer
<1> QED
  BY <1>2, <1>3, <1>4 DEF CvNext, CvMutexStep, CvUserStep, CvThreadStep

\* What the four theorems above say, for every behaviour of a program that calls
\* wait, notify and notifyAll but not waitTimeout.
THEOREM UntimedWaitIsCorrect ==
  ASSUME TRUE \notin Timed
  PROVE  CvSpec => [](/\ MutualExclusion /\ CvSingleQueueMembership
                      /\ TrueMeansNotified /\ CvSleeperIsSignalled)
<1> DEFINE Inv == CvInv /\ NoTimer /\ CvSleeperIsSignalled
<1>1. CvInit => Inv
  <2>1. CvInit => NoTimer
    BY DEF CvInit, NoTimer
  <2>2. CvInit => CvSleeperIsSignalled
    BY DEF CvInit, Init, ThreadInit, CvSleeperIsSignalled
  <2> QED
    BY <2>1, <2>2, CvInitEstablishesInv
<1>2. Inv /\ [CvNext]_allVars => Inv'
  <2> SUFFICES ASSUME Inv, [CvNext]_allVars PROVE Inv'
    OBVIOUS
  <2>1. CASE CvNext
    <3>1. NoTimer' /\ SoleExpiry /\ UnusedAfterTimeout
      BY <2>1, UntimedStepIsQuiet
    <3>2. CvInv'
      BY <2>1, <3>1, QuietStepKeeps
    <3>3. CvSleeperIsSignalled'
      BY <2>1, CvStepKeepsSignal
    <3> QED
      BY <3>1, <3>2, <3>3
  <2>2. CASE UNCHANGED allVars
    <3>1. NoTimer' /\ CvSleeperIsSignalled'
      BY <2>2 DEF allVars, NoTimer, CvSleeperIsSignalled
    <3> QED
      BY <2>2, <3>1, CvStutterKeeps
  <2> QED
    BY <2>1, <2>2
<1>3. Inv => /\ MutualExclusion /\ CvSingleQueueMembership
             /\ TrueMeansNotified /\ CvSleeperIsSignalled
  BY CvInvLists DEF CvInv, InvBut
<1> QED
  BY <1>1, <1>2, <1>3, PTL DEF CvSpec
=============================================================================
