----------------------------- MODULE UtilsLock -----------------------------
(***************************************************************************)
(* `cxy utils lock <name> "<cmd>" --timeout <ms>' (utils/commands/lock.c): *)
(* processes that run a command under one named flock.  The flock belongs  *)
(* to the open file description, which parent and child share from fork    *)
(* until the child closes it; the kernel drops it with the last descriptor.*)
(*                                                                         *)
(* pc[p]:                                                                  *)
(*   "idle"    not running, or between two invocations                     *)
(*   "try"     about to call flock(LOCK_EX | LOCK_NB)                      *)
(*   "sleep"   in the 100 ms poll interval                                 *)
(*   "report"  gave up, about to read the holder's pid from the file       *)
(*   "own"     has the lock, its pid not in the file yet                   *)
(*   "blank"   has truncated the file                                      *)
(*   "fork"    pid written, about to fork                                  *)
(*   "wait"    in waitpid                                                  *)
(* child[p], the process that becomes the command:                         *)
(*   "none", "forked" (still has the descriptor), "runs" (exec done)       *)
(***************************************************************************)
EXTENDS Naturals, FiniteSets

CONSTANTS Procs,     \* pids
          Timeouts,  \* values of --timeout, in poll intervals
          NoProc

ASSUME LockAssumption == Timeouts \subseteq Nat /\ NoProc \notin Procs

VARIABLES pc,
          left,      \* left[p]: poll intervals until p's deadline
          timeout,   \* timeout[p]: timeoutMs
          child,
          flock,     \* the process whose open file description has the lock
          content,   \* the pid in the lock file
          orphan     \* commands whose parent was killed

lockVars == <<pc, left, timeout, child, flock, content, orphan>>

LockTypeOK ==
  /\ pc \in [Procs -> {"idle", "try", "sleep", "report", "own", "blank",
                       "fork", "wait"}]
  /\ left \in [Procs -> Nat]
  /\ timeout \in [Procs -> Timeouts \union {0}]
  /\ child \in [Procs -> {"none", "forked", "runs"}]
  /\ {flock, content} \subseteq Procs \union {NoProc}
  /\ orphan \subseteq Procs

LockInit ==
  /\ pc = [p \in Procs |-> "idle"]
  /\ left = [p \in Procs |-> 0]
  /\ timeout = [p \in Procs |-> 0]
  /\ child = [p \in Procs |-> "none"]
  /\ flock = NoProc /\ content = NoProc
  /\ orphan = {}

Goto(p, label) == pc' = [pc EXCEPT ![p] = label]

\* utilsLockCommand opens the file; the deadline is timeout from now.
Start(p, t) ==
  /\ pc[p] = "idle" /\ child[p] = "none"
  /\ Goto(p, "try")
  /\ left' = [left EXCEPT ![p] = t]
  /\ timeout' = [timeout EXCEPT ![p] = t]
  /\ UNCHANGED <<child, flock, content, orphan>>

\* flock succeeds.
Acquire(p) ==
  /\ pc[p] = "try"
  /\ flock = NoProc
  /\ flock' = p
  /\ Goto(p, "own")
  /\ UNCHANGED <<left, timeout, child, content, orphan>>

\* EWOULDBLOCK: give up at once without a timeout or at the deadline, else
\* sleep.
MTryFails(p) ==
  /\ pc[p] = "try"
  /\ flock # NoProc
  /\ Goto(p, IF timeout[p] = 0 \/ left[p] = 0 THEN "report" ELSE "sleep")
  /\ content' = p
  /\ UNCHANGED <<left, timeout, child, flock, orphan>>
TryFails(p) ==
  /\ pc[p] = "try"
  /\ flock # NoProc
  /\ Goto(p, IF timeout[p] = 0 \/ left[p] = 0 THEN "report" ELSE "sleep")
  /\ UNCHANGED <<left, timeout, child, flock, content, orphan>>

\* usleep returns, one poll interval or more later.
Poll(p) ==
  /\ pc[p] = "sleep"
  /\ \E l \in 0..(left[p] - 1) : left' = [left EXCEPT ![p] = l]
  /\ Goto(p, "try")
  /\ UNCHANGED <<timeout, child, flock, content, orphan>>

\* pread for the error message ("held by PID"), and the descriptor is closed.
Report(p) ==
  /\ pc[p] = "report"
  /\ Goto(p, "idle")
  /\ UNCHANGED <<left, timeout, child, flock, content, orphan>>

\* ftruncate, then the write of the own pid.
Truncate(p) ==
  /\ pc[p] = "own"
  /\ content' = NoProc
  /\ Goto(p, "blank")
  /\ UNCHANGED <<left, timeout, child, flock, orphan>>
WritePid(p) ==
  /\ pc[p] = "blank"
  /\ content' = p
  /\ Goto(p, "fork")
  /\ UNCHANGED <<left, timeout, child, flock, orphan>>

Fork(p) ==
  /\ pc[p] = "fork"
  /\ child' = [child EXCEPT ![p] = "forked"]
  /\ Goto(p, "wait")
  /\ UNCHANGED <<left, timeout, flock, content, orphan>>

\* fork fails: the lock is released.
ForkFails(p) ==
  /\ pc[p] = "fork"
  /\ flock' = NoProc
  /\ Goto(p, "idle")
  /\ UNCHANGED <<left, timeout, child, content, orphan>>

\* The child closes its descriptor, the last one if the parent was killed, and
\* executes the command.
MChildExecs(p) ==
  /\ child[p] = "forked"
  /\ child' = [child EXCEPT ![p] = "runs"]
  /\ UNCHANGED <<pc, left, timeout, flock, content, orphan>>
ChildExecs(p) ==
  /\ child[p] = "forked"
  /\ child' = [child EXCEPT ![p] = "runs"]
  /\ flock' = IF p \in orphan THEN NoProc ELSE flock
  /\ UNCHANGED <<pc, left, timeout, content, orphan>>

\* The command ends.
ChildExits(p) ==
  /\ child[p] = "runs"
  /\ child' = [child EXCEPT ![p] = "none"]
  /\ orphan' = orphan \ {p}
  /\ UNCHANGED <<pc, left, timeout, flock, content>>

\* waitpid returns and the descriptor is closed.
MRelease(p) ==
  /\ pc[p] = "wait"
  /\ flock' = NoProc
  /\ Goto(p, "idle")
  /\ UNCHANGED <<left, timeout, child, content, orphan>>
Release(p) ==
  /\ pc[p] = "wait"
  /\ child[p] = "none"
  /\ flock' = NoProc
  /\ Goto(p, "idle")
  /\ UNCHANGED <<left, timeout, child, content, orphan>>

\* The process is killed: its descriptor is closed, its child lives on.
Killed(p) ==
  /\ pc[p] # "idle"
  /\ Goto(p, "idle")
  /\ flock' = IF flock = p /\ child[p] # "forked" THEN NoProc ELSE flock
  /\ orphan' = IF child[p] = "none" THEN orphan ELSE orphan \union {p}
  /\ UNCHANGED <<left, timeout, child, content>>

Step(p) ==
  \/ Acquire(p) \/ TryFails(p) \/ Poll(p) \/ Report(p)
  \/ Truncate(p) \/ WritePid(p) \/ Fork(p) \/ ForkFails(p)
  \/ ChildExecs(p) \/ ChildExits(p) \/ Release(p)

LockNext == \E p \in Procs : Step(p) \/ Killed(p) \/ \E t \in Timeouts : Start(p, t)

LockSpec == LockInit /\ [][LockNext]_lockVars

\* Processes keep running, and the commands end.
LockFairSpec == LockSpec /\ \A p \in Procs : WF_lockVars(Step(p))

-----------------------------------------------------------------------------
(* Properties                                                              *)

\* Two commands run at the same time only if the `cxy utils lock' of one of
\* them was killed under it (the flock does not pass to the child).
CommandsExclusive ==
  \A p, q \in Procs :
    child[p] # "none" /\ child[q] # "none" /\ p # q =>
      orphan \intersect {p, q} # {}

\* "held by PID": while a command runs, the file names the process that runs
\* it, so an attempt that fails meanwhile blames the right one.
HolderIsNamed ==
  \A p \in Procs : child[p] # "none" /\ p \notin orphan => content = p

\* "Crash-safe": wherever its holder is killed, the lock is released.
LockIsFreed == \A p \in Procs : flock = p ~> flock # p

\* The inductive strengthening of CommandsExclusive: an owner has the flock, and
\* a child that is no orphan has a parent in waitpid.
Owning(p) == pc[p] \in {"own", "blank", "fork", "wait"}
LockInv ==
  /\ LockTypeOK
  /\ \A p \in Procs : Owning(p) \/ child[p] = "forked" => flock = p
  /\ \A p \in Procs : child[p] # "none" => pc[p] = "wait" \/ p \in orphan
  /\ \A p \in orphan : child[p] # "none" /\ pc[p] = "idle"
  /\ \A p \in Procs :
       flock = p => Owning(p) \/ (child[p] = "forked" /\ p \in orphan)
  /\ \A p \in Procs : pc[p] \in {"fork", "wait"} => content = p
  /\ CommandsExclusive
=============================================================================
