---------------------------- MODULE AsyncTracker ----------------------------
(***************************************************************************)
(* Background processes of `cxy package run': the tracker file             *)
(* .async-cmds.<pid> of a session (utils/async_tracker.c), the commands    *)
(* async-cmd-start and async-cmd-stop that its scripts run as processes of *)
(* their own (utils/commands/async_cmd.c), the session's cleanup at its    *)
(* end or on SIGINT and SIGTERM (package/commands/run.c), and the sweep of *)
(* trackers whose session died.  Only asyncTrackerAdd takes the file lock, *)
(* so a step is one access to a file or one kill.                          *)
(*                                                                         *)
(* spc[s], the session with pid s:                                         *)
(*   "new"      not started yet                                            *)
(*   "dead"     no such process any more                                   *)
(*   "scan"     in asyncTrackerCleanupStale, before the next directory     *)
(*              entry; the signal handlers are not installed yet           *)
(*   "sweep"    killing what the stale tracker swept[s] listed             *)
(*   "script"   its script runs                                            *)
(*   "cleanup"  in asyncTrackerCleanup, tracker not read yet               *)
(*   "kill"     killing what its own tracker listed                        *)
(* cpc[c], a thread of the script of session parent[c]:                    *)
(*   "off"     the script is not running                                   *)
(*   "script"  between two commands                                        *)
(*   "add"     async-cmd-start forked pid[c], tracker not opened yet       *)
(*   "append"  tracker opened, line not written yet                        *)
(*   "remove"  async-cmd-stop killed pid[c], tracker not read yet          *)
(*   "trunc"   tracker read into list[c], fopen "w" comes next             *)
(*   "flush"   tracker truncated, fclose comes next                        *)
(*                                                                         *)
(* A file is its header and its lines, one per pid, all of one length and  *)
(* the header too (it has ten bytes, a line with a pid of seven digits as  *)
(* many; with other pids an overlapping write leaves part of a line).      *)
(* The log files of captured output are left out.  The kernel does not     *)
(* reuse a pid that a tracker or a reader of one still names, nor that of  *)
(* a session.                                                              *)
(***************************************************************************)
EXTENDS Naturals, Sequences, SequencesExt, FiniteSets, FiniteSetsExt, Lists

CONSTANTS Sessions,     \* pids of `cxy package run'
          Jobs,         \* pids of background processes
          Threads,      \* script threads
          parent,       \* parent[c]: the session in c's CXY_ASYNC_TRACKER
          MaxProcesses, \* MAX_ASYNC_PROCESSES
          NoFile, None

Files == [header : BOOLEAN, lines : Seq(Jobs)]

ASSUME TrackerAssumption ==
  /\ MaxProcesses \in Nat \ {0}
  /\ parent \in [Threads -> Sessions]
  /\ None \notin Sessions \union Jobs
  /\ NoFile \notin Files

VARIABLES spc,      \* spc[s]: where the session is
          todo,     \* todo[s]: pids the session's cleanup or sweep still kills
          swept,    \* swept[s]: the stale tracker it is sweeping
          seen,     \* seen[s]: the trackers readdir has returned
          file,     \* file[s]: .async-cmds.<s>
          alive,    \* the background processes that run
          cpc,      \* cpc[c]: where the script thread is
          pid,      \* pid[c]: the pid it started, or read to stop it
          list,     \* list[c]: what its async-cmd-stop read
          linked,   \* linked[c]: the file c has open still has its name
          due,      \* history: due[s]: what s found recorded by dead sessions
          strays    \* history: jobs that a race or a crash put out of reach

sessionVars == <<spc, todo, swept, seen, due>>
threadVars == <<cpc, pid, list>>
vars == <<spc, todo, swept, seen, file, alive, cpc, pid, list, linked,
          due, strays>>

FileWith(lines) == [header |-> TRUE, lines |-> lines]
EmptyFile == [header |-> FALSE, lines |-> <<>>]

Init ==
  /\ spc = [s \in Sessions |-> "new"]
  /\ todo = [s \in Sessions |-> <<>>]
  /\ swept = [s \in Sessions |-> None]
  /\ seen = [s \in Sessions |-> {}]
  /\ file = [s \in Sessions |-> NoFile]
  /\ cpc = [c \in Threads |-> "off"]
  /\ pid = [c \in Threads |-> None]
  /\ list = [c \in Threads |-> <<>>]
  /\ linked = [c \in Threads |-> FALSE]
  /\ due = [s \in Sessions |-> {}]
  /\ alive = {} /\ strays = {}

-----------------------------------------------------------------------------
(* The tracker file                                                        *)

Exists(s) == file[s] # NoFile
Live(s) == spc[s] \notin {"new", "dead"}

\* asyncTrackerReadAll: fails without a header, reads at most MaxProcesses.
Readable(s) == Exists(s) /\ file[s].header
ReadAll(s) == SubSeq(file[s].lines, 1, Min({MaxProcesses, Len(file[s].lines)}))

\* asyncTrackerGetCount and asyncTrackerCleanupStale skip the first line,
\* whatever it is, and know no limit.
AfterFirstLine(s) ==
  IF file[s].header \/ file[s].lines = <<>> THEN file[s].lines
  ELSE Tail(file[s].lines)
GetCount(s) == IF Exists(s) THEN Len(AfterFirstLine(s)) ELSE 0

\* unlink: whoever has the file open keeps an inode without a name.
Unlink(s) ==
  /\ file' = [file EXCEPT ![s] = NoFile]
  /\ linked' = [c \in Threads |-> linked[c] /\ parent[c] # s]

\* Writing lines from offset 0 without truncating leaves what is beyond them.
Overwrite(lines, old) ==
  lines \o SubSeq(old, Len(lines) + 1, Len(old))

\* The lines of a tracker, but those of j (the loop of asyncTrackerRemove).
Without(lines, j) == Only(lines, ToSet(lines) \ {j})

ThreadsOf(s) == {c \in Threads : parent[c] = s}
\* The calls of asyncTrackerRemove that have read, and that have truncated.
Removing(s) == {c \in ThreadsOf(s) : cpc[c] \in {"trunc", "flush"}}
Truncating(s) == {c \in ThreadsOf(s) : cpc[c] = "flush" /\ linked[c]}
Held(cs) == UNION {ToSet(list[c]) : c \in cs}
\* A cleanup or a sweep has read the tracker of s and not unlinked it yet.
BeingKilled(s) == spc[s] = "kill" \/ \E r \in Sessions : swept[r] = s

Named(j) ==
  \/ \E s \in Sessions : \/ Exists(s) /\ j \in ToSet(file[s].lines)
                         \/ j \in ToSet(todo[s])
  \/ \E c \in Threads : j = pid[c] \/ j \in ToSet(list[c])
Kill(j) == alive' = alive \ {j}

-----------------------------------------------------------------------------
(* cxy package run: start, sweep of stale trackers, script, cleanup        *)

\* asyncTrackerInit creates the tracker of s.
RunStart(s) ==
  /\ spc[s] = "new"
  /\ file' = [file EXCEPT ![s] = FileWith(<<>>)]
  /\ spc' = [spc EXCEPT ![s] = "scan"]
  /\ seen' = [seen EXCEPT ![s] = {s}]
  /\ due' = [due EXCEPT ![s] =
       {j \in alive : \E r \in Sessions : /\ spc[r] = "dead" /\ Exists(r)
                                          /\ j \in ToSet(file[r].lines)}]
  /\ UNCHANGED <<todo, swept, alive, threadVars, linked, strays>>

\* readdir returns the tracker of r, whose session is alive.
ScanSkips(s, r) ==
  /\ spc[s] = "scan"
  /\ Exists(r) /\ r \notin seen[s]
  /\ spc[r] # "dead"
  /\ seen' = [seen EXCEPT ![s] = @ \union {r}]
  /\ UNCHANGED <<spc, todo, swept, due, file, alive, threadVars, linked, strays>>

\* readdir returns a stale tracker, which is read.  What a Remove of an
\* orphaned script has truncated and not written back is out of reach.
MScanReads(s, r) ==
  /\ spc[s] = "scan"
  /\ Exists(r) /\ r \notin seen[s]
  /\ seen' = [seen EXCEPT ![s] = @ \union {r}]
  /\ swept' = [swept EXCEPT ![s] = r]
  /\ todo' = [todo EXCEPT ![s] = AfterFirstLine(r)]
  /\ spc' = [spc EXCEPT ![s] = "sweep"]
  /\ strays' = strays \union Held(Truncating(r))
  /\ UNCHANGED <<due, file, alive, threadVars, linked>>
MScanReadsNothing(s, r) ==
  /\ spc[s] = "scan"
  /\ Exists(r) /\ r \notin seen[s]
  /\ spc[r] = "dead"
  /\ seen' = [seen EXCEPT ![s] = @ \union {r}]
  /\ swept' = [swept EXCEPT ![s] = r]
  /\ spc' = [spc EXCEPT ![s] = "sweep"]
  /\ UNCHANGED <<todo, due, file, alive, threadVars, linked,
                 strays>>
ScanReads(s, r) ==
  /\ spc[s] = "scan"
  /\ Exists(r) /\ r \notin seen[s]
  /\ spc[r] = "dead"
  /\ seen' = [seen EXCEPT ![s] = @ \union {r}]
  /\ swept' = [swept EXCEPT ![s] = r]
  /\ todo' = [todo EXCEPT ![s] = AfterFirstLine(r)]
  /\ spc' = [spc EXCEPT ![s] = "sweep"]
  /\ strays' = strays \union Held(Truncating(r))
  /\ UNCHANGED <<due, file, alive, threadVars, linked>>

\* cleanupProcess: SIGTERM, two seconds, SIGKILL.
KillNext(s) ==
  /\ spc[s] \in {"sweep", "kill"}
  /\ todo[s] # <<>>
  /\ Kill(Head(todo[s]))
  /\ todo' = [todo EXCEPT ![s] = Tail(@)]
  /\ UNCHANGED <<spc, swept, seen, due, file, threadVars, linked, strays>>

\* The stale tracker is removed.
SweepUnlinks(s) ==
  /\ spc[s] = "sweep"
  /\ todo[s] = <<>>
  /\ Unlink(swept[s])
  /\ spc' = [spc EXCEPT ![s] = "scan"]
  /\ swept' = [swept EXCEPT ![s] = None]
  /\ UNCHANGED <<todo, seen, due, alive, threadVars, strays>>

\* End of the directory: the handlers are installed and the script starts.
ScriptStarts(s) ==
  /\ spc[s] = "scan"
  /\ \A r \in Sessions : Exists(r) => r \in seen[s]
  /\ spc' = [spc EXCEPT ![s] = "script"]
  /\ cpc' = [c \in Threads |-> IF parent[c] = s THEN "script" ELSE cpc[c]]
  /\ UNCHANGED <<todo, swept, seen, due, file, alive, pid, list, linked, strays>>

\* The script has ended, well or not.
ScriptEnds(s) ==
  /\ spc[s] = "script"
  /\ \A c \in ThreadsOf(s) : cpc[c] \in {"script", "off"}
  /\ spc' = [spc EXCEPT ![s] = "cleanup"]
  /\ cpc' = [c \in Threads |-> IF parent[c] = s THEN "off" ELSE cpc[c]]
  /\ UNCHANGED <<todo, swept, seen, due, file, alive, pid, list, linked, strays>>

\* SIGINT or SIGTERM: signalHandler starts the cleanup, also inside it; the
\* script lives on.
Interrupt(s) ==
  /\ spc[s] \in {"script", "cleanup", "kill"}
  /\ spc' = [spc EXCEPT ![s] = "cleanup"]
  /\ todo' = [todo EXCEPT ![s] = <<>>]
  /\ UNCHANGED <<swept, seen, due, file, alive, threadVars, linked, strays>>

\* asyncTrackerCleanup reads the tracker ...
CleanupReads(s) ==
  /\ spc[s] = "cleanup"
  /\ Readable(s)
  /\ todo' = [todo EXCEPT ![s] = ReadAll(s)]
  /\ spc' = [spc EXCEPT ![s] = "kill"]
  /\ UNCHANGED <<swept, seen, due, file, alive, threadVars, linked, strays>>

\* ... or cannot, and only removes it.
CleanupCannotRead(s) ==
  /\ spc[s] = "cleanup"
  /\ ~Readable(s)
  /\ Unlink(s)
  /\ spc' = [spc EXCEPT ![s] = "dead"]
  /\ strays' = strays \union Held(Truncating(s))
  /\ UNCHANGED <<todo, swept, seen, due, alive, threadVars>>

\* Everything listed is killed: the tracker is removed, the process exits.
CleanupUnlinks(s) ==
  /\ spc[s] = "kill"
  /\ todo[s] = <<>>
  /\ Unlink(s)
  /\ spc' = [spc EXCEPT ![s] = "dead"]
  /\ UNCHANGED <<todo, swept, seen, due, alive, threadVars,
                 strays>>

\* SIGKILL, or a signal before the handlers are installed: the tracker stays.
Crash(s) ==
  /\ Live(s)
  /\ spc' = [spc EXCEPT ![s] = "dead"]
  /\ todo' = [todo EXCEPT ![s] = <<>>]
  /\ swept' = [swept EXCEPT ![s] = None]
  /\ UNCHANGED <<seen, due, file, alive, threadVars, linked,
                 strays>>

-----------------------------------------------------------------------------
(* async-cmd-start                                                         *)

\* spawnAsyncProcess checks the limit and forks.
StartForks(c, j) ==
  /\ cpc[c] = "script"
  /\ GetCount(parent[c]) < MaxProcesses
  /\ j \notin alive /\ ~Named(j)
  /\ alive' = alive \union {j}
  /\ pid' = [pid EXCEPT ![c] = j]
  /\ cpc' = [cpc EXCEPT ![c] = "add"]
  /\ strays' = strays \ {j}
  /\ due' = [s \in Sessions |-> due[s] \ {j}]
  /\ UNCHANGED <<spc, todo, swept, seen, file, list, linked>>

\* asyncTrackerAdd checks the limit again and opens the tracker.
AddOpens(c) ==
  /\ cpc[c] = "add"
  /\ GetCount(parent[c]) < MaxProcesses
  /\ Exists(parent[c])
  /\ linked' = [linked EXCEPT ![c] = TRUE]
  /\ cpc' = [cpc EXCEPT ![c] = "append"]
  /\ UNCHANGED <<sessionVars, file, alive, pid, list, strays>>

\* It fails (the limit is reached, or the session has cleaned up): the new
\* process is killed.
MAddFails(c) ==
  /\ cpc[c] = "add"
  /\ GetCount(parent[c]) >= MaxProcesses \/ ~Exists(parent[c])
  /\ pid' = [pid EXCEPT ![c] = None]
  /\ cpc' = [cpc EXCEPT ![c] = "script"]
  /\ UNCHANGED <<sessionVars, file, alive, list, linked, strays>>
AddFails(c) ==
  /\ cpc[c] = "add"
  /\ GetCount(parent[c]) >= MaxProcesses \/ ~Exists(parent[c])
  /\ Kill(pid[c])
  /\ pid' = [pid EXCEPT ![c] = None]
  /\ cpc' = [cpc EXCEPT ![c] = "script"]
  /\ UNCHANGED <<sessionVars, file, list, linked, strays>>

\* The line is appended under the lock.  It is out of reach if the file has
\* been unlinked, a reader that will kill or rewrite has read before, there is
\* no header, or another start took the last place meanwhile.
AddAppends(c) ==
  LET s == parent[c]
      f == file[s]
  IN  /\ cpc[c] = "append"
      /\ cpc' = [cpc EXCEPT ![c] = "script"]
      /\ pid' = [pid EXCEPT ![c] = None]
      /\ linked' = [linked EXCEPT ![c] = FALSE]
      /\ file' = IF linked[c] THEN [file EXCEPT ![s].lines = Append(@, pid[c])]
                 ELSE file
      /\ strays' =
           IF \/ ~linked[c] \/ ~f.header
              \/ Removing(s) # {} \/ BeingKilled(s)
              \/ Len(f.lines) >= MaxProcesses
           THEN strays \union {pid[c]} ELSE strays
      /\ UNCHANGED <<sessionVars, alive, list>>

-----------------------------------------------------------------------------
(* async-cmd-stop                                                          *)

\* stopAsyncProcess: succeeds also for a process that is gone.  The script
\* passes a pid it read from .async-last-pid or elsewhere.
StopKills(c, j) ==
  /\ cpc[c] = "script"
  /\ Kill(j)
  /\ pid' = [pid EXCEPT ![c] = j]
  /\ cpc' = [cpc EXCEPT ![c] = "remove"]
  /\ UNCHANGED <<sessionVars, file, list, linked, strays>>

\* asyncTrackerRemove reads the tracker, without the lock ...
RemoveReads(c) ==
  /\ cpc[c] = "remove"
  /\ Readable(parent[c])
  /\ list' = [list EXCEPT ![c] = ReadAll(parent[c])]
  /\ cpc' = [cpc EXCEPT ![c] = "trunc"]
  /\ UNCHANGED <<sessionVars, file, alive, pid, linked, strays>>

\* ... or cannot and gives up.
RemoveCannotRead(c) ==
  /\ cpc[c] = "remove"
  /\ ~Readable(parent[c])
  /\ pid' = [pid EXCEPT ![c] = None]
  /\ cpc' = [cpc EXCEPT ![c] = "script"]
  /\ UNCHANGED <<sessionVars, file, alive, list, linked, strays>>

\* fopen "w" truncates the tracker, or creates one that was removed.
RemoveTruncates(c) ==
  /\ cpc[c] = "trunc"
  /\ file' = [file EXCEPT ![parent[c]] = EmptyFile]
  /\ linked' = [linked EXCEPT ![c] = TRUE]
  /\ cpc' = [cpc EXCEPT ![c] = "flush"]
  /\ UNCHANGED <<sessionVars, alive, pid, list, strays>>

\* fclose writes the header, over the first line of a file that has none, and
\* the other lines.
RemoveFlushes(c) ==
  LET s == parent[c]
      kept == Without(list[c], pid[c])
  IN  /\ cpc[c] = "flush"
      /\ file' = IF linked[c]
                 THEN [file EXCEPT ![s] =
                         FileWith(Overwrite(kept, AfterFirstLine(s)))]
                 ELSE file
      /\ linked' = [linked EXCEPT ![c] = FALSE]
      /\ list' = [list EXCEPT ![c] = <<>>]
      /\ pid' = [pid EXCEPT ![c] = None]
      /\ cpc' = [cpc EXCEPT ![c] = "script"]
      /\ UNCHANGED <<sessionVars, alive, strays>>

-----------------------------------------------------------------------------
(* The environment                                                         *)

\* A background process exits by itself.
JobExits(j) ==
  /\ j \in alive
  /\ Kill(j)
  /\ UNCHANGED <<sessionVars, file, threadVars, linked, strays>>

\* The script ends or is killed, with the command it is in: a process that is
\* forked and not recorded, and what a Remove has truncated, are out of reach.
ThreadDies(c) ==
  /\ cpc[c] # "off"
  /\ cpc' = [cpc EXCEPT ![c] = "off"]
  /\ pid' = [pid EXCEPT ![c] = None]
  /\ list' = [list EXCEPT ![c] = <<>>]
  /\ linked' = [linked EXCEPT ![c] = FALSE]
  /\ strays' = CASE cpc[c] \in {"add", "append"} -> strays \union {pid[c]}
                 [] cpc[c] = "flush" -> strays \union ToSet(list[c])
                 [] OTHER -> strays
  /\ UNCHANGED <<sessionVars, file, alive>>

SessionStep(s) ==
  \/ \E r \in Sessions : ScanSkips(s, r) \/ ScanReads(s, r)
  \/ KillNext(s) \/ SweepUnlinks(s) \/ ScriptStarts(s)
  \/ CleanupReads(s) \/ CleanupCannotRead(s) \/ CleanupUnlinks(s)
CommandStep(c) ==
  \/ AddOpens(c) \/ AddFails(c) \/ AddAppends(c)
  \/ RemoveReads(c) \/ RemoveCannotRead(c) \/ RemoveTruncates(c)
  \/ RemoveFlushes(c)
ScriptStep(c) ==
  \E j \in Jobs : StartForks(c, j) \/ StopKills(c, j)
Environment ==
  \/ \E s \in Sessions : RunStart(s) \/ ScriptEnds(s) \/ Interrupt(s) \/ Crash(s)
  \/ \E j \in Jobs : JobExits(j)
  \/ \E c \in Threads : ScriptStep(c) \/ ThreadDies(c)

Next == \/ \E s \in Sessions : SessionStep(s)
        \/ \E c \in Threads : CommandStep(c)
        \/ Environment

Spec == Init /\ [][Next]_vars

-----------------------------------------------------------------------------
(* Properties                                                              *)

Recorded(j) ==
  \E s \in Sessions : Readable(s) /\ j \in ToSet(ReadAll(s))
BeingStarted(j) == \E c \in Threads : cpc[c] \in {"add", "append"} /\ pid[c] = j

\* Every background process is in a tracker that a cleanup can read, or its
\* start is under way, or a Remove is about to write it back, or a cleanup is
\* about to kill it; otherwise one of the races and crashes that strays names
\* has happened to it.  So what async-cmd-start leaves behind is killed at the
\* end of the session or by the next one (async_tracker.c, spawnAsyncProcess).
Accounted ==
  \A j \in alive \ strays :
    \/ Recorded(j) \/ BeingStarted(j)
    \/ j \in Held({c \in Threads : cpc[c] = "flush" /\ linked[c]})
    \/ \E s \in Sessions : j \in ToSet(todo[s])

\* asyncTrackerCleanupStale never takes the tracker of a session that runs,
\* whatever other sessions start, crash and sweep in the same directory.
LiveTrackersStay == \A s \in Sessions : Live(s) => Exists(s)

\* When a session starts its script, nothing runs any more that a session had
\* recorded which was dead when this one began.
StaleSwept ==
  \A s \in Sessions :
    spc[s] = "script" => due[s] \intersect alive \subseteq strays
=============================================================================
