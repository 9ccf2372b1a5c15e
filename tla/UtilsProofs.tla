---------------------------- MODULE UtilsProofs ----------------------------
(***************************************************************************)
(* Proofs about the helpers of `cxy utils'.  AsyncTracker, for any number  *)
(* of sessions, script threads and background processes: a tracker of a    *)
(* session that runs is never swept, no background process gets lost but   *)
(* by the races and crashes that strays names, and nothing stale is left   *)
(* when a script starts.  UtilsLock, for any number of processes and any   *)
(* timeouts: LockInv is inductive, so CommandsExclusive and HolderIsNamed  *)
(* hold.                                                                   *)
(***************************************************************************)
EXTENDS AsyncTracker, UtilsLock, QueueLemmas

-----------------------------------------------------------------------------
(* The inductive invariant                                                 *)

SessionPlaces == {"new", "dead", "scan", "sweep", "script", "cleanup", "kill"}
ThreadPlaces == {"off", "script", "add", "append", "remove", "trunc", "flush"}

TypeOK ==
  /\ spc \in [Sessions -> SessionPlaces]
  /\ todo \in [Sessions -> Seq(Jobs)]
  /\ swept \in [Sessions -> Sessions \union {None}]
  /\ seen \in [Sessions -> SUBSET Sessions]
  /\ file \in [Sessions -> Files \union {NoFile}]
  /\ alive \subseteq Jobs
  /\ cpc \in [Threads -> ThreadPlaces]
  /\ pid \in [Threads -> Jobs \union {None}]
  /\ list \in [Threads -> Seq(Jobs)]
  /\ linked \in [Threads -> BOOLEAN]
  /\ due \in [Sessions -> SUBSET Jobs]

\* A session sweeps only the trackers of the dead, and has nothing to kill
\* while it does neither sweep nor clean up.
SessionShape ==
  \A s \in Sessions :
    /\ spc[s] = "new" => file[s] = NoFile
    /\ spc[s] \in {"new", "scan", "sweep"} =>
         \A c \in ThreadsOf(s) : cpc[c] = "off"
    /\ spc[s] \notin {"sweep", "kill"} => todo[s] = <<>>
    /\ swept[s] # None <=> spc[s] = "sweep"
    /\ swept[s] # None => spc[swept[s]] = "dead" /\ swept[s] \in seen[s]

\* A thread that has the tracker open under its name, or a pid at hand.
ThreadShape ==
  \A c \in Threads :
    /\ linked[c] => cpc[c] \in {"append", "flush"} /\ Exists(parent[c])
    /\ cpc[c] \notin {"off", "script"} => pid[c] \in Jobs
    /\ cpc[c] \in {"remove", "trunc", "flush"} => pid[c] \notin alive
    /\ Len(list[c]) <= MaxProcesses

\* What the tracker of s gives its readers, now or when a Remove is done.
Listed(s) == IF Readable(s) THEN ToSet(ReadAll(s)) ELSE {}
Tracked(s) == Listed(s) \union Held(Truncating(s))
Rewrites(c) == cpc[c] = "trunc" \/ (cpc[c] = "flush" /\ linked[c])

\* Some tracker knows the job j, or will.
Known(j) == (\E s \in Sessions : j \in Tracked(s)) \/ BeingStarted(j)
\* A Remove will write j back exactly if the tracker has it.
WrittenBack(j) ==
  \A c \in Threads :
    Rewrites(c) => (j \in Tracked(parent[c]) <=> j \in ToSet(list[c]))
\* No reader of a whole tracker misses j.
NotMissed(j) ==
  \A s \in Sessions :
    /\ Exists(s) /\ j \in ToSet(file[s].lines) => j \in Listed(s)
    /\ Readable(s) /\ j \in Held(Truncating(s)) => j \in Listed(s)
\* Whoever will unlink a tracker with j in it will kill j before.
KilledBefore(j) ==
  \A s \in Sessions :
    /\ spc[s] = "kill" /\ j \in Tracked(s) => j \in ToSet(todo[s])
    /\ \A r \in Sessions : swept[s] = r /\ j \in Tracked(r) => j \in ToSet(todo[s])
\* A sweep comes to every stale tracker that had j.
Swept(j) ==
  \A s \in Sessions :
    /\ spc[s] \in {"scan", "sweep"} /\ j \in due[s] =>
         \/ j \in ToSet(todo[s])
         \/ \E r \in Sessions :
              spc[r] = "dead" /\ r \notin seen[s] /\ j \in Tracked(r)
    /\ spc[s] = "script" => j \notin due[s]
JobInv(j) ==
  Known(j) /\ WrittenBack(j) /\ NotMissed(j) /\ KilledBefore(j) /\ Swept(j)

TrackerInv ==
  /\ TypeOK /\ SessionShape /\ ThreadShape /\ LiveTrackersStay
  /\ \A j \in alive \ strays : JobInv(j)

-----------------------------------------------------------------------------
(* Lists of lines                                                          *)

\* The first lines of a tracker, at most m.
LEMMA FirstLines ==
  ASSUME NEW lines \in Seq(Jobs), NEW m \in Nat
  PROVE  LET n == Min({m, Len(lines)})
             p == SubSeq(lines, 1, n)
         IN  /\ n \in Nat /\ n <= m /\ n <= Len(lines)
             /\ n = m \/ n = Len(lines)
             /\ p \in Seq(Jobs) /\ Len(p) = n
             /\ \A i \in 1 .. n : p[i] = lines[i]
             /\ ToSet(p) \subseteq ToSet(lines)
<1> DEFINE n == Min({m, Len(lines)})
           p == SubSeq(lines, 1, n)
<1>1. Len(lines) \in Nat /\ \A i \in 1 .. Len(lines) : lines[i] \in Jobs
  BY LenProperties, ElementOfSeq
<1>2. n \in {m, Len(lines)} /\ \A y \in {m, Len(lines)} : n <= y
  <2>1. \E x \in {m, Len(lines)} : \A y \in {m, Len(lines)} : x <= y
    <3>1. CASE m <= Len(lines)
      BY <1>1, <3>1
    <3>2. CASE ~(m <= Len(lines))
      BY <1>1, <3>2
    <3> QED
      BY <3>1, <3>2
  <2> QED
    BY <2>1 DEF Min
<1> HIDE DEF n
<1>3. n \in Nat /\ n <= m /\ n <= Len(lines) /\ (n = m \/ n = Len(lines))
  BY <1>1, <1>2
<1>4. \A i \in 1 .. n : lines[i] \in Jobs
  BY <1>1, <1>3
<1>5. /\ p \in Seq(Jobs) /\ Len(p) = IF 1 <= n THEN n - 1 + 1 ELSE 0
      /\ \A i \in 1 .. n - 1 + 1 : p[i] = lines[1 + i - 1]
  BY <1>3, <1>4, SubSeqProperties
<1> HIDE DEF p
<1>6. Len(p) = n /\ \A i \in 1 .. n : p[i] = lines[i]
  BY <1>3, <1>5
<1>7. ToSet(p) \subseteq ToSet(lines)
  BY <1>1, <1>3, <1>5, <1>6, QueueElements
<1> QED
  BY <1>3, <1>5, <1>6, <1>7 DEF n, p

\* What was read is read again when a line has been appended, and the new line
\* is read if there was room.
LEMMA ReadAppended ==
  ASSUME NEW lines \in Seq(Jobs), NEW m \in Nat, NEW j \in Jobs
  PROVE  LET Read(l) == ToSet(SubSeq(l, 1, Min({m, Len(l)})))
         IN  /\ Read(lines) \subseteq Read(Append(lines, j))
             /\ Read(Append(lines, j)) \subseteq Read(lines) \union {j}
             /\ Len(lines) < m => j \in Read(Append(lines, j))
<1> DEFINE more == Append(lines, j)
           n == Min({m, Len(lines)})
           k == Min({m, Len(more)})
           p == SubSeq(lines, 1, n)
           q == SubSeq(more, 1, k)
<1>1. /\ more \in Seq(Jobs) /\ Len(lines) \in Nat /\ Len(more) = Len(lines) + 1
      /\ \A i \in 1 .. Len(lines) : more[i] = lines[i]
      /\ more[Len(lines) + 1] = j
  BY AppendProperties, LenProperties
<1>2. /\ n \in Nat /\ n <= m /\ n <= Len(lines)
      /\ n = m \/ n = Len(lines)
      /\ p \in Seq(Jobs) /\ Len(p) = n
      /\ \A i \in 1 .. n : p[i] = lines[i]
  BY FirstLines
<1> HIDE DEF more, n, p
<1>3. /\ k \in Nat /\ k <= m /\ k <= Len(more)
      /\ k = m \/ k = Len(more)
      /\ q \in Seq(Jobs) /\ Len(q) = k
      /\ \A i \in 1 .. k : q[i] = more[i]
  BY <1>1, FirstLines
<1> HIDE DEF k, q
<1>4. ASSUME NEW x \in ToSet(p) PROVE x \in ToSet(q)
  <2>1. PICK i \in 1 .. Len(p) : x = p[i]
    BY <1>2, QueueElements
  <2>2. i \in 1 .. Len(q) /\ q[i] = x
    BY <1>1, <1>2, <1>3, <2>1
  <2> QED
    BY <1>3, <2>2, QueueElements
<1>5. ASSUME NEW x \in ToSet(q), x # j PROVE x \in ToSet(p)
  <2>1. PICK i \in 1 .. Len(q) : x = q[i]
    BY <1>3, QueueElements
  <2>2. i # Len(lines) + 1
    BY <1>1, <1>3, <1>5, <2>1
  <2>3. i \in 1 .. Len(p) /\ p[i] = x
    BY <1>1, <1>2, <1>3, <2>1, <2>2
  <2> QED
    BY <1>2, <2>3, QueueElements
<1>6. ASSUME Len(lines) < m PROVE j \in ToSet(q)
  <2>1. Len(lines) + 1 \in 1 .. Len(q) /\ q[Len(lines) + 1] = j
    BY <1>1, <1>3, <1>6
  <2> QED
    BY <1>3, <2>1, QueueElements
<1> QED
  BY <1>4, <1>5, <1>6 DEF p, q, n, k, more

\* The loop of asyncTrackerRemove keeps every line but those of j.
LEMMA WithoutProperties ==
  ASSUME NEW lines \in Seq(Jobs), NEW j
  PROVE  /\ Without(lines, j) \in Seq(Jobs)
         /\ Len(Without(lines, j)) <= Len(lines)
         /\ ToSet(Without(lines, j)) = ToSet(lines) \ {j}
  BY OnlyProperties DEF Without

\* What is written over a list is read, if it is not too long; nothing else
\* comes in.
LEMMA ReadOverwritten ==
  ASSUME NEW lines \in Seq(Jobs), NEW old \in Seq(Jobs), NEW m \in Nat,
         Len(lines) <= m
  PROVE  LET over == Overwrite(lines, old)
             Read(l) == ToSet(SubSeq(l, 1, Min({m, Len(l)})))
         IN  /\ over \in Seq(Jobs)
             /\ ToSet(over) \subseteq ToSet(lines) \union ToSet(old)
             /\ ToSet(lines) \subseteq Read(over)
             /\ Read(over) \subseteq ToSet(over)
<1> DEFINE rest == SubSeq(old, Len(lines) + 1, Len(old))
           over == Overwrite(lines, old)
           n == Min({m, Len(over)})
           p == SubSeq(over, 1, n)
<1>1. /\ Len(lines) \in Nat /\ Len(old) \in Nat
      /\ \A i \in 1 .. Len(old) : old[i] \in Jobs
  BY LenProperties, ElementOfSeq
<1>2. rest \in Seq(Jobs) /\ ToSet(rest) \subseteq ToSet(old)
  <2>1. \A i \in Len(lines) + 1 .. Len(old) : old[i] \in Jobs
    BY <1>1
  <2>2. /\ rest \in Seq(Jobs)
        /\ Len(rest) = IF Len(lines) + 1 <= Len(old)
                         THEN Len(old) - (Len(lines) + 1) + 1 ELSE 0
        /\ \A i \in 1 .. Len(old) - (Len(lines) + 1) + 1 :
             rest[i] = old[Len(lines) + 1 + i - 1]
    BY <1>1, <2>1, SubSeqProperties
  <2> HIDE DEF rest
  <2>3. ASSUME NEW x \in ToSet(rest) PROVE x \in ToSet(old)
    <3>1. PICK i \in 1 .. Len(rest) : x = rest[i]
      BY <2>2, QueueElements
    <3>2. Len(lines) + i \in 1 .. Len(old) /\ old[Len(lines) + i] = x
      BY <1>1, <2>2, <3>1
    <3> QED
      BY <3>2, QueueElements
  <2> QED
    BY <2>2, <2>3
<1>3. /\ over \in Seq(Jobs) /\ Len(over) \in Nat /\ Len(over) >= Len(lines)
      /\ \A i \in 1 .. Len(lines) : over[i] = lines[i]
      /\ ToSet(over) = ToSet(lines) \union ToSet(rest)
  <2> HIDE DEF rest
  <2>1. over = lines \o rest
    BY DEF Overwrite, rest
  <2>2. Len(rest) \in Nat
    BY <1>2, LenProperties
  <2>3. /\ over \in Seq(Jobs) /\ Len(over) = Len(lines) + Len(rest)
        /\ \A i \in 1 .. Len(lines) + Len(rest) :
             over[i] = IF i <= Len(lines) THEN lines[i] ELSE rest[i - Len(lines)]
    BY <1>2, <2>1, ConcatProperties
  <2>4. ToSet(over) = ToSet(lines) \union ToSet(rest)
    BY <1>2, <2>1, DrainQueue
  <2> HIDE DEF over
  <2> QED
    BY <1>1, <2>2, <2>3, <2>4
<1> HIDE DEF rest, over
<1>4. /\ n \in Nat /\ n <= m /\ n <= Len(over)
      /\ n = m \/ n = Len(over)
      /\ p \in Seq(Jobs) /\ Len(p) = n
      /\ \A i \in 1 .. n : p[i] = over[i]
      /\ ToSet(p) \subseteq ToSet(over)
  BY <1>3, FirstLines
<1> HIDE DEF n, p
<1>5. ASSUME NEW x \in ToSet(lines) PROVE x \in ToSet(p)
  <2>1. PICK i \in 1 .. Len(lines) : x = lines[i]
    BY QueueElements
  <2>2. i \in 1 .. Len(p) /\ p[i] = x
    BY <1>1, <1>3, <1>4, <2>1
  <2> QED
    BY <1>4, <2>2, QueueElements
<1> QED
  BY <1>2, <1>3, <1>4, <1>5 DEF p, n, over

-----------------------------------------------------------------------------
(* What a tracker knows                                                    *)

\* A tracker that can be read is a file with a header.
LEMMA ReadAllProperties ==
  ASSUME TrackerInv, NEW s \in Sessions, Exists(s)
  PROVE  /\ file[s] \in Files
         /\ ReadAll(s) \in Seq(Jobs) /\ Len(ReadAll(s)) <= MaxProcesses
         /\ ToSet(ReadAll(s)) \subseteq ToSet(file[s].lines)
<1>1. file[s] \in Files
  BY DEF TrackerInv, TypeOK, Exists
<1>2. file[s].lines \in Seq(Jobs) /\ MaxProcesses \in Nat
  BY <1>1, TrackerAssumption DEF Files
<1> QED
  BY <1>1, <1>2, FirstLines DEF ReadAll

\* A step that leaves the files, and what a Remove has truncated, leaves what
\* the trackers know.
LEMMA SameTrackers ==
  ASSUME UNCHANGED file,
         \A c \in Threads :
           /\ (cpc'[c] = "flush" /\ linked'[c]) <=> (cpc[c] = "flush" /\ linked[c])
           /\ cpc[c] = "flush" => list'[c] = list[c]
  PROVE  \A s \in Sessions :
           /\ Exists(s)' = Exists(s) /\ Readable(s)' = Readable(s)
           /\ Listed(s)' = Listed(s)
           /\ Held(Truncating(s))' = Held(Truncating(s))
           /\ Tracked(s)' = Tracked(s)
<1> SUFFICES ASSUME NEW s \in Sessions
             PROVE  /\ Exists(s)' = Exists(s) /\ Readable(s)' = Readable(s)
                    /\ Listed(s)' = Listed(s)
                    /\ Held(Truncating(s))' = Held(Truncating(s))
                    /\ Tracked(s)' = Tracked(s)
  OBVIOUS
<1>1. Exists(s)' = Exists(s) /\ Readable(s)' = Readable(s)
  BY DEF Exists, Readable
<1>2. Listed(s)' = Listed(s)
  BY <1>1 DEF Listed, ReadAll
<1>3. Held(Truncating(s))' = Held(Truncating(s))
  BY DEF Held, Truncating, ThreadsOf
<1> QED
  BY <1>1, <1>2, <1>3 DEF Tracked

\* A step of a session that leaves the files and the script threads.
LEMMA OnlySessions ==
  ASSUME TrackerInv, UNCHANGED <<file, cpc, pid, list, linked>>, alive' \subseteq alive
  PROVE  /\ ThreadShape'
         /\ \A s \in Sessions : /\ Exists(s)' = Exists(s)
                                /\ Listed(s)' = Listed(s)
                                /\ Tracked(s)' = Tracked(s)
         /\ \A j : JobInv(j) => Known(j)' /\ WrittenBack(j)' /\ NotMissed(j)'
<1>1. \A s \in Sessions :
         /\ Exists(s)' = Exists(s) /\ Readable(s)' = Readable(s)
         /\ Listed(s)' = Listed(s)
         /\ Held(Truncating(s))' = Held(Truncating(s))
         /\ Tracked(s)' = Tracked(s)
  BY SameTrackers
<1>2. ThreadShape'
  BY DEF TrackerInv, ThreadShape, Exists
<1>3. ASSUME NEW j, JobInv(j)
      PROVE  Known(j)' /\ WrittenBack(j)' /\ NotMissed(j)'
  BY <1>1, <1>3, TrackerAssumption
     DEF JobInv, Known, BeingStarted, WrittenBack, Rewrites, NotMissed
<1> QED
  BY <1>1, <1>2, <1>3

\* A step of a script thread that leaves what the trackers know of j.
LEMMA OnlyThreads ==
  ASSUME UNCHANGED sessionVars, NEW j, JobInv(j),
         \A s \in Sessions : j \in Tracked(s)' <=> j \in Tracked(s)
  PROVE  KilledBefore(j)' /\ Swept(j)'
<1>1. KilledBefore(j)'
  BY DEF JobInv, KilledBefore, sessionVars
<1>2. Swept(j)'
  BY DEF JobInv, Swept, sessionVars
<1> QED
  BY <1>1, <1>2

\* Nothing is left of a tracker that is removed.
LEMMA Unlinked ==
  ASSUME TypeOK, NEW s \in Sessions, Unlink(s), UNCHANGED threadVars
  PROVE  /\ ~Exists(s)' /\ Listed(s)' = {} /\ Tracked(s)' = {}
         /\ \A r \in Sessions \ {s} :
              /\ Exists(r)' = Exists(r) /\ file'[r] = file[r]
              /\ Readable(r)' = Readable(r) /\ Listed(r)' = Listed(r)
              /\ Held(Truncating(r))' = Held(Truncating(r))
              /\ Tracked(r)' = Tracked(r)
         /\ \A c \in Threads : linked'[c] <=> linked[c] /\ parent[c] # s
<1> USE TrackerAssumption DEF Unlink, threadVars, TypeOK
<1>1. ~Exists(s)' /\ Listed(s)' = {}
  BY DEF Exists, Listed, Readable
<1>2. Held(Truncating(s))' = {}
  BY DEF Held, Truncating, ThreadsOf
<1>3. ASSUME NEW r \in Sessions \ {s}
      PROVE  /\ Exists(r)' = Exists(r) /\ file'[r] = file[r]
             /\ Readable(r)' = Readable(r) /\ Listed(r)' = Listed(r)
             /\ Held(Truncating(r))' = Held(Truncating(r))
  <2>1. file'[r] = file[r]
    OBVIOUS
  <2>2. Exists(r)' = Exists(r) /\ Readable(r)' = Readable(r)
    BY <2>1 DEF Exists, Readable
  <2>3. Listed(r)' = Listed(r)
    BY <2>1, <2>2 DEF Listed, ReadAll
  <2>4. Truncating(r)' = Truncating(r)
    BY DEF Truncating, ThreadsOf
  <2> QED
    BY <2>1, <2>2, <2>3, <2>4 DEF Held
<1>4. \A c \in Threads : linked'[c] <=> linked[c] /\ parent[c] # s
  OBVIOUS
<1> QED
  BY <1>1, <1>2, <1>3, <1>4 DEF Tracked

\* Removing a tracker loses no job, if none is in it.
LEMMA NothingLost ==
  ASSUME TrackerInv, NEW s \in Sessions, Unlink(s), UNCHANGED threadVars,
         NEW j, JobInv(j), j \notin Tracked(s)
  PROVE  Known(j)' /\ WrittenBack(j)' /\ NotMissed(j)'
<1> USE DEF TrackerInv, threadVars
<1>1. /\ ~Exists(s)' /\ Listed(s)' = {} /\ Tracked(s)' = {}
      /\ \A r \in Sessions \ {s} :
           /\ Exists(r)' = Exists(r) /\ file'[r] = file[r]
           /\ Readable(r)' = Readable(r) /\ Listed(r)' = Listed(r)
           /\ Held(Truncating(r))' = Held(Truncating(r))
           /\ Tracked(r)' = Tracked(r)
      /\ \A c \in Threads : linked'[c] <=> linked[c] /\ parent[c] # s
  BY Unlinked
<1>2. Known(j)'
  BY <1>1 DEF JobInv, Known, BeingStarted
<1>3. WrittenBack(j)'
  <2> SUFFICES ASSUME NEW c \in Threads, Rewrites(c)'
               PROVE  j \in Tracked(parent[c])' <=> j \in ToSet(list[c])
    BY DEF WrittenBack
  <2>1. Rewrites(c) /\ parent[c] \in Sessions
    BY <1>1, TrackerAssumption DEF Rewrites
  <2>2. j \in Tracked(parent[c]) <=> j \in ToSet(list[c])
    BY <2>1 DEF JobInv, WrittenBack
  <2>3. j \in Tracked(parent[c])' <=> j \in Tracked(parent[c])
    BY <1>1, <2>1
  <2> QED
    BY <2>2, <2>3
<1>4. NotMissed(j)'
  <2>1. Readable(s)' => Exists(s)'
    BY DEF Readable
  <2> QED
    BY <1>1, <2>1 DEF JobInv, NotMissed
<1> QED
  BY <1>2, <1>3, <1>4

-----------------------------------------------------------------------------
(* The steps of a session                                                  *)

LEMMA RunStartInv ==
  ASSUME TrackerInv, NEW s \in Sessions, RunStart(s)
  PROVE  TrackerInv'
<1> USE TrackerAssumption DEF TrackerInv, RunStart, threadVars
<1>1. file[s] = NoFile /\ (\A c \in ThreadsOf(s) : cpc[c] = "off") /\ ~Exists(s)
  BY DEF SessionShape, Exists
<1>2. FileWith(<<>>) \in Files /\ ToSet(<<>>) = {} /\ <<>> \in Seq(Jobs)
  BY EmptyQueue DEF FileWith, Files
<1>3. TypeOK'
  <2>1. file' \in [Sessions -> Files \union {NoFile}]
    BY <1>2 DEF TypeOK
  <2>2. due' \in [Sessions -> SUBSET Jobs]
    BY DEF TypeOK
  <2>3. spc' \in [Sessions -> SessionPlaces] /\ seen' \in [Sessions -> SUBSET Sessions]
    BY DEF TypeOK, SessionPlaces
  <2> QED
    BY <2>1, <2>2, <2>3 DEF TypeOK
<1>4. /\ file'[s] = FileWith(<<>>) /\ Exists(s)'
      /\ \A r \in Sessions \ {s} : file'[r] = file[r]
  BY <1>2 DEF TypeOK, Exists
<1>5. \A r \in Sessions :
         /\ Listed(r)' = Listed(r)
         /\ Held(Truncating(r))' = Held(Truncating(r))
         /\ Tracked(r)' = Tracked(r)
  <2> SUFFICES ASSUME NEW r \in Sessions
               PROVE  /\ Listed(r)' = Listed(r)
                      /\ Held(Truncating(r))' = Held(Truncating(r))
    BY DEF Tracked
  <2>1. Held(Truncating(r))' = Held(Truncating(r))
    BY DEF Held, Truncating, ThreadsOf
  <2>2. CASE r = s
    <3>1. Listed(s) = {}
      BY <1>1 DEF Listed, Readable
    <3>2. ToSet(SubSeq(<<>>, 1, Min({MaxProcesses, Len(<<>>)}))) \subseteq ToSet(<<>>)
      BY <1>2, FirstLines
    <3>3. ReadAll(s)' = SubSeq(<<>>, 1, Min({MaxProcesses, Len(<<>>)}))
      <4>1. file'[s].lines = <<>>
        BY <1>4 DEF FileWith
      <4> HIDE DEF RunStart
      <4> QED
        BY <4>1, Zenon DEF ReadAll
    <3>4. Listed(s)' = {}
      BY <1>2, <3>2, <3>3 DEF Listed
    <3> QED
      BY <2>1, <2>2, <3>1, <3>4
  <2>3. CASE r # s
    <3>1. file'[r] = file[r]
      BY <1>4, <2>3
    <3>2. Readable(r)' = Readable(r) /\ ReadAll(r)' = ReadAll(r)
      BY <3>1 DEF Readable, Exists, ReadAll
    <3> QED
      BY <2>1, <3>2 DEF Listed
  <2> QED
    BY <2>2, <2>3
<1>6. SessionShape'
  <2> SUFFICES ASSUME NEW r \in Sessions
               PROVE  /\ spc'[r] = "new" => file'[r] = NoFile
                      /\ spc'[r] \in {"new", "scan", "sweep"} =>
                           \A c \in ThreadsOf(r) : cpc[c] = "off"
                      /\ spc'[r] \notin {"sweep", "kill"} => todo[r] = <<>>
                      /\ swept[r] # None <=> spc'[r] = "sweep"
                      /\ swept[r] # None => /\ spc'[swept[r]] = "dead"
                                            /\ swept[r] \in seen'[r]
    BY DEF SessionShape, ThreadsOf
  <2>1. swept[r] # None => swept[r] \in Sessions /\ spc[swept[r]] = "dead"
    BY DEF SessionShape, TypeOK
  <2> QED
    BY <1>1, <1>4, <2>1 DEF SessionShape, TypeOK
<1>7. ThreadShape' /\ LiveTrackersStay'
  BY <1>1, <1>4 DEF ThreadShape, LiveTrackersStay, Live, Exists, TypeOK
<1>8. ASSUME NEW j \in alive' \ strays' PROVE JobInv(j)'
  <2>1. JobInv(j)
    OBVIOUS
  <2>2. Known(j)' /\ WrittenBack(j)'
    BY <1>5, <2>1 DEF JobInv, Known, BeingStarted, WrittenBack, Rewrites
  <2>3. NotMissed(j)'
    <3> SUFFICES ASSUME NEW r \in Sessions
                 PROVE  /\ Exists(r)' /\ j \in ToSet(file'[r].lines) => j \in Listed(r)
                        /\ Readable(r)' /\ j \in Held(Truncating(r)) => j \in Listed(r)
      BY <1>5 DEF NotMissed
    <3>1. CASE r = s
      <4>1. Held(Truncating(s)) = {}
        BY <1>1 DEF Held, Truncating
      <4> QED
        BY <1>2, <1>4, <3>1, <4>1 DEF FileWith
    <3>2. CASE r # s
      BY <1>4, <2>1, <3>2 DEF JobInv, NotMissed, Exists, Readable
    <3> QED
      BY <3>1, <3>2
  <2>4. KilledBefore(j)'
    BY <1>5, <2>1 DEF JobInv, KilledBefore, TypeOK
  <2>5. Swept(j)'
    <3> SUFFICES ASSUME NEW r \in Sessions
                 PROVE  /\ spc'[r] \in {"scan", "sweep"} /\ j \in due'[r] =>
                             \/ j \in ToSet(todo[r])
                             \/ \E q \in Sessions : /\ spc'[q] = "dead" /\ q \notin seen'[r]
                                                    /\ j \in Tracked(q)
                        /\ spc'[r] = "script" => j \notin due'[r]
      BY <1>5 DEF Swept
    <3>1. \A q \in Sessions : spc[q] = "dead" => spc'[q] = "dead" /\ q # s
      BY DEF TypeOK
    <3>2. CASE r = s
      <4> SUFFICES ASSUME j \in due'[s]
                   PROVE  \E q \in Sessions : /\ spc'[q] = "dead" /\ q \notin seen'[s]
                                              /\ j \in Tracked(q)
        BY <3>2 DEF TypeOK
      <4>1. PICK q \in Sessions : spc[q] = "dead" /\ Exists(q) /\ j \in ToSet(file[q].lines)
        BY DEF TypeOK
      <4>2. j \in Tracked(q)
        BY <2>1, <4>1 DEF JobInv, NotMissed, Tracked
      <4>3. seen'[s] = {s}
        BY DEF TypeOK
      <4> QED
        BY <3>1, <4>1, <4>2, <4>3
    <3>3. CASE r # s
      <4>1. spc'[r] = spc[r] /\ due'[r] = due[r] /\ seen'[r] = seen[r]
        BY <3>3 DEF TypeOK
      <4> QED
        BY <2>1, <3>1, <4>1 DEF JobInv, Swept
    <3> QED
      BY <3>2, <3>3
  <2> QED
    BY <2>2, <2>3, <2>4, <2>5 DEF JobInv
<1> QED
  BY <1>3, <1>6, <1>7, <1>8

LEMMA ScanSkipsInv ==
  ASSUME TrackerInv, NEW s \in Sessions, NEW r \in Sessions, ScanSkips(s, r)
  PROVE  TrackerInv'
<1> USE DEF TrackerInv, ScanSkips, threadVars
<1>1. TypeOK' /\ SessionShape'
  BY DEF TypeOK, SessionShape, ThreadsOf
<1>2. LiveTrackersStay'
  BY DEF LiveTrackersStay, Live, Exists
<1>3. ASSUME NEW j \in alive' \ strays' PROVE JobInv(j)'
  <2>1. \A q \in Sessions : Tracked(q)' = Tracked(q)
    BY OnlySessions
  <2>2. KilledBefore(j)'
    BY <2>1 DEF JobInv, KilledBefore
  <2>3. Swept(j)'
    BY <2>1 DEF JobInv, Swept, TypeOK
  <2> QED
    BY <2>2, <2>3, OnlySessions DEF JobInv
<1> QED
  BY <1>1, <1>2, <1>3, OnlySessions

\* A sweep reads all that its tracker knows, but what a Remove has truncated.
LEMMA ScanReadsInv ==
  ASSUME TrackerInv, NEW s \in Sessions, NEW r \in Sessions, ScanReads(s, r)
  PROVE  TrackerInv'
<1> USE TrackerAssumption DEF TrackerInv, ScanReads, threadVars
<1>1. file[r] \in Files /\ AfterFirstLine(r) \in Seq(Jobs)
  <2>1. file[r] \in Files
    BY ReadAllProperties
  <2>2. file[r].lines \in Seq(Jobs)
    BY <2>1 DEF Files
  <2> QED
    BY <2>1, <2>2, HeadAndTail DEF AfterFirstLine
<1>2. Listed(r) \subseteq ToSet(AfterFirstLine(r))
  <2> SUFFICES ASSUME Readable(r)
               PROVE  ToSet(ReadAll(r)) \subseteq ToSet(AfterFirstLine(r))
    BY DEF Listed
  <2>1. AfterFirstLine(r) = file[r].lines
    BY DEF AfterFirstLine, Readable
  <2> QED
    BY <2>1, ReadAllProperties
<1>3. TypeOK'
  BY <1>1 DEF TypeOK, SessionPlaces
<1>4. SessionShape'
  BY DEF SessionShape, ThreadsOf, TypeOK
<1>5. LiveTrackersStay'
  BY DEF LiveTrackersStay, Live, Exists, TypeOK
<1>6. ASSUME NEW j \in alive' \ strays' PROVE JobInv(j)'
  <2>1. JobInv(j) /\ \A q \in Sessions : Tracked(q)' = Tracked(q)
    BY OnlySessions
  <2>2. j \in Tracked(r) => j \in ToSet(todo'[s])
    BY <1>2 DEF Tracked, TypeOK
  <2>3. \A q \in Sessions \ {s} : /\ todo'[q] = todo[q] /\ spc'[q] = spc[q]
                                  /\ swept'[q] = swept[q] /\ seen'[q] = seen[q]
    BY DEF TypeOK
  <2>4. /\ spc'[s] = "sweep" /\ swept'[s] = r /\ seen'[s] = seen[s] \union {r}
        /\ todo[s] = <<>> /\ spc[s] = "scan"
    BY DEF TypeOK, SessionShape
  <2>5. KilledBefore(j)'
    BY <2>1, <2>2, <2>3, <2>4 DEF JobInv, KilledBefore
  <2>6. Swept(j)'
    <3>1. j \notin ToSet(todo[s])
      BY <2>4, EmptyQueue
    <3>2. \A q \in Sessions : spc[q] = "dead" => spc'[q] = "dead"
      BY <2>3, <2>4
    <3>3. ASSUME j \in due[s]
          PROVE  \/ j \in ToSet(todo'[s])
                 \/ \E q \in Sessions : /\ spc'[q] = "dead" /\ q \notin seen'[s]
                                        /\ j \in Tracked(q)
      BY <2>1, <2>2, <2>4, <3>1, <3>2, <3>3 DEF JobInv, Swept
    <3> HIDE DEF ScanReads
    <3>4. due' = due
      BY DEF ScanReads
    <3> QED
      BY <2>1, <2>3, <2>4, <3>2, <3>3, <3>4 DEF JobInv, Swept
  <2> QED
    BY <2>5, <2>6, OnlySessions DEF JobInv
<1> QED
  BY <1>3, <1>4, <1>5, <1>6, OnlySessions

LEMMA KillNextInv ==
  ASSUME TrackerInv, NEW s \in Sessions, KillNext(s)
  PROVE  TrackerInv'
<1> USE DEF TrackerInv, KillNext, Kill, threadVars
<1>1. /\ Head(todo[s]) \in Jobs /\ Tail(todo[s]) \in Seq(Jobs)
      /\ ToSet(todo[s]) = {Head(todo[s])} \union ToSet(Tail(todo[s]))
  BY HeadAndTail DEF TypeOK
<1>2. TypeOK'
  BY <1>1 DEF TypeOK
<1>3. SessionShape' /\ LiveTrackersStay'
  BY DEF SessionShape, LiveTrackersStay, Live, Exists, ThreadsOf, TypeOK
<1>4. ASSUME NEW j \in alive' \ strays' PROVE JobInv(j)'
  <2>1. \A q \in Sessions : Tracked(q)' = Tracked(q)
    BY OnlySessions
  <2>2. \A r \in Sessions : j \in ToSet(todo[r]) => j \in ToSet(todo'[r])
    BY <1>1 DEF TypeOK
  <2>3. KilledBefore(j)'
    BY <2>1, <2>2 DEF JobInv, KilledBefore
  <2>4. Swept(j)'
    BY <2>1, <2>2 DEF JobInv, Swept
  <2> QED
    BY <2>3, <2>4, OnlySessions DEF JobInv
<1> QED
  BY <1>2, <1>3, <1>4, OnlySessions

\* What a sweep unlinks has no job left in it.
LEMMA SweepUnlinksInv ==
  ASSUME TrackerInv, NEW s \in Sessions, SweepUnlinks(s)
  PROVE  TrackerInv'
<1> USE TrackerAssumption DEF TrackerInv
<1>1. PICK r \in Sessions :
         r = swept[s] /\ spc[r] = "dead" /\ r \in seen[s] /\ spc[s] = "sweep"
  BY DEF SweepUnlinks, SessionShape, TypeOK
<1>2. Unlink(r) /\ UNCHANGED threadVars /\ UNCHANGED <<todo, seen, due, alive, strays>>
  BY <1>1 DEF SweepUnlinks
<1>3. /\ spc'[s] = "scan" /\ swept'[s] = None /\ todo[s] = <<>>
      /\ \A q \in Sessions \ {s} : spc'[q] = spc[q] /\ swept'[q] = swept[q]
      /\ spc' \in [Sessions -> SessionPlaces]
      /\ swept' \in [Sessions -> Sessions \union {None}]
  BY DEF SweepUnlinks, TypeOK, SessionPlaces
<1>4. /\ ~Exists(r)' /\ Listed(r)' = {} /\ Tracked(r)' = {}
      /\ \A q \in Sessions \ {r} :
           Exists(q)' = Exists(q) /\ file'[q] = file[q] /\ Tracked(q)' = Tracked(q)
      /\ \A c \in Threads : linked'[c] <=> linked[c] /\ parent[c] # r
  BY <1>1, <1>2, Unlinked
<1>5. TypeOK'
  <2>1. file' \in [Sessions -> Files \union {NoFile}] /\ linked' \in [Threads -> BOOLEAN]
    BY <1>1, <1>2 DEF TypeOK, Unlink
  <2> QED
    BY <1>2, <1>3, <2>1 DEF TypeOK, threadVars
<1>6. SessionShape'
  <2>1. ASSUME NEW q \in Sessions
        PROVE  /\ spc'[q] = "new" => file'[q] = NoFile
               /\ spc'[q] \in {"new", "scan", "sweep"} =>
                    \A c \in ThreadsOf(q) : cpc'[c] = "off"
               /\ spc'[q] \notin {"sweep", "kill"} => todo'[q] = <<>>
               /\ swept'[q] # None <=> spc'[q] = "sweep"
               /\ swept'[q] # None => spc'[swept'[q]] = "dead" /\ swept'[q] \in seen'[q]
    <3>1. swept[q] # None => swept[q] \in Sessions /\ spc[swept[q]] = "dead"
      BY DEF SessionShape, TypeOK
    <3> QED
      BY <1>1, <1>2, <1>3, <1>4, <3>1 DEF SessionShape, threadVars
  <2> QED
    BY <2>1 DEF SessionShape, ThreadsOf
<1>7. ThreadShape'
  BY <1>2, <1>4 DEF ThreadShape, threadVars
<1>8. LiveTrackersStay'
  BY <1>1, <1>3, <1>4 DEF LiveTrackersStay, Live
<1>9. ASSUME NEW j \in alive' \ strays' PROVE JobInv(j)'
  <2>1. JobInv(j)
    BY <1>2
  <2>2. j \notin Tracked(r) /\ j \notin ToSet(todo[s])
    BY <1>1, <1>3, <2>1, EmptyQueue DEF JobInv, KilledBefore
  <2>3. \A q \in Sessions : j \in Tracked(q)' <=> j \in Tracked(q)
    BY <1>4, <2>2
  <2>4. KilledBefore(j)'
    BY <1>2, <1>3, <2>1, <2>3 DEF JobInv, KilledBefore, TypeOK
  <2>5. Swept(j)'
    <3>1. \A q \in Sessions : spc[q] = "dead" => spc'[q] = "dead"
      BY <1>1, <1>3
    <3>2. \A q \in Sessions : spc'[q] = spc[q] \/ (q = s /\ spc'[q] = "scan")
      BY <1>3
    <3> QED
      BY <1>1, <1>2, <2>1, <2>3, <3>1, <3>2 DEF JobInv, Swept
  <2>6. Known(j)' /\ WrittenBack(j)' /\ NotMissed(j)'
    BY <1>1, <1>2, <2>1, <2>2, NothingLost
  <2> QED
    BY <2>4, <2>5, <2>6 DEF JobInv
<1> QED
  BY <1>5, <1>6, <1>7, <1>8, <1>9

\* When the directory has been read, every stale job is dead.
LEMMA ScriptStartsInv ==
  ASSUME TrackerInv, NEW s \in Sessions, ScriptStarts(s)
  PROVE  TrackerInv'
<1> USE TrackerAssumption DEF TrackerInv, ScriptStarts
<1>1. \A c \in Threads : parent[c] = s => cpc[c] = "off" /\ cpc'[c] = "script"
  BY DEF SessionShape, ThreadsOf
<1>2. \A c \in Threads : parent[c] # s => cpc'[c] = cpc[c]
  OBVIOUS
<1>3. \A r \in Sessions :
         /\ Exists(r)' = Exists(r) /\ Readable(r)' = Readable(r)
         /\ Listed(r)' = Listed(r)
         /\ Held(Truncating(r))' = Held(Truncating(r))
         /\ Tracked(r)' = Tracked(r)
  BY <1>1, <1>2, SameTrackers
<1>4. TypeOK'
  <2>1. cpc' \in [Threads -> ThreadPlaces]
    BY DEF TypeOK, ThreadPlaces
  <2> QED
    BY <2>1 DEF TypeOK, SessionPlaces
<1>5. SessionShape'
  BY <1>1, <1>2 DEF SessionShape, ThreadsOf, TypeOK
<1>6. ThreadShape'
  BY <1>1, <1>2, <1>3 DEF ThreadShape
<1>7. LiveTrackersStay'
  BY <1>3 DEF LiveTrackersStay, Live, TypeOK
<1>8. ASSUME NEW j \in alive' \ strays' PROVE JobInv(j)'
  <2>1. JobInv(j)
    OBVIOUS
  <2>2. Known(j)'
    BY <1>1, <1>2, <1>3, <2>1 DEF JobInv, Known, BeingStarted
  <2>3. WrittenBack(j)'
    BY <1>1, <1>2, <1>3, <2>1 DEF JobInv, WrittenBack, Rewrites
  <2>4. NotMissed(j)'
    BY <1>3, <2>1 DEF JobInv, NotMissed
  <2>5. KilledBefore(j)'
    BY <1>3, <2>1 DEF JobInv, KilledBefore, TypeOK
  <2>6. Swept(j)'
    <3>1. ASSUME NEW r \in Sessions, j \in Tracked(r) PROVE Exists(r)
      BY <3>1 DEF Tracked, Listed, Readable, Held, Truncating, ThreadsOf, ThreadShape
    <3>2. j \notin ToSet(todo[s])
      BY EmptyQueue DEF SessionShape
    <3>3. j \notin due[s]
      BY <2>1, <3>1, <3>2 DEF JobInv, Swept
    <3>4. /\ spc'[s] = "script"
          /\ \A r \in Sessions \ {s} : spc'[r] = spc[r]
          /\ \A r \in Sessions : spc[r] = "dead" => spc'[r] = "dead"
      BY DEF TypeOK
    <3> HIDE DEF ScriptStarts
    <3>5. UNCHANGED <<todo, seen, due>>
      BY DEF ScriptStarts
    <3> QED
      BY <1>3, <2>1, <3>3, <3>4, <3>5 DEF JobInv, Swept
  <2> QED
    BY <2>2, <2>3, <2>4, <2>5, <2>6 DEF JobInv
<1> QED
  BY <1>4, <1>5, <1>6, <1>7, <1>8

LEMMA ScriptEndsInv ==
  ASSUME TrackerInv, NEW s \in Sessions, ScriptEnds(s)
  PROVE  TrackerInv'
<1> USE TrackerAssumption DEF TrackerInv, ScriptEnds
<1>1. \A c \in Threads : parent[c] = s => /\ cpc[c] \in {"script", "off"}
                                          /\ cpc'[c] = "off"
  BY DEF ThreadsOf
<1>2. \A c \in Threads : parent[c] # s => cpc'[c] = cpc[c]
  OBVIOUS
<1>3. \A r \in Sessions :
         /\ Exists(r)' = Exists(r) /\ Readable(r)' = Readable(r)
         /\ Listed(r)' = Listed(r)
         /\ Held(Truncating(r))' = Held(Truncating(r))
         /\ Tracked(r)' = Tracked(r)
  BY <1>1, <1>2, SameTrackers
<1>4. TypeOK'
  <2>1. cpc' \in [Threads -> ThreadPlaces]
    BY DEF TypeOK, ThreadPlaces
  <2> QED
    BY <2>1 DEF TypeOK, SessionPlaces
<1>5. SessionShape'
  BY <1>1, <1>2 DEF SessionShape, ThreadsOf, TypeOK
<1>6. ThreadShape'
  BY <1>1, <1>2, <1>3 DEF ThreadShape
<1>7. LiveTrackersStay'
  BY <1>3 DEF LiveTrackersStay, Live, TypeOK
<1>8. ASSUME NEW j \in alive' \ strays' PROVE JobInv(j)'
  <2>1. JobInv(j)
    OBVIOUS
  <2>2. Known(j)'
    BY <1>1, <1>2, <1>3, <2>1 DEF JobInv, Known, BeingStarted
  <2>3. WrittenBack(j)'
    BY <1>1, <1>2, <1>3, <2>1 DEF JobInv, WrittenBack, Rewrites
  <2>4. NotMissed(j)'
    BY <1>3, <2>1 DEF JobInv, NotMissed
  <2>5. KilledBefore(j)' /\ Swept(j)'
    BY <1>3, <2>1 DEF JobInv, KilledBefore, Swept, TypeOK
  <2> QED
    BY <2>2, <2>3, <2>4, <2>5 DEF JobInv
<1> QED
  BY <1>4, <1>5, <1>6, <1>7, <1>8

LEMMA InterruptInv ==
  ASSUME TrackerInv, NEW s \in Sessions, Interrupt(s)
  PROVE  TrackerInv'
<1> USE DEF TrackerInv, Interrupt, threadVars
<1>1. TypeOK'
  BY DEF TypeOK, SessionPlaces
<1>2. SessionShape' /\ LiveTrackersStay'
  BY DEF SessionShape, LiveTrackersStay, Live, Exists, ThreadsOf, TypeOK
<1>3. ASSUME NEW j \in alive' \ strays' PROVE JobInv(j)'
  <2>1. \A q \in Sessions : Tracked(q)' = Tracked(q)
    BY OnlySessions
  <2>4. swept[s] \notin Sessions
    BY TrackerAssumption DEF SessionShape
  <2>2. KilledBefore(j)'
    BY <2>1, <2>4 DEF JobInv, KilledBefore, TypeOK
  <2>3. Swept(j)'
    BY <2>1 DEF JobInv, Swept, TypeOK
  <2> QED
    BY <2>2, <2>3, OnlySessions DEF JobInv
<1> QED
  BY <1>1, <1>2, <1>3, OnlySessions

\* A cleanup reads all that its tracker knows.
LEMMA CleanupReadsInv ==
  ASSUME TrackerInv, NEW s \in Sessions, CleanupReads(s)
  PROVE  TrackerInv'
<1> USE DEF TrackerInv, CleanupReads, threadVars
<1>1. ReadAll(s) \in Seq(Jobs)
  BY ReadAllProperties DEF Readable
<1>2. TypeOK'
  BY <1>1 DEF TypeOK, SessionPlaces
<1>3. SessionShape' /\ LiveTrackersStay'
  BY DEF SessionShape, LiveTrackersStay, Live, Exists, ThreadsOf, TypeOK
<1>4. ASSUME NEW j \in alive' \ strays' PROVE JobInv(j)'
  <2>1. JobInv(j) /\ \A q \in Sessions : Tracked(q)' = Tracked(q)
    BY OnlySessions
  <2>2. j \in Tracked(s) => j \in ToSet(ReadAll(s))
    BY <2>1 DEF JobInv, NotMissed, Tracked, Listed
  <2>5. swept[s] \notin Sessions
    BY TrackerAssumption DEF SessionShape
  <2>3. KilledBefore(j)'
    BY <2>1, <2>2, <2>5 DEF JobInv, KilledBefore, TypeOK
  <2>4. Swept(j)'
    BY <2>1 DEF JobInv, Swept, TypeOK
  <2> QED
    BY <2>3, <2>4, OnlySessions DEF JobInv
<1> QED
  BY <1>2, <1>3, <1>4, OnlySessions

\* A session's own tracker goes when no job in it is left, and the session
\* with it.
LEMMA CleanupEnds ==
  ASSUME TrackerInv, NEW s \in Sessions, spc[s] \in {"cleanup", "kill"},
         todo[s] = <<>>, Unlink(s), spc' = [spc EXCEPT ![s] = "dead"],
         UNCHANGED <<todo, swept, seen, due, alive, cpc, pid, list>>,
         strays \subseteq strays',
         \A j \in alive \ strays' : j \notin Tracked(s)
  PROVE  TrackerInv'
<1> USE TrackerAssumption DEF TrackerInv
<1>1. /\ ~Exists(s)' /\ Listed(s)' = {} /\ Tracked(s)' = {}
      /\ \A q \in Sessions \ {s} :
           Exists(q)' = Exists(q) /\ file'[q] = file[q] /\ Tracked(q)' = Tracked(q)
      /\ \A c \in Threads : linked'[c] <=> linked[c] /\ parent[c] # s
  BY Unlinked DEF threadVars
<1>2. spc'[s] = "dead" /\ \A q \in Sessions \ {s} : spc'[q] = spc[q]
  BY DEF TypeOK
<1>3. TypeOK'
  <2>1. file' \in [Sessions -> Files \union {NoFile}] /\ linked' \in [Threads -> BOOLEAN]
    BY DEF TypeOK, Unlink
  <2> QED
    BY <2>1 DEF TypeOK, SessionPlaces
<1>4. SessionShape'
  <2>1. ASSUME NEW q \in Sessions
        PROVE  /\ spc'[q] = "new" => file'[q] = NoFile
               /\ spc'[q] \in {"new", "scan", "sweep"} =>
                    \A c \in ThreadsOf(q) : cpc'[c] = "off"
               /\ spc'[q] \notin {"sweep", "kill"} => todo'[q] = <<>>
               /\ swept'[q] # None <=> spc'[q] = "sweep"
               /\ swept'[q] # None => spc'[swept'[q]] = "dead" /\ swept'[q] \in seen'[q]
    <3>1. swept[q] # None => swept[q] \in Sessions /\ spc[swept[q]] = "dead"
      BY DEF SessionShape, TypeOK
    <3> QED
      BY <1>1, <1>2, <3>1 DEF SessionShape
  <2> QED
    BY <2>1 DEF SessionShape, ThreadsOf
<1>5. ThreadShape'
  BY <1>1 DEF ThreadShape
<1>6. LiveTrackersStay'
  BY <1>1, <1>2 DEF LiveTrackersStay, Live
<1>7. ASSUME NEW j \in alive' \ strays' PROVE JobInv(j)'
  <2>1. JobInv(j) /\ j \notin Tracked(s)
    OBVIOUS
  <2>2. \A q \in Sessions : j \in Tracked(q)' <=> j \in Tracked(q)
    BY <1>1, <2>1
  <2>3. KilledBefore(j)'
    BY <1>2, <2>1, <2>2 DEF JobInv, KilledBefore
  <2>4. Swept(j)'
    BY <1>2, <2>1, <2>2 DEF JobInv, Swept
  <2>5. Known(j)' /\ WrittenBack(j)' /\ NotMissed(j)'
    BY <2>1, NothingLost DEF threadVars
  <2> QED
    BY <2>3, <2>4, <2>5 DEF JobInv
<1> QED
  BY <1>3, <1>4, <1>5, <1>6, <1>7

LEMMA CleanupCannotReadInv ==
  ASSUME TrackerInv, NEW s \in Sessions, CleanupCannotRead(s)
  PROVE  TrackerInv'
<1>1. todo[s] = <<>>
  BY DEF TrackerInv, SessionShape, CleanupCannotRead
<1>2. \A j \in alive \ strays' : j \notin Tracked(s)
  BY DEF CleanupCannotRead, Tracked, Listed
<1> QED
  BY <1>1, <1>2, CleanupEnds DEF CleanupCannotRead, threadVars

LEMMA CleanupUnlinksInv ==
  ASSUME TrackerInv, NEW s \in Sessions, CleanupUnlinks(s)
  PROVE  TrackerInv'
<1>1. ASSUME NEW j \in alive \ strays' PROVE j \notin Tracked(s)
  <2>1. JobInv(j) /\ spc[s] = "kill" /\ todo[s] = <<>>
    BY DEF TrackerInv, CleanupUnlinks
  <2>2. j \notin ToSet(todo[s])
    BY <2>1, EmptyQueue
  <2> QED
    BY <2>1, <2>2 DEF JobInv, KilledBefore
<1> QED
  BY <1>1, CleanupEnds DEF CleanupUnlinks, threadVars

LEMMA CrashInv ==
  ASSUME TrackerInv, NEW s \in Sessions, Crash(s)
  PROVE  TrackerInv'
<1> USE DEF TrackerInv, Crash, threadVars
<1>0. <<>> \in Seq(Jobs)
  OBVIOUS
<1>1. TypeOK'
  BY <1>0 DEF TypeOK, SessionPlaces
<1>2. SessionShape'
  BY DEF SessionShape, ThreadsOf, TypeOK
<1>3. LiveTrackersStay'
  BY DEF LiveTrackersStay, Live, Exists, TypeOK
<1>4. ASSUME NEW j \in alive' \ strays' PROVE JobInv(j)'
  <2>1. \A q \in Sessions : Tracked(q)' = Tracked(q)
    BY OnlySessions
  <2>2. KilledBefore(j)'
    BY <2>1, TrackerAssumption DEF JobInv, KilledBefore, TypeOK
  <2>3. Swept(j)'
    BY <2>1 DEF JobInv, Swept, TypeOK
  <2> QED
    BY <2>2, <2>3, OnlySessions DEF JobInv
<1> QED
  BY <1>1, <1>2, <1>3, <1>4, OnlySessions

-----------------------------------------------------------------------------
(* The steps of the script threads                                         *)

\* A step of one thread that leaves the files.
LEMMA ThreadMoves ==
  ASSUME TrackerInv, NEW c \in Threads, cpc[c] \notin {"off", "flush"},
         cpc'[c] # "flush", UNCHANGED <<file, spc, todo, swept, seen>>,
         \A d \in Threads \ {c} : /\ cpc'[d] = cpc[d] /\ pid'[d] = pid[d]
                                  /\ list'[d] = list[d] /\ linked'[d] = linked[d]
  PROVE  /\ SessionShape' /\ LiveTrackersStay'
         /\ \A s \in Sessions :
              /\ Exists(s)' = Exists(s) /\ Readable(s)' = Readable(s)
              /\ Listed(s)' = Listed(s)
              /\ Held(Truncating(s))' = Held(Truncating(s))
              /\ Tracked(s)' = Tracked(s)
         /\ \A j : JobInv(j) => NotMissed(j)'
<1>1. \A s \in Sessions :
         /\ Exists(s)' = Exists(s) /\ Readable(s)' = Readable(s)
         /\ Listed(s)' = Listed(s)
         /\ Held(Truncating(s))' = Held(Truncating(s))
         /\ Tracked(s)' = Tracked(s)
  BY SameTrackers
<1>2. SessionShape'
  BY TrackerAssumption DEF TrackerInv, SessionShape, ThreadsOf
<1>3. LiveTrackersStay'
  BY <1>1 DEF TrackerInv, LiveTrackersStay, Live
<1>4. \A j : JobInv(j) => NotMissed(j)'
  BY <1>1 DEF JobInv, NotMissed
<1> QED
  BY <1>1, <1>2, <1>3, <1>4

\* A thread that does not begin to rewrite, and takes no start back.
LEMMA JobStays ==
  ASSUME TrackerInv, NEW c \in Threads, NEW j, JobInv(j),
         \A s \in Sessions : j \in Tracked(s)' <=> j \in Tracked(s),
         ~Rewrites(c)',
         cpc[c] \in {"add", "append"} /\ pid[c] = j =>
           cpc'[c] \in {"add", "append"} /\ pid'[c] = j,
         \A d \in Threads \ {c} : /\ cpc'[d] = cpc[d] /\ pid'[d] = pid[d]
                                  /\ list'[d] = list[d] /\ linked'[d] = linked[d]
  PROVE  Known(j)' /\ WrittenBack(j)'
<1>1. Known(j)'
  BY DEF JobInv, Known, BeingStarted
<1>2. WrittenBack(j)'
  BY TrackerAssumption DEF JobInv, WrittenBack, Rewrites
<1> QED
  BY <1>1, <1>2

\* The pid of a process that was just forked is nowhere yet.
LEMMA StartForksInv ==
  ASSUME TrackerInv, NEW c \in Threads, NEW i \in Jobs, StartForks(c, i)
  PROVE  TrackerInv'
<1> USE TrackerAssumption DEF TrackerInv
<1>1. /\ cpc[c] = "script" /\ cpc'[c] = "add" /\ pid'[c] = i
      /\ \A d \in Threads \ {c} : cpc'[d] = cpc[d] /\ pid'[d] = pid[d]
      /\ UNCHANGED <<spc, todo, swept, seen, file, list, linked>>
      /\ i \notin alive /\ alive' = alive \union {i} /\ strays' = strays \ {i}
      /\ \A s \in Sessions : due'[s] = due[s] \ {i}
  BY DEF StartForks, TypeOK
<1>2. /\ SessionShape' /\ LiveTrackersStay'
      /\ \A s \in Sessions : Exists(s)' = Exists(s) /\ Tracked(s)' = Tracked(s)
      /\ \A j : JobInv(j) => NotMissed(j)'
  BY <1>1, ThreadMoves
<1>3. /\ \A s \in Sessions : /\ Exists(s) => i \notin ToSet(file[s].lines)
                             /\ i \notin ToSet(todo[s])
      /\ \A d \in Threads : i # pid[d] /\ i \notin ToSet(list[d])
  BY DEF StartForks, Named
<1>4. ASSUME NEW s \in Sessions PROVE i \notin Tracked(s)
  <2>1. i \notin Listed(s)
    BY <1>3, ReadAllProperties DEF Listed, Readable
  <2>2. i \notin Held(Truncating(s))
    BY <1>3 DEF Held, Truncating, ThreadsOf
  <2> QED
    BY <2>1, <2>2 DEF Tracked
<1>5. TypeOK'
  BY DEF StartForks, TypeOK, ThreadPlaces
<1>6. ThreadShape'
  BY <1>1, <1>2, <1>3 DEF ThreadShape
<1>7. ASSUME NEW j \in alive' \ strays' PROVE JobInv(j)'
  <2>1. CASE j # i
    <3>1. JobInv(j)
      BY <1>1, <2>1
    <3>2. Known(j)' /\ WrittenBack(j)'
      BY <1>1, <1>2, <3>1, JobStays DEF Rewrites
    <3>3. KilledBefore(j)' /\ Swept(j)'
      BY <1>1, <1>2, <2>1, <3>1 DEF JobInv, KilledBefore, Swept
    <3> QED
      BY <1>2, <3>1, <3>2, <3>3 DEF JobInv
  <2>2. CASE j = i
    <3>1. Known(i)'
      BY <1>1 DEF Known, BeingStarted
    <3>2. WrittenBack(i)'
      BY <1>1, <1>2, <1>3, <1>4 DEF WrittenBack
    <3>3. NotMissed(i)'
      <4>1. \A s \in Sessions : i \notin Held(Truncating(s))'
        BY <1>1, <1>3 DEF Held, Truncating, ThreadsOf
      <4> QED
        BY <1>1, <1>2, <1>3, <4>1 DEF NotMissed
    <3>4. KilledBefore(i)' /\ Swept(i)'
      BY <1>1, <1>2, <1>4 DEF KilledBefore, Swept
    <3> QED
      BY <2>2, <3>1, <3>2, <3>3, <3>4 DEF JobInv
  <2> QED
    BY <2>1, <2>2
<1> QED
  BY <1>2, <1>5, <1>6, <1>7

LEMMA AddOpensInv ==
  ASSUME TrackerInv, NEW c \in Threads, AddOpens(c)
  PROVE  TrackerInv'
<1> USE DEF TrackerInv
<1>1. /\ cpc[c] = "add" /\ cpc'[c] = "append" /\ linked'[c] /\ Exists(parent[c])
      /\ \A d \in Threads \ {c} : cpc'[d] = cpc[d] /\ linked'[d] = linked[d]
      /\ UNCHANGED <<sessionVars, file, alive, pid, list, strays>>
  BY DEF AddOpens, TypeOK
<1>2. /\ SessionShape' /\ LiveTrackersStay'
      /\ \A s \in Sessions : Exists(s)' = Exists(s) /\ Tracked(s)' = Tracked(s)
      /\ \A j : JobInv(j) => NotMissed(j)'
  BY <1>1, ThreadMoves DEF sessionVars
<1>3. TypeOK'
  BY DEF AddOpens, TypeOK, ThreadPlaces, sessionVars
<1>4. ThreadShape'
  BY <1>1, <1>2, TrackerAssumption DEF ThreadShape
<1>5. ASSUME NEW j \in alive' \ strays' PROVE JobInv(j)'
  <2>1. JobInv(j)
    BY <1>1
  <2>2. Known(j)' /\ WrittenBack(j)'
    BY <1>1, <1>2, <2>1, JobStays DEF Rewrites
  <2> QED
    BY <1>1, <1>2, <2>1, <2>2, OnlyThreads DEF JobInv
<1> QED
  BY <1>2, <1>3, <1>4, <1>5

LEMMA AddFailsInv ==
  ASSUME TrackerInv, NEW c \in Threads, AddFails(c)
  PROVE  TrackerInv'
<1> USE DEF TrackerInv
<1>1. /\ cpc[c] = "add" /\ cpc'[c] = "script" /\ alive' = alive \ {pid[c]}
      /\ \A d \in Threads \ {c} : cpc'[d] = cpc[d] /\ pid'[d] = pid[d]
      /\ UNCHANGED <<sessionVars, file, list, linked, strays>>
  BY DEF AddFails, Kill, TypeOK
<1>2. /\ SessionShape' /\ LiveTrackersStay'
      /\ \A s \in Sessions : Exists(s)' = Exists(s) /\ Tracked(s)' = Tracked(s)
      /\ \A j : JobInv(j) => NotMissed(j)'
  BY <1>1, ThreadMoves DEF sessionVars
<1>3. TypeOK'
  BY DEF AddFails, Kill, TypeOK, ThreadPlaces, sessionVars
<1>4. ThreadShape'
  BY <1>1, <1>2, TrackerAssumption DEF ThreadShape
<1>5. ASSUME NEW j \in alive' \ strays' PROVE JobInv(j)'
  <2>1. JobInv(j) /\ j # pid[c]
    BY <1>1
  <2>2. Known(j)' /\ WrittenBack(j)'
    BY <1>1, <1>2, <2>1, JobStays DEF Rewrites
  <2> QED
    BY <1>1, <1>2, <2>1, <2>2, OnlyThreads DEF JobInv
<1> QED
  BY <1>2, <1>3, <1>4, <1>5

LEMMA StopKillsInv ==
  ASSUME TrackerInv, NEW c \in Threads, NEW i \in Jobs, StopKills(c, i)
  PROVE  TrackerInv'
<1> USE DEF TrackerInv
<1>1. /\ cpc[c] = "script" /\ cpc'[c] = "remove" /\ alive' = alive \ {i}
      /\ pid'[c] = i
      /\ \A d \in Threads \ {c} : cpc'[d] = cpc[d] /\ pid'[d] = pid[d]
      /\ UNCHANGED <<sessionVars, file, list, linked, strays>>
  BY DEF StopKills, Kill, TypeOK
<1>2. /\ SessionShape' /\ LiveTrackersStay'
      /\ \A s \in Sessions : Exists(s)' = Exists(s) /\ Tracked(s)' = Tracked(s)
      /\ \A j : JobInv(j) => NotMissed(j)'
  BY <1>1, ThreadMoves DEF sessionVars
<1>3. TypeOK'
  BY DEF StopKills, Kill, TypeOK, ThreadPlaces, sessionVars
<1>4. ThreadShape'
  BY <1>1, <1>2, TrackerAssumption DEF ThreadShape
<1>5. ASSUME NEW j \in alive' \ strays' PROVE JobInv(j)'
  <2>1. JobInv(j)
    BY <1>1
  <2>2. Known(j)' /\ WrittenBack(j)'
    BY <1>1, <1>2, <2>1, JobStays DEF Rewrites
  <2> QED
    BY <1>1, <1>2, <2>1, <2>2, OnlyThreads DEF JobInv
<1> QED
  BY <1>2, <1>3, <1>4, <1>5

\* A Remove reads all that the tracker knows.
LEMMA RemoveReadsInv ==
  ASSUME TrackerInv, NEW c \in Threads, RemoveReads(c)
  PROVE  TrackerInv'
<1> USE TrackerAssumption DEF TrackerInv
<1>1. /\ cpc[c] = "remove" /\ cpc'[c] = "trunc" /\ Readable(parent[c])
      /\ list'[c] = ReadAll(parent[c])
      /\ \A d \in Threads \ {c} : cpc'[d] = cpc[d] /\ list'[d] = list[d]
      /\ UNCHANGED <<sessionVars, file, alive, pid, linked, strays>>
  BY DEF RemoveReads, TypeOK
<1>2. /\ SessionShape' /\ LiveTrackersStay'
      /\ \A s \in Sessions : Exists(s)' = Exists(s) /\ Tracked(s)' = Tracked(s)
      /\ \A j : JobInv(j) => NotMissed(j)'
  BY <1>1, ThreadMoves DEF sessionVars
<1>3. ReadAll(parent[c]) \in Seq(Jobs) /\ Len(ReadAll(parent[c])) <= MaxProcesses
  BY <1>1, ReadAllProperties DEF Readable
<1>4. TypeOK'
  BY <1>3 DEF RemoveReads, TypeOK, ThreadPlaces, sessionVars
<1>5. ThreadShape'
  BY <1>1, <1>2, <1>3 DEF ThreadShape
<1>6. ASSUME NEW j \in alive' \ strays' PROVE JobInv(j)'
  <2>1. JobInv(j)
    BY <1>1
  <2>2. Known(j)'
    BY <1>1, <1>2, <2>1 DEF JobInv, Known, BeingStarted
  <2>3. j \in Tracked(parent[c]) <=> j \in ToSet(ReadAll(parent[c]))
    BY <1>1, <2>1 DEF JobInv, NotMissed, Tracked, Listed
  <2>4. WrittenBack(j)'
    BY <1>1, <1>2, <2>1, <2>3 DEF JobInv, WrittenBack, Rewrites
  <2> QED
    BY <1>1, <1>2, <2>1, <2>2, <2>4, OnlyThreads DEF JobInv
<1> QED
  BY <1>2, <1>4, <1>5, <1>6

LEMMA RemoveCannotReadInv ==
  ASSUME TrackerInv, NEW c \in Threads, RemoveCannotRead(c)
  PROVE  TrackerInv'
<1> USE DEF TrackerInv
<1>1. /\ cpc[c] = "remove" /\ cpc'[c] = "script"
      /\ \A d \in Threads \ {c} : cpc'[d] = cpc[d] /\ pid'[d] = pid[d]
      /\ UNCHANGED <<sessionVars, file, alive, list, linked, strays>>
  BY DEF RemoveCannotRead, TypeOK
<1>2. /\ SessionShape' /\ LiveTrackersStay'
      /\ \A s \in Sessions : Exists(s)' = Exists(s) /\ Tracked(s)' = Tracked(s)
      /\ \A j : JobInv(j) => NotMissed(j)'
  BY <1>1, ThreadMoves DEF sessionVars
<1>3. TypeOK'
  BY DEF RemoveCannotRead, TypeOK, ThreadPlaces, sessionVars
<1>4. ThreadShape'
  BY <1>1, <1>2, TrackerAssumption DEF ThreadShape
<1>5. ASSUME NEW j \in alive' \ strays' PROVE JobInv(j)'
  <2>1. JobInv(j)
    BY <1>1
  <2>2. Known(j)' /\ WrittenBack(j)'
    BY <1>1, <1>2, <2>1, JobStays DEF Rewrites
  <2> QED
    BY <1>1, <1>2, <2>1, <2>2, OnlyThreads DEF JobInv
<1> QED
  BY <1>2, <1>3, <1>4, <1>5

\* A step of thread c that changes the tracker of its session and no other.
LEMMA OtherTrackers ==
  ASSUME TrackerInv, NEW c \in Threads,
         \A s \in Sessions \ {parent[c]} : file'[s] = file[s],
         \A d \in Threads \ {c} : /\ cpc'[d] = cpc[d] /\ list'[d] = list[d]
                                  /\ linked'[d] = linked[d]
  PROVE  \A s \in Sessions \ {parent[c]} :
           /\ Exists(s)' = Exists(s) /\ Readable(s)' = Readable(s)
           /\ Listed(s)' = Listed(s)
           /\ Held(Truncating(s))' = Held(Truncating(s))
           /\ Tracked(s)' = Tracked(s)
<1> SUFFICES ASSUME NEW s \in Sessions \ {parent[c]}
             PROVE  /\ Exists(s)' = Exists(s) /\ Readable(s)' = Readable(s)
                    /\ Listed(s)' = Listed(s)
                    /\ Held(Truncating(s))' = Held(Truncating(s))
  BY DEF Tracked
<1>1. Exists(s)' = Exists(s) /\ Readable(s)' = Readable(s)
  BY DEF Exists, Readable
<1>2. Listed(s)' = Listed(s)
  BY <1>1 DEF Listed, ReadAll
<1>3. Held(Truncating(s))' = Held(Truncating(s))
  BY DEF Held, Truncating, ThreadsOf
<1> QED
  BY <1>1, <1>2, <1>3

\* A process whose start is recorded without a race is in the tracker.
LEMMA AddAppendsInv ==
  ASSUME TrackerInv, NEW c \in Threads, AddAppends(c)
  PROVE  TrackerInv'
<1> USE TrackerAssumption DEF TrackerInv
<1>1. PICK s \in Sessions, i \in Jobs : s = parent[c] /\ i = pid[c]
  BY DEF AddAppends, TypeOK, ThreadShape
<1>2. /\ cpc[c] = "append" /\ cpc'[c] = "script" /\ linked'[c] = FALSE
      /\ \A d \in Threads \ {c} : /\ cpc'[d] = cpc[d] /\ pid'[d] = pid[d]
                                  /\ linked'[d] = linked[d]
      /\ UNCHANGED <<sessionVars, alive, list>>
      /\ strays \subseteq strays'
  BY DEF AddAppends, TypeOK
<1>3. \/ i \in strays'
      \/ /\ linked[c] /\ file[s].header /\ Removing(s) = {} /\ ~BeingKilled(s)
         /\ ~(Len(file[s].lines) >= MaxProcesses)
  BY <1>1 DEF AddAppends
<1>4. CASE ~linked[c]
  <2>1. i \in strays' /\ file' = file
    BY <1>1, <1>4 DEF AddAppends
  <2>2. /\ SessionShape' /\ LiveTrackersStay'
        /\ \A r \in Sessions : Exists(r)' = Exists(r) /\ Tracked(r)' = Tracked(r)
        /\ \A j : JobInv(j) => NotMissed(j)'
    BY <1>2, <2>1, ThreadMoves DEF sessionVars
  <2>3. TypeOK'
    BY <2>1 DEF AddAppends, TypeOK, ThreadPlaces, sessionVars
  <2>4. ThreadShape'
    BY <1>2, <2>2 DEF ThreadShape
  <2>5. ASSUME NEW j \in alive' \ strays' PROVE JobInv(j)'
    <3>1. JobInv(j) /\ j # pid[c]
      BY <1>1, <1>2, <2>1
    <3>2. Known(j)' /\ WrittenBack(j)'
      BY <1>2, <2>2, <3>1, JobStays DEF Rewrites
    <3> QED
      BY <1>2, <2>2, <3>1, <3>2, OnlyThreads DEF JobInv
  <2> QED
    BY <2>2, <2>3, <2>4, <2>5
<1>5. CASE linked[c]
  <2> DEFINE old == file[s].lines
             new == Append(old, i)
             Read(l) == ToSet(SubSeq(l, 1, Min({MaxProcesses, Len(l)})))
  <2>1. Exists(s) /\ file[s] \in Files /\ old \in Seq(Jobs)
    <3>1. Exists(s)
      BY <1>1, <1>5 DEF ThreadShape
    <3>2. file[s] \in Files
      BY <3>1, ReadAllProperties
    <3> QED
      BY <3>1, <3>2 DEF Files
  <2>2. /\ new \in Seq(Jobs) /\ ToSet(new) = ToSet(old) \union {i}
        /\ Len(old) \in Nat
    BY <2>1, PushQueue, LenProperties
  <2>3. /\ Read(old) \subseteq Read(new)
        /\ Read(new) \subseteq Read(old) \union {i}
        /\ Len(old) < MaxProcesses => i \in Read(new)
    BY <2>1, ReadAppended
  <2>4. /\ file'[s].lines = new /\ file'[s].header = file[s].header
        /\ file'[s] \in Files
        /\ \A r \in Sessions \ {s} : file'[r] = file[r]
        /\ file' \in [Sessions -> Files \union {NoFile}]
    <3>1. file' = [file EXCEPT ![s] = [file[s] EXCEPT !.lines = new]]
      BY <1>1, <1>5 DEF AddAppends
    <3>2. /\ [file[s] EXCEPT !.lines = new] \in Files
          /\ [file[s] EXCEPT !.lines = new].lines = new
          /\ [file[s] EXCEPT !.lines = new].header = file[s].header
      <4> HIDE DEF new
      <4> QED
        BY <2>1, <2>2 DEF Files
    <3> HIDE DEF new
    <3> QED
      BY <3>1, <3>2 DEF TypeOK
  <2>5. Exists(s)' /\ Readable(s)' = Readable(s)
    BY <2>1, <2>4 DEF Exists, Readable
  <2>6. /\ ToSet(ReadAll(s)) = Read(old)
        /\ ToSet(ReadAll(s))' = Read(new)
    <3>1. ToSet(ReadAll(s))' = Read(file'[s].lines)
      BY DEF ReadAll
    <3> HIDE DEF Read
    <3>2. ToSet(ReadAll(s))' = Read(new)
      BY <2>4, <3>1
    <3> QED
      BY <3>2 DEF ReadAll, Read
  <2> HIDE DEF new, old, Read
  <2>7. /\ Listed(s) \subseteq Listed(s)' /\ Listed(s)' \subseteq Listed(s) \union {i}
        /\ Readable(s) /\ Len(old) < MaxProcesses => i \in Listed(s)'
    BY <2>3, <2>5, <2>6 DEF Listed
  <2>8. Held(Truncating(s))' = Held(Truncating(s))
    BY <1>1, <1>2 DEF Held, Truncating, ThreadsOf
  <2>9. \A r \in Sessions \ {s} :
           /\ Exists(r)' = Exists(r) /\ Readable(r)' = Readable(r)
           /\ Listed(r)' = Listed(r)
           /\ Held(Truncating(r))' = Held(Truncating(r))
           /\ Tracked(r)' = Tracked(r)
    BY <1>1, <1>2, <2>4, OtherTrackers
  <2>10. TypeOK'
    BY <2>4 DEF AddAppends, TypeOK, ThreadPlaces, sessionVars
  <2>11. SessionShape' /\ LiveTrackersStay'
    <3>1. spc[s] \notin {"new", "scan", "sweep"}
      BY <1>1, <1>2 DEF SessionShape, ThreadsOf
    <3> QED
      BY <1>1, <1>2, <2>4, <2>5, <2>9, <3>1
         DEF SessionShape, ThreadsOf, LiveTrackersStay, Live, sessionVars
  <2>12. ThreadShape'
    BY <1>1, <1>2, <2>5, <2>9 DEF ThreadShape
  <2>13. ASSUME NEW j \in alive' \ strays' PROVE JobInv(j)'
    <3>1. JobInv(j)
      BY <1>2
    <3>2. CASE j # i
      <4>1. \A r \in Sessions : j \in Tracked(r)' <=> j \in Tracked(r)
        BY <2>7, <2>8, <2>9, <3>2 DEF Tracked
      <4>2. Known(j)' /\ WrittenBack(j)'
        BY <1>1, <1>2, <3>1, <3>2, <4>1, JobStays DEF Rewrites
      <4>3. NotMissed(j)'
        BY <2>1, <2>2, <2>4, <2>5, <2>7, <2>8, <2>9, <3>1, <3>2
           DEF JobInv, NotMissed, old
      <4> QED
        BY <1>2, <3>1, <4>1, <4>2, <4>3, OnlyThreads DEF JobInv
    <3>3. CASE j = i
      <4>1. /\ Readable(s) /\ Removing(s) = {} /\ ~BeingKilled(s)
            /\ i \in Listed(s)'
        BY <1>3, <2>1, <2>2, <2>7, <3>3 DEF Readable, old
      <4>2. /\ i \in Tracked(s)'
            /\ \A r \in Sessions : i \in Tracked(r) => i \in Tracked(r)'
            /\ \A r \in Sessions \ {s} : Tracked(r)' = Tracked(r)
        BY <2>7, <2>8, <2>9, <4>1 DEF Tracked
      <4>3. Known(i)'
        BY <4>2 DEF Known
      <4>4. WrittenBack(i)'
        <5> SUFFICES ASSUME NEW d \in Threads, Rewrites(d)'
                     PROVE  i \in Tracked(parent[d])' <=> i \in ToSet(list[d])
          BY <1>2 DEF WrittenBack
        <5>1. d # c /\ Rewrites(d)
          BY <1>2 DEF Rewrites
        <5>2. parent[d] # s
          BY <4>1, <5>1 DEF Removing, ThreadsOf, Rewrites
        <5> QED
          BY <3>1, <3>3, <4>2, <5>1, <5>2 DEF JobInv, WrittenBack
      <4>5. NotMissed(i)'
        BY <2>4, <2>9, <3>1, <3>3, <4>1 DEF JobInv, NotMissed
      <4>6. KilledBefore(i)'
        BY <1>2, <3>1, <3>3, <4>1, <4>2
           DEF JobInv, KilledBefore, BeingKilled, sessionVars
      <4>7. Swept(i)'
        BY <1>2, <3>1, <3>3, <4>2 DEF JobInv, Swept, sessionVars
      <4> QED
        BY <3>3, <4>3, <4>4, <4>5, <4>6, <4>7 DEF JobInv
    <3> QED
      BY <3>2, <3>3
  <2> QED
    BY <2>10, <2>11, <2>12, <2>13
<1> QED
  BY <1>4, <1>5

\* What the tracker had is in the list of the Remove that truncates it.
LEMMA RemoveTruncatesInv ==
  ASSUME TrackerInv, NEW c \in Threads, RemoveTruncates(c)
  PROVE  TrackerInv'
<1> USE TrackerAssumption DEF TrackerInv
<1>1. PICK s \in Sessions : s = parent[c]
  OBVIOUS
<1>2. /\ cpc[c] = "trunc" /\ cpc'[c] = "flush" /\ linked'[c] = TRUE
      /\ \A d \in Threads \ {c} : cpc'[d] = cpc[d] /\ linked'[d] = linked[d]
      /\ UNCHANGED <<sessionVars, alive, pid, list, strays>>
      /\ file'[s] = EmptyFile
      /\ \A r \in Sessions \ {s} : file'[r] = file[r]
  BY <1>1 DEF RemoveTruncates, TypeOK
<1>3. /\ EmptyFile \in Files /\ EmptyFile # NoFile
      /\ ToSet(EmptyFile.lines) = {} /\ ~EmptyFile.header
  <2>1. EmptyFile.lines = <<>> /\ ~EmptyFile.header /\ EmptyFile \in Files
    BY DEF EmptyFile, Files
  <2> QED
    BY <2>1, EmptyQueue
<1>4. Exists(s)' /\ ~Readable(s)' /\ Listed(s)' = {}
  BY <1>2, <1>3 DEF Exists, Readable, Listed
<1>5. Held(Truncating(s))' = Held(Truncating(s)) \union ToSet(list[c])
  <2>1. Truncating(s)' = Truncating(s) \union {c}
    BY <1>1, <1>2 DEF Truncating, ThreadsOf
  <2> QED
    BY <1>2, <2>1 DEF Held
<1>6. \A r \in Sessions \ {s} :
         /\ Exists(r)' = Exists(r) /\ Readable(r)' = Readable(r)
         /\ Listed(r)' = Listed(r)
         /\ Held(Truncating(r))' = Held(Truncating(r))
         /\ Tracked(r)' = Tracked(r)
  BY <1>1, <1>2, OtherTrackers
<1>7. TypeOK'
  BY <1>3 DEF RemoveTruncates, TypeOK, ThreadPlaces, sessionVars
<1>8. SessionShape' /\ LiveTrackersStay'
  <2>1. spc[s] \notin {"new", "scan", "sweep"}
    BY <1>1, <1>2 DEF SessionShape, ThreadsOf
  <2> QED
    BY <1>1, <1>2, <1>4, <1>6, <2>1
       DEF SessionShape, ThreadsOf, LiveTrackersStay, Live, sessionVars
<1>9. ThreadShape'
  BY <1>1, <1>2, <1>4, <1>6 DEF ThreadShape
<1>10. ASSUME NEW j \in alive' \ strays' PROVE JobInv(j)'
  <2>1. JobInv(j)
    BY <1>2
  <2>2. j \in Tracked(s) <=> j \in ToSet(list[c])
    BY <1>1, <1>2, <2>1 DEF JobInv, WrittenBack, Rewrites
  <2>3. \A r \in Sessions : j \in Tracked(r)' <=> j \in Tracked(r)
    BY <1>4, <1>5, <1>6, <2>2 DEF Tracked
  <2>4. Known(j)'
    BY <1>2, <2>1, <2>3 DEF JobInv, Known, BeingStarted
  <2>5. WrittenBack(j)'
    BY <1>1, <1>2, <2>1, <2>2, <2>3 DEF JobInv, WrittenBack, Rewrites
  <2>6. NotMissed(j)'
    BY <1>2, <1>3, <1>4, <1>6, <2>1 DEF JobInv, NotMissed
  <2> QED
    BY <1>2, <2>1, <2>3, <2>4, <2>5, <2>6, OnlyThreads DEF JobInv
<1> QED
  BY <1>7, <1>8, <1>9, <1>10

\* What a Remove writes back is all that the tracker knew, but the process it
\* has stopped.
LEMMA RemoveFlushesInv ==
  ASSUME TrackerInv, NEW c \in Threads, RemoveFlushes(c)
  PROVE  TrackerInv'
<1> USE TrackerAssumption DEF TrackerInv
<1>1. PICK s \in Sessions : s = parent[c]
  OBVIOUS
<1>2. /\ cpc[c] = "flush" /\ cpc'[c] = "script" /\ linked'[c] = FALSE
      /\ \A d \in Threads \ {c} : /\ cpc'[d] = cpc[d] /\ linked'[d] = linked[d]
                                  /\ pid'[d] = pid[d] /\ list'[d] = list[d]
      /\ list'[c] = <<>>
      /\ UNCHANGED <<sessionVars, alive, strays>>
      /\ cpc' \in [Threads -> ThreadPlaces] /\ pid' \in [Threads -> Jobs \union {None}]
      /\ list' \in [Threads -> Seq(Jobs)] /\ linked' \in [Threads -> BOOLEAN]
  BY DEF RemoveFlushes, TypeOK, ThreadPlaces
<1>3. Len(<<>>) <= MaxProcesses
  OBVIOUS
<1>4. spc[s] \notin {"new", "scan", "sweep"}
  BY <1>1, <1>2 DEF SessionShape, ThreadsOf
<1>5. CASE ~linked[c]
  <2>1. file' = file
    BY <1>5 DEF RemoveFlushes
  <2>2. \A r \in Sessions :
           /\ Exists(r)' = Exists(r) /\ Readable(r)' = Readable(r)
           /\ Listed(r)' = Listed(r)
           /\ Held(Truncating(r))' = Held(Truncating(r))
           /\ Tracked(r)' = Tracked(r)
    <3>1. ASSUME NEW r \in Sessions
          PROVE  Held(Truncating(r))' = Held(Truncating(r))
      <4>1. Truncating(r)' = Truncating(r) /\ c \notin Truncating(r)
        BY <1>2, <1>5 DEF Truncating, ThreadsOf
      <4>2. \A d \in Truncating(r) : list'[d] = list[d]
        BY <1>2, <4>1 DEF Truncating, ThreadsOf
      <4> QED
        BY <4>1, <4>2 DEF Held
    <3>2. \A r \in Sessions : /\ Exists(r)' = Exists(r) /\ Readable(r)' = Readable(r)
                              /\ Listed(r)' = Listed(r)
      BY <2>1 DEF Exists, Readable, Listed, ReadAll
    <3> QED
      BY <3>1, <3>2 DEF Tracked
  <2>3. TypeOK'
    BY <1>2, <2>1 DEF TypeOK, sessionVars
  <2>4. SessionShape' /\ LiveTrackersStay'
    <3>1. SessionShape'
      BY <1>1, <1>2, <1>4, <2>1 DEF SessionShape, ThreadsOf, sessionVars
    <3> QED
      BY <1>2, <2>2, <3>1 DEF LiveTrackersStay, Live, sessionVars
  <2>5. ThreadShape'
    BY <1>2, <1>3, <2>2 DEF ThreadShape
  <2>6. ASSUME NEW j \in alive' \ strays' PROVE JobInv(j)'
    <3>1. JobInv(j)
      BY <1>2
    <3>2. Known(j)' /\ WrittenBack(j)'
      BY <1>2, <2>2, <3>1, JobStays DEF Rewrites
    <3>3. NotMissed(j)'
      BY <2>1, <2>2, <3>1 DEF JobInv, NotMissed
    <3> QED
      BY <1>2, <2>2, <3>1, <3>2, <3>3, OnlyThreads DEF JobInv
  <2> QED
    BY <2>3, <2>4, <2>5, <2>6
<1>6. CASE linked[c]
  <2> DEFINE kept == Without(list[c], pid[c])
             old == AfterFirstLine(s)
             over == Overwrite(kept, old)
             Read(l) == ToSet(SubSeq(l, 1, Min({MaxProcesses, Len(l)})))
  <2>1. Exists(s) /\ file[s] \in Files /\ old \in Seq(Jobs)
        /\ ToSet(old) \subseteq ToSet(file[s].lines)
    <3>1. Exists(s)
      BY <1>1, <1>6 DEF ThreadShape
    <3>2. file[s] \in Files
      BY <3>1, ReadAllProperties
    <3>3. file[s].lines \in Seq(Jobs)
      BY <3>2 DEF Files
    <3>4. CASE file[s].header \/ file[s].lines = <<>>
      BY <3>1, <3>2, <3>3, <3>4 DEF AfterFirstLine
    <3>5. CASE ~(file[s].header \/ file[s].lines = <<>>)
      <4>1. old = Tail(file[s].lines)
        BY <3>5 DEF AfterFirstLine
      <4> QED
        BY <3>1, <3>2, <3>3, <3>5, <4>1, HeadAndTail
    <3> QED
      BY <3>4, <3>5
  <2>2. /\ kept \in Seq(Jobs) /\ ToSet(kept) = ToSet(list[c]) \ {pid[c]}
        /\ Len(kept) <= MaxProcesses
    <3>1. list[c] \in Seq(Jobs) /\ Len(list[c]) <= MaxProcesses /\ Len(list[c]) \in Nat
      BY LenProperties DEF TypeOK, ThreadShape
    <3>2. /\ kept \in Seq(Jobs) /\ ToSet(kept) = ToSet(list[c]) \ {pid[c]}
          /\ Len(kept) <= Len(list[c])
      BY <3>1, WithoutProperties
    <3>3. Len(kept) \in Nat
      BY <3>2, LenProperties
    <3> HIDE DEF kept
    <3> QED
      BY <3>1, <3>2, <3>3
  <2>3. file' = [file EXCEPT ![s] = FileWith(over)]
    BY <1>1, <1>6 DEF RemoveFlushes
  <2> HIDE DEF kept, old
  <2>4. /\ over \in Seq(Jobs)
        /\ ToSet(over) \subseteq ToSet(kept) \union ToSet(old)
        /\ ToSet(kept) \subseteq Read(over)
        /\ Read(over) \subseteq ToSet(over)
    BY <2>1, <2>2, ReadOverwritten
  <2> HIDE DEF over
  <2>5. FileWith(over) \in Files /\ FileWith(over).lines = over /\ FileWith(over).header
    BY <2>4 DEF FileWith, Files
  <2>6. /\ file'[s] = FileWith(over) /\ \A r \in Sessions \ {s} : file'[r] = file[r]
        /\ file' \in [Sessions -> Files \union {NoFile}]
    BY <2>3, <2>5 DEF TypeOK
  <2>7. Exists(s)' /\ Readable(s)' /\ file'[s].lines = over
    BY <2>5, <2>6 DEF Exists, Readable
  <2>8. Listed(s)' = Read(over)
    <3>1. ToSet(ReadAll(s))' = Read(file'[s].lines)
      BY DEF ReadAll
    <3> HIDE DEF Read
    <3> QED
      BY <2>7, <3>1 DEF Listed
  <2> HIDE DEF Read
  <2>9. Held(Truncating(s))' \subseteq Held(Truncating(s))
    <3>1. Truncating(s)' = Truncating(s) \ {c}
      BY <1>2 DEF Truncating, ThreadsOf
    <3>2. \A d \in Truncating(s)' : list'[d] = list[d]
      BY <1>2, <3>1 DEF Truncating, ThreadsOf
    <3> QED
      BY <3>1, <3>2 DEF Held
  <2>10. \A r \in Sessions \ {s} :
           /\ Exists(r)' = Exists(r) /\ Readable(r)' = Readable(r)
           /\ Listed(r)' = Listed(r)
           /\ Held(Truncating(r))' = Held(Truncating(r))
           /\ Tracked(r)' = Tracked(r)
    BY <1>1, <1>2, <2>6, OtherTrackers
  <2>11. TypeOK'
    BY <1>2, <2>6 DEF TypeOK, sessionVars
  <2>12. SessionShape' /\ LiveTrackersStay'
    <3>1. \A r \in Sessions : spc[r] = "new" => file'[r] = file[r]
      BY <1>4, <2>6
    <3>2. \A r \in Sessions : spc[r] \in {"new", "scan", "sweep"} =>
             \A d \in ThreadsOf(r) : cpc'[d] = cpc[d]
      BY <1>1, <1>2, <1>4 DEF ThreadsOf
    <3>3. UNCHANGED <<spc, todo, swept, seen>>
      BY <1>2 DEF sessionVars
    <3>4. SessionShape'
      BY <3>1, <3>2, <3>3 DEF SessionShape, ThreadsOf
    <3> QED
      BY <1>2, <2>7, <2>10, <3>4 DEF LiveTrackersStay, Live, sessionVars
  <2>13. ThreadShape'
    BY <1>1, <1>2, <1>3, <2>7, <2>10 DEF ThreadShape
  <2>14. ASSUME NEW j \in alive' \ strays' PROVE JobInv(j)'
    <3>1. JobInv(j) /\ j # pid[c]
      BY <1>2 DEF ThreadShape
    <3>2. j \in Tracked(s) <=> j \in ToSet(list[c])
      BY <1>1, <1>2, <1>6, <3>1 DEF JobInv, WrittenBack, Rewrites
    <3>3. j \in ToSet(over) => j \in Tracked(s)
      BY <2>1, <2>2, <2>4, <3>1, <3>2 DEF JobInv, NotMissed, Tracked
    <3>4. j \in Listed(s)' <=> j \in Tracked(s)
      BY <2>2, <2>4, <2>8, <3>1, <3>2, <3>3
    <3>5. \A r \in Sessions : j \in Tracked(r)' <=> j \in Tracked(r)
      BY <2>9, <2>10, <3>4 DEF Tracked
    <3>6. Known(j)' /\ WrittenBack(j)'
      BY <1>2, <3>1, <3>5, JobStays DEF Rewrites
    <3>7. NotMissed(j)'
      BY <2>6, <2>7, <2>9, <2>10, <3>1, <3>3, <3>4 DEF JobInv, NotMissed, Tracked
    <3> QED
      BY <1>2, <3>1, <3>5, <3>6, <3>7, OnlyThreads DEF JobInv
  <2> QED
    BY <2>11, <2>12, <2>13, <2>14
<1> QED
  BY <1>5, <1>6

\* A script that dies takes along what strays gets, and nothing else.
LEMMA ThreadDiesInv ==
  ASSUME TrackerInv, NEW c \in Threads, ThreadDies(c)
  PROVE  TrackerInv'
<1> USE TrackerAssumption DEF TrackerInv
<1>1. /\ cpc[c] # "off" /\ cpc'[c] = "off" /\ linked'[c] = FALSE /\ list'[c] = <<>>
      /\ \A d \in Threads \ {c} : /\ cpc'[d] = cpc[d] /\ linked'[d] = linked[d]
                                  /\ pid'[d] = pid[d] /\ list'[d] = list[d]
      /\ UNCHANGED <<sessionVars, file, alive>>
  BY DEF ThreadDies, TypeOK
<1>2. /\ strays \subseteq strays'
      /\ cpc[c] \in {"add", "append"} => pid[c] \in strays'
      /\ cpc[c] = "flush" => ToSet(list[c]) \subseteq strays'
  BY DEF ThreadDies
<1>3. TypeOK'
  BY DEF ThreadDies, TypeOK, ThreadPlaces, sessionVars
<1>4. \A r \in Sessions : /\ Exists(r)' = Exists(r) /\ Readable(r)' = Readable(r)
                          /\ Listed(r)' = Listed(r)
  BY <1>1 DEF Exists, Readable, Listed, ReadAll
<1>5. SessionShape'
  BY <1>1 DEF SessionShape, ThreadsOf, sessionVars
<1>6. LiveTrackersStay'
  BY <1>1, <1>4 DEF LiveTrackersStay, Live, sessionVars
<1>7. ThreadShape'
  BY <1>1, <1>4 DEF ThreadShape
<1>8. ASSUME NEW j \in alive' \ strays' PROVE JobInv(j)'
  <2>1. JobInv(j) /\ (cpc[c] = "flush" => j \notin ToSet(list[c]))
    BY <1>1, <1>2
  <2>2. ASSUME NEW r \in Sessions
        PROVE  j \in Held(Truncating(r))' <=> j \in Held(Truncating(r))
    <3>1. Truncating(r)' = Truncating(r) \ {c}
      BY <1>1 DEF Truncating, ThreadsOf
    <3>2. \A d \in Truncating(r)' : list'[d] = list[d]
      BY <1>1, <3>1 DEF Truncating, ThreadsOf
    <3>3. c \in Truncating(r) => j \notin ToSet(list[c])
      BY <2>1 DEF Truncating
    <3> QED
      BY <3>1, <3>2, <3>3 DEF Held
  <2>3. \A r \in Sessions : j \in Tracked(r)' <=> j \in Tracked(r)
    BY <1>4, <2>2 DEF Tracked
  <2>4. Known(j)' /\ WrittenBack(j)'
    BY <1>1, <1>2, <2>1, <2>3, JobStays DEF Rewrites
  <2>5. NotMissed(j)'
    BY <1>1, <1>4, <2>1, <2>2 DEF JobInv, NotMissed
  <2> QED
    BY <1>1, <2>1, <2>3, <2>4, <2>5, OnlyThreads DEF JobInv
<1> QED
  BY <1>3, <1>5, <1>6, <1>7, <1>8

\* A process that exits takes no tracker along; a stuttering step neither.
LEMMA OnlyDeaths ==
  ASSUME TrackerInv, alive' \subseteq alive,
         UNCHANGED <<sessionVars, file, threadVars, linked, strays>>
  PROVE  TrackerInv'
<1> USE DEF TrackerInv, sessionVars, threadVars
<1>1. TypeOK'
  BY DEF TypeOK
<1>2. SessionShape' /\ LiveTrackersStay'
  BY DEF SessionShape, ThreadsOf, LiveTrackersStay, Live, Exists
<1>3. ASSUME NEW j \in alive' \ strays' PROVE JobInv(j)'
  <2>1. JobInv(j) /\ \A s \in Sessions : Tracked(s)' = Tracked(s)
    BY OnlySessions
  <2> QED
    BY <2>1, OnlySessions, OnlyThreads DEF JobInv
<1> QED
  BY <1>1, <1>2, <1>3, OnlySessions

-----------------------------------------------------------------------------
(* The theorems                                                            *)

LEMMA InitInv == Init => TrackerInv
<1> SUFFICES ASSUME Init PROVE TrackerInv
  OBVIOUS
<1> USE TrackerAssumption DEF Init
<1>1. TypeOK
  BY DEF TypeOK, SessionPlaces, ThreadPlaces
<1>2. SessionShape /\ ThreadShape
  BY DEF SessionShape, ThreadShape, ThreadsOf
<1>3. LiveTrackersStay
  BY DEF LiveTrackersStay, Live
<1> QED
  BY <1>1, <1>2, <1>3 DEF TrackerInv

LEMMA NextInv == TrackerInv /\ [Next]_vars => TrackerInv'
<1> SUFFICES ASSUME TrackerInv, [Next]_vars PROVE TrackerInv'
  OBVIOUS
<1>1. ASSUME NEW s \in Sessions, SessionStep(s) PROVE TrackerInv'
  BY <1>1, ScanSkipsInv, ScanReadsInv, KillNextInv, SweepUnlinksInv, ScriptStartsInv,
     CleanupReadsInv, CleanupCannotReadInv, CleanupUnlinksInv DEF SessionStep
<1>2. ASSUME NEW c \in Threads, CommandStep(c) PROVE TrackerInv'
  BY <1>2, AddOpensInv, AddFailsInv, AddAppendsInv, RemoveReadsInv,
     RemoveCannotReadInv, RemoveTruncatesInv, RemoveFlushesInv DEF CommandStep
<1>3. CASE Environment
  <2>1. ASSUME NEW j \in Jobs, JobExits(j) PROVE TrackerInv'
    BY <2>1, OnlyDeaths DEF JobExits, Kill
  <2> QED
    BY <1>3, <2>1, RunStartInv, ScriptEndsInv, InterruptInv, CrashInv, StartForksInv,
       StopKillsInv, ThreadDiesInv DEF Environment, ScriptStep
<1>4. CASE UNCHANGED vars
  BY <1>4, OnlyDeaths DEF vars, sessionVars, threadVars
<1> QED
  BY <1>1, <1>2, <1>3, <1>4 DEF Next

\* TrackerInv holds whatever sessions, scripts and background processes do.
THEOREM TrackerInvariance == Spec => []TrackerInv
<1>1. Init => TrackerInv
  BY InitInv
<1>2. TrackerInv /\ [Next]_vars => TrackerInv'
  BY NextInv
<1> QED
  BY <1>1, <1>2, PTL DEF Spec

\* A sweep never takes the tracker of a session that runs.
THEOREM LiveTrackersAlwaysStay == Spec => []LiveTrackersStay
<1>1. TrackerInv => LiveTrackersStay
  BY DEF TrackerInv
<1> QED
  BY <1>1, TrackerInvariance, PTL

\* No background process is lost, but by the races and crashes of strays.
THEOREM AlwaysAccounted == Spec => []Accounted
<1>1. TrackerInv => Accounted
  <2> SUFFICES ASSUME TrackerInv, NEW j \in alive \ strays, ~BeingStarted(j)
               PROVE  \/ Recorded(j)
                      \/ j \in Held({c \in Threads : cpc[c] = "flush" /\ linked[c]})
    BY DEF Accounted
  <2>1. PICK s \in Sessions : j \in Tracked(s)
    BY DEF TrackerInv, JobInv, Known
  <2>2. CASE j \in Listed(s)
    BY <2>2 DEF Listed, Recorded
  <2>3. CASE j \in Held(Truncating(s))
    BY <2>3 DEF Held, Truncating, ThreadsOf
  <2> QED
    BY <2>1, <2>2, <2>3 DEF Tracked
<1> QED
  BY <1>1, TrackerInvariance, PTL

\* When a script starts, nothing runs any more that was stale when its session
\* began.
THEOREM StaleAlwaysSwept == Spec => []StaleSwept
<1>1. TrackerInv => StaleSwept
  BY DEF TrackerInv, JobInv, Swept, StaleSwept
<1> QED
  BY <1>1, TrackerInvariance, PTL

-----------------------------------------------------------------------------
(* The lock command                                                        *)

\* Nobody runs and nobody has the lock.
LEMMA LockInitially == LockInit => LockInv
  BY LockAssumption DEF LockInit, LockInv, LockTypeOK, Owning, CommandsExclusive

\* Every step of every process preserves LockInv.
LEMMA LockInductive == LockInv /\ [LockNext]_lockVars => LockInv'
  <1> SUFFICES ASSUME LockInv, [LockNext]_lockVars PROVE LockInv'
    OBVIOUS
  <1> USE LockAssumption DEF LockInv, LockTypeOK, Owning, CommandsExclusive, Goto
  <1>1. ASSUME NEW p \in Procs, NEW t \in Timeouts, Start(p, t) PROVE LockInv'
    BY <1>1 DEF Start
  <1>2. ASSUME NEW p \in Procs, Acquire(p) PROVE LockInv'
    BY <1>2 DEF Acquire
  <1>3. ASSUME NEW p \in Procs, TryFails(p) PROVE LockInv'
    BY <1>3 DEF TryFails
  <1>4. ASSUME NEW p \in Procs, Poll(p) PROVE LockInv'
    BY <1>4 DEF Poll
  <1>5. ASSUME NEW p \in Procs, Report(p) PROVE LockInv'
    BY <1>5 DEF Report
  <1>6. ASSUME NEW p \in Procs, Truncate(p) PROVE LockInv'
    BY <1>6 DEF Truncate
  <1>7. ASSUME NEW p \in Procs, WritePid(p) PROVE LockInv'
    BY <1>7 DEF WritePid
  <1>8. ASSUME NEW p \in Procs, Fork(p) PROVE LockInv'
    BY <1>8 DEF Fork
  <1>9. ASSUME NEW p \in Procs, ForkFails(p) PROVE LockInv'
    BY <1>9 DEF ForkFails
  <1>10. ASSUME NEW p \in Procs, ChildExecs(p) PROVE LockInv'
    BY <1>10 DEF ChildExecs
  <1>11. ASSUME NEW p \in Procs, ChildExits(p) PROVE LockInv'
    BY <1>11 DEF ChildExits
  <1>12. ASSUME NEW p \in Procs, Release(p) PROVE LockInv'
    BY <1>12 DEF Release
  <1>13. ASSUME NEW p \in Procs, Killed(p) PROVE LockInv'
    BY <1>13 DEF Killed
  <1>14. CASE UNCHANGED lockVars
    BY <1>14 DEF lockVars
  <1>15. QED
    BY <1>1, <1>2, <1>3, <1>4, <1>5, <1>6, <1>7, <1>8, <1>9, <1>10, <1>11,
       <1>12, <1>13, <1>14 DEF LockNext, Step

\* LockInv is an invariant of the lock command for every set of processes.
THEOREM LockInvHolds == LockSpec => []LockInv
  BY LockInitially, LockInductive, PTL DEF LockSpec

\* Commands under one lock never overlap, unless the lock command of one of
\* them was killed under it.
THEOREM LockExcludes == LockSpec => []CommandsExclusive
  <1>1. LockInv => CommandsExclusive
    BY DEF LockInv
  <1>2. QED
    BY LockInvHolds, <1>1, PTL

\* While a command runs, the lock file names the process that holds the lock.
THEOREM LockNamesHolder == LockSpec => []HolderIsNamed
  <1>1. LockInv => HolderIsNamed
    BY DEF LockInv, HolderIsNamed
  <1>2. QED
    BY LockInvHolds, <1>1, PTL
=============================================================================
