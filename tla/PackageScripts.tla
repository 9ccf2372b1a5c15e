--------------------------- MODULE PackageScripts ---------------------------
(***************************************************************************)
(* `cxy package run': the order in which a script and the scripts it       *)
(* depends on are run, and the cache that skips a script whose outputs are *)
(* newer than its inputs.  Somebody may edit the sources at any time, and  *)
(* a script may fail after it has written its outputs.                     *)
(*                                                                         *)
(* A script in Sourced has one source file among its inputs; the others    *)
(* are the outputs of the scripts it depends on.  A script in Cacheable    *)
(* declares its outputs, one file here; one that is not declares none.     *)
(* The clock is that of the file system: files written within one tick     *)
(* have the same mtime.  rpc:                                              *)
(*   "idle"   no command runs                                              *)
(*   "next"   before the next script of the execution order                *)
(*   "exec"   the script at its head executes; it has read its inputs      *)
(***************************************************************************)
EXTENDS Integers, FiniteSets, Sequences, SequencesExt

CONSTANTS Scripts, Sourced, Cacheable,
          MaxTime  \* bounds the clock

ASSUME ScriptsAssumption ==
  /\ Sourced \subseteq Scripts
  /\ Cacheable \subseteq Scripts
  /\ IsFiniteSet(Scripts)
  /\ MaxTime \in Nat

VARIABLES deps,    \* deps[s]: PackageScript.dependencies
          clock,
          source,  \* source[s]: mtime of the source file of s
          output,  \* output[s]: mtime of the output of s, 0 if there is none
          rpc,
          order,   \* what is left of executionOrder
          noCache, \* --no-cache
          done,    \* the scripts of this run that succeeded or were skipped
          ok,      \* the last run succeeded, and what it ran; or {}
          stale,   \* the scripts whose output is not what its inputs give
          raced,   \* those whose output was written by a script that failed
                   \* or whose inputs changed while it ran
          late     \* those whose source changed in this run

files == <<clock, source, output>>
history == <<stale, raced, late>>
scriptsVars == <<deps, files, rpc, order, noCache, done, ok, history>>

-----------------------------------------------------------------------------
(* The execution order                                                     *)

\* What the walk carries along: the order so far, the scripts being visited,
\* and whether a cycle was found.
States == [order : Seq(Scripts), visiting : SUBSET Scripts, valid : BOOLEAN]
Start == [order |-> <<>>, visiting |-> {}, valid |-> TRUE]
Enter(s, st) == [st EXCEPT !.visiting = @ \union {s}]
Leave(s, st) == [order |-> Append(st.order, s), visiting |-> st.visiting \ {s},
                 valid |-> TRUE]
CycleFound(st) == [st EXCEPT !.valid = FALSE]

\* The loop over the dependencies ss of a script; rec[d][st] is the recursive
\* call for d.
VisitAll(rec, ss, st) ==
  LET after[i \in 0 .. Len(ss)] ==
        IF i = 0 THEN st ELSE rec[ss[i]][after[i - 1]]
  IN  after[Len(ss)]

MVisitAgain(rec, s, st) ==
  IF ~st.valid THEN st
  ELSE IF s \in st.visiting THEN CycleFound(st)
  ELSE LET after == VisitAll(rec, deps[s], Enter(s, st))
       IN  IF after.valid THEN Leave(s, after) ELSE after
MVisitFirst(rec, s, st) ==
  IF ~st.valid \/ s \in ToSet(st.order) THEN st
  ELSE IF s \in st.visiting THEN CycleFound(st)
  ELSE VisitAll(rec, deps[s], [st EXCEPT !.order = Append(@, s)])
\* resolveScriptDepsRecursive: a script visited before is in the order, one
\* that is being visited closes a cycle, and a script follows its dependencies.
Visit(rec, s, st) ==
  IF ~st.valid \/ s \in ToSet(st.order) THEN st
  ELSE IF s \in st.visiting THEN CycleFound(st)
  ELSE LET after == VisitAll(rec, deps[s], Enter(s, st))
       IN  IF after.valid THEN Leave(s, after) ELSE after

\* The calls by how deep they may nest.  A script is entered once, so that
\* Depth suffices: Walk[0] is never applied (OrderComplete would fail).
Depth == Cardinality(Scripts) + 1
Walk[k \in 0 .. Depth] ==
  [s \in Scripts |-> [st \in States |->
     IF k = 0 THEN CycleFound(st) ELSE Visit(Walk[k - 1], s, st)]]

\* validateScripts looks for a cycle from every script, also from those that
\* are not going to run.
ValidateScripts == \A s \in Scripts : Walk[Depth][s][Start].valid
ResolveScriptDependencies(s) == Walk[Depth][s][Start].order

ScriptsInit ==
  /\ deps \in [Scripts -> SetToAllKPermutations(Scripts)]
  /\ clock = 1
  /\ source = [s \in Sourced |-> 1]
  /\ output = [s \in Cacheable |-> 0]
  /\ rpc = "idle"
  /\ order = <<>>
  /\ noCache = FALSE
  /\ done = {}
  /\ ok = {}
  /\ stale = Cacheable
  /\ raced = {}
  /\ late = {}

-----------------------------------------------------------------------------
(* The cache                                                               *)

\* The mtimes of the input files of s; a pattern that matches no file is
\* dropped (expandSingleGlob).
Inputs(s) == ({source[t] : t \in {s} \intersect Sourced}
              \union {output[d] : d \in ToSet(deps[s]) \intersect Cacheable})
             \ {0}

\* checkScriptCacheWithEnv: a script runs if it declares no outputs, if it has
\* no input file, if its output is missing, and unless its output is strictly
\* newer than all its inputs.
MIsCached(s) ==
  /\ s \in Cacheable
  /\ Inputs(s) # {}
  /\ output[s] # 0
  /\ \A t \in Inputs(s) : output[s] >= t
IsCached(s) ==
  /\ s \in Cacheable
  /\ Inputs(s) # {}
  /\ output[s] # 0
  /\ \A t \in Inputs(s) : output[s] > t

-----------------------------------------------------------------------------
(* packageRunCommand                                                       *)

\* A set of scripts that validates is needed; otherwise the command fails.
RunStart(s, flag) ==
  /\ rpc = "idle"
  /\ ValidateScripts
  /\ order' = ResolveScriptDependencies(s)
  /\ noCache' = flag
  /\ rpc' = "next"
  /\ done' = {}
  /\ ok' = {}
  /\ late' = {}
  /\ UNCHANGED <<deps, files, stale, raced>>

\* The head of the order is cached and is skipped.
SkipCached ==
  LET s == Head(order)
  IN  /\ rpc = "next" /\ order # <<>>
      /\ ~noCache /\ IsCached(s)
      /\ order' = Tail(order)
      /\ done' = done \union {s}
      /\ UNCHANGED <<deps, files, rpc, noCache, ok, history>>

\* It is not, and executes.
Execute ==
  /\ rpc = "next" /\ order # <<>>
  /\ noCache \/ ~IsCached(Head(order))
  /\ rpc' = "exec"
  /\ late' = late \ {Head(order)}
  /\ UNCHANGED <<deps, files, order, noCache, done, ok, stale, raced>>

\* s writes its output: what was built from the old one is stale.
Write(s) ==
  /\ output' = [t \in Cacheable |-> IF t = s THEN clock ELSE output[t]]
  /\ UNCHANGED <<clock, source>>
Users(s) == {t \in Cacheable : s \in Cacheable /\ s \in ToSet(deps[t])}

\* The script succeeds.
ScriptSucceeds ==
  LET s == Head(order)
  IN  /\ rpc = "exec"
      /\ Write(s)
      /\ stale' = (IF s \in late THEN stale ELSE stale \ {s}) \union Users(s)
      /\ raced' = IF s \in late THEN raced \union {s} ELSE raced \ {s}
      /\ order' = Tail(order)
      /\ done' = done \union {s}
      /\ rpc' = "next"
      /\ UNCHANGED <<deps, noCache, ok, late>>

\* The script fails, or is killed, before or after it has written its output:
\* the command stops.
ScriptFails(wrote) ==
  LET s == Head(order)
  IN  /\ rpc = "exec"
      /\ IF wrote /\ s \in Cacheable
           THEN /\ Write(s)
                /\ stale' = (stale \union {s}) \union Users(s)
                /\ raced' = raced \union {s}
           ELSE UNCHANGED <<files, stale, raced>>
      /\ rpc' = "idle"
      /\ order' = <<>>
      /\ done' = {}
      /\ UNCHANGED <<deps, noCache, ok, late>>

\* "All scripts completed successfully"
RunEnd ==
  /\ rpc = "next" /\ order = <<>>
  /\ rpc' = "idle"
  /\ ok' = done
  /\ done' = {}
  /\ UNCHANGED <<deps, files, order, noCache, history>>

-----------------------------------------------------------------------------
(* The environment                                                         *)

Edit(s) ==
  /\ source' = [source EXCEPT ![s] = clock]
  /\ stale' = stale \union ({s} \intersect Cacheable)
  /\ IF rpc = "idle" THEN ok' = {} /\ UNCHANGED late
                    ELSE late' = late \union {s} /\ UNCHANGED ok
  /\ UNCHANGED <<deps, clock, output, rpc, order, noCache, done, raced>>

Tick ==
  /\ clock < MaxTime
  /\ clock' = clock + 1
  /\ UNCHANGED <<deps, source, output, rpc, order, noCache, done, ok, history>>

ScriptsNext ==
  \/ \E s \in Scripts, flag \in BOOLEAN : RunStart(s, flag)
  \/ SkipCached \/ Execute \/ ScriptSucceeds \/ RunEnd
  \/ \E wrote \in BOOLEAN : ScriptFails(wrote)
  \/ \E s \in Sourced : Edit(s)
  \/ Tick

ScriptsSpec == ScriptsInit /\ [][ScriptsNext]_scriptsVars

-----------------------------------------------------------------------------
(* Properties                                                              *)

\* The scripts s depends on, however indirectly.
Closed(S) == \A t \in S : ToSet(deps[t]) \subseteq S
Needs(s) == {t \in Scripts : \A S \in SUBSET Scripts :
               ToSet(deps[s]) \subseteq S /\ Closed(S) => t \in S}

\* The order is right for every graph: a set of scripts validates exactly if
\* no script depends on itself, and then a run has before it each script it
\* needs and no other, once.
OrderComplete ==
  /\ ValidateScripts <=> \A s \in Scripts : s \notin Needs(s)
  /\ ValidateScripts => \A s \in Scripts :
       LET o == ResolveScriptDependencies(s)
       IN  IsInjective(o) /\ ToSet(o) = Needs(s) \union {s}

\* A script executes only after every script it needs has succeeded or was
\* found cached in the same run: a failure stops all that would build on it.
DependenciesFirst ==
  rpc = "exec" => Needs(Head(order)) \subseteq done

\* The cache is safe: when a run has succeeded, every output in it is what the
\* inputs give, edits within one tick of the clock included.  The exceptions
\* are a script that failed after it wrote its output or whose source changed
\* while it ran (mtimes cannot tell), and an edit made during this run.
SuccessIsFresh ==
  ok \intersect stale \subseteq raced \union late
=============================================================================
