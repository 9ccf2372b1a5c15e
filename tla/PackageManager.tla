--------------------------- MODULE PackageManager ---------------------------
(***************************************************************************)
(* The commands of `cxy package' that keep a project's dependencies: add,  *)
(* remove, install and update, over Cxyfile.yaml, Cxyfile.lock, the        *)
(* directories under .cxy/packages and the tags of the remote              *)
(* repositories.  Tags may be released and the command may be killed       *)
(* between any two steps, and any use of the network may fail.             *)
(*                                                                         *)
(* A version, its tag and the commit it names are one number: tags are     *)
(* lightweight.  (For an annotated tag ls-remote gives the tag object,     *)
(* which is never the commit checked out, and --verify fails.)  The lock   *)
(* file's version field drops a prerelease: Recorded.  A directory is      *)
(* named by the commit checked out in it.  Checksums are left out: only an *)
(* install that has just recorded them compares them, so they always       *)
(* match.  pc:                                                             *)
(*   "idle"    no command runs                                             *)
(*   "each"    in the loop that installs the packages of cmd.todo          *)
(*   "relock"  remove is about to resolve what is left                     *)
(*   "write"   Cxyfile.lock was opened with "w" and is empty               *)
(*   "verify"  install --verify has written the lock file                  *)
(*   "ask"     remove asks whether to delete the package's directory       *)
(* Dependencies are remote; those given by a local path, those add finds   *)
(* in the registry, and the install scripts, are left out.  A lock file    *)
(* fits the buffer of its stream, so it reaches the disk in one write.     *)
(* Cxyfile.yaml is opened with "w" and written at fclose as well, but is   *)
(* replaced in one step here: killed in between, add or remove leave an    *)
(* empty manifest, which every later command refuses.  Neither the local   *)
(* disk nor git on a local clone fails.                                    *)
(***************************************************************************)
EXTENDS Integers, FiniteSets, FiniteSetsExt

CONSTANTS Names,    \* the packages
          DevNames, \* those declared under devDependencies
          Versions, \* the versions a repository may release
          Ranges,   \* the constraints a dependency may have
          Satisfies(_, _), \* whether a version satisfies a constraint
          Recorded(_), \* a version as the lock file's version field has it
          Tip,      \* the commit of a default branch that no tag names
          Broken,   \* a directory without a Cxyfile.yaml
          NoFile,   \* no Cxyfile.lock
          None      \* NULL, or no directory

Commits == Versions \union {Tip}
\* An entry of the lock file; the commit of a tag given in the manifest is not
\* known before it is installed.
Entry == [tag : Versions, commit : Commits \union {None}]
LockFiles == UNION {[S -> Entry] : S \in SUBSET Names}

ASSUME PackageAssumption ==
  /\ DevNames \subseteq Names
  /\ Versions \subseteq Nat
  /\ \A v \in Versions, range \in Ranges : Satisfies(v, range) \in BOOLEAN
  /\ \A v \in Versions : Recorded(v) \in Nat /\ Recorded(v) >= v
  /\ {Tip, Broken, NoFile, None} \intersect Versions = {}
  /\ NoFile \notin LockFiles

VARIABLES manifest, \* manifest[n]: the dependency n of Cxyfile.yaml
          lock,     \* Cxyfile.lock
          dirs,     \* dirs[n]: .cxy/packages/n
          tags,     \* tags[n]: the versions released by n's repository
          pc,       \* where the command is
          cmd,      \* its locals
          promised, \* the packages the last command, an install, vouched for
          verified, \* whether it verified them
          top       \* top[n]: the highest version the lock file has had for n

vars == <<manifest, lock, dirs, tags, pc, cmd, promised, verified, top>>

Empty == [n \in {} |-> None]
Idle == [kind |-> "none", todo |-> {}, resolved |-> Empty, fresh |-> FALSE,
         dev |-> FALSE, offline |-> FALSE, failed |-> FALSE]

\* A manifest written by hand, before the first command.
Init ==
  /\ manifest \in [Names -> [range : Ranges, tag : {None}] \union {None}]
  /\ lock = NoFile
  /\ dirs = [n \in Names |-> None]
  /\ tags \in [Names -> {{v} : v \in Versions}]
  /\ pc = "idle"
  /\ cmd = Idle
  /\ promised = {}
  /\ verified = FALSE
  /\ top = [n \in Names |-> 0]

-----------------------------------------------------------------------------
(* The resolver                                                            *)

Declared == {n \in Names : manifest[n] # None}
\* The dependencies a command with this includeDev looks at.
Wanted(dev) == IF dev THEN Declared ELSE Declared \ DevNames

\* findBestMatchingVersion: the highest tag that satisfies the constraint.
Matching(n, range) == {v \in tags[n] : Satisfies(v, range)}
MFindBestMatchingVersion(n, range) == Min(Matching(n, range))
FindBestMatchingVersion(n, range) == Max(Matching(n, range))

\* resolveDependencies fails if some constraint has no tag (or a repository
\* cannot be reached).  A tag given in the manifest is taken as it is, and its
\* commit is not known.
Resolvable(dev) ==
  \A n \in Wanted(dev) :
    manifest[n].tag = None => Matching(n, manifest[n].range) # {}
MResolveDependency(n) ==
  [tag |-> IF manifest[n].tag = None
             THEN FindBestMatchingVersion(n, manifest[n].range) ELSE manifest[n].tag,
   commit |-> None]
ResolveDependency(n) ==
  IF manifest[n].tag = None
    THEN LET best == FindBestMatchingVersion(n, manifest[n].range)
         IN  [tag |-> best, commit |-> best]
    ELSE [tag |-> manifest[n].tag, commit |-> None]
ResolveDependencies(dev) == [n \in Wanted(dev) |-> ResolveDependency(n)]

\* What install compares before it trusts the lock file it loaded: names only.
MLockfileValid(dev) == lock # NoFile
LockfileValid(dev) == lock # NoFile /\ Wanted(dev) \subseteq DOMAIN lock

\* gitGetCurrentCommit of what is installed, if the commit is not known yet.
Capture(entry, dir) ==
  IF entry.commit = None /\ dir \in Commits THEN [entry EXCEPT !.commit = dir]
  ELSE entry

-----------------------------------------------------------------------------
(* How a command begins and ends                                           *)

Begin(c) ==
  /\ pc = "idle"
  /\ cmd' = c
  /\ promised' = {}
  /\ verified' = FALSE
  /\ UNCHANGED top

End == pc' = "idle" /\ cmd' = Idle

\* install with a lock file that lists every dependency.  (With none, or an
\* outdated one, --frozen-lockfile only fails when there is none.)
InstallLocked(dev, offline) ==
  /\ LockfileValid(dev)
  /\ Begin([kind |-> "install", todo |-> DOMAIN lock, resolved |-> lock,
            fresh |-> FALSE, dev |-> dev, offline |-> offline, failed |-> FALSE])
  /\ pc' = "each"
  /\ UNCHANGED <<manifest, lock, dirs, tags>>

\* install without a usable lock file, or with --clean.  A resolution that
\* fails ends the command and nothing has changed.
InstallFresh(dev, offline, clean) ==
  /\ clean \/ ~LockfileValid(dev)
  /\ Resolvable(dev)
  /\ Begin([kind |-> "install", todo |-> Wanted(dev),
            resolved |-> ResolveDependencies(dev), fresh |-> TRUE, dev |-> dev,
            offline |-> offline, failed |-> FALSE])
  /\ pc' = "each"
  /\ UNCHANGED <<manifest, lock, dirs, tags>>

\* add of a repository (one found in the registry gets the version that the
\* registry chooses for its constraint, which may be older than one the lock
\* file has had): a new dependency is pinned to the latest tag whatever its
\* constraint, installed at once unless --no-install (which still removes a
\* directory that has no Cxyfile.yaml), and then written to Cxyfile.yaml.
Add(n, range, noInstall) ==
  /\ manifest[n] = None
  /\ tags[n] # {}
  /\ Begin([kind |-> "add", todo |-> IF noInstall THEN {} ELSE {n},
            resolved |-> [m \in {n} |-> [tag |-> Max(tags[n]), range |-> range]],
            fresh |-> FALSE, dev |-> FALSE, offline |-> FALSE, failed |-> FALSE])
  /\ dirs' = [dirs EXCEPT ![n] = IF noInstall /\ @ = Broken THEN None ELSE @]
  /\ pc' = "each"
  /\ UNCHANGED <<manifest, lock, tags>>

\* remove rewrites Cxyfile.yaml before it regenerates the lock file.  Names it
\* does not find are skipped; S is what it finds.
RemoveCommand(S) ==
  /\ S # {} /\ S \subseteq Declared
  /\ Begin([Idle EXCEPT !.kind = "remove", !.todo = S])
  /\ manifest' = [n \in Names |-> IF n \in S THEN None ELSE manifest[n]]
  /\ pc' = "relock"
  /\ UNCHANGED <<lock, dirs, tags>>

\* checkPackageForUpdate: the tag to install, NULL (the default branch) for a
\* package that is not in the lock file.
NewTag(n, latest) ==
  IF n \notin DOMAIN lock THEN None
  ELSE IF latest THEN Max(tags[n])
  ELSE Max(Matching(n, manifest[n].range) \union {lock[n].tag})
HasUpdate(n, latest) ==
  n \in DOMAIN lock => NewTag(n, latest) > Recorded(lock[n].tag)

\* update of the packages in S; nothing to update ends the command, and so
\* does a package that cannot be checked.
Update(S, latest, dev) ==
  LET todo == {n \in S : HasUpdate(n, latest)}
  IN  /\ lock # NoFile
      /\ S \subseteq Wanted(dev)
      /\ todo # {}
      /\ Begin([Idle EXCEPT !.kind = "update", !.todo = todo,
                  !.resolved = [n \in todo |-> [tag |-> NewTag(n, latest)]]])
      /\ pc' = "each"
      /\ UNCHANGED <<manifest, lock, dirs, tags>>

-----------------------------------------------------------------------------
(* The steps of a command                                                  *)

\* installDependency keeps a directory that has a Cxyfile.yaml, whatever is
\* checked out in it; update has removed it first.
Kept(n) == cmd.kind # "update" /\ dirs[n] \in Commits

Cloned(tag) == IF tag = None THEN Tip ELSE tag

\* One package of the loop succeeds: it was there, or the clone succeeds.
InstallDependency(n) ==
  /\ pc = "each" /\ n \in cmd.todo /\ ~cmd.offline
  /\ dirs' = [dirs EXCEPT ![n] = IF Kept(n) THEN @ ELSE Cloned(cmd.resolved[n].tag)]
  /\ cmd' = [cmd EXCEPT !.todo = @ \ {n},
               !.resolved[n] =
                 IF cmd.kind = "install" THEN Capture(@, dirs'[n]) ELSE @]
  /\ UNCHANGED <<manifest, lock, tags, pc, promised, verified, top>>

\* The clone fails, or what was cloned has no Cxyfile.yaml and is removed.
InstallFails(n) ==
  /\ pc = "each" /\ n \in cmd.todo /\ ~cmd.offline /\ ~Kept(n)
  /\ dirs' = [dirs EXCEPT ![n] = None]
  /\ cmd' = [cmd EXCEPT !.todo = @ \ {n}, !.failed = TRUE]
  /\ UNCHANGED <<manifest, lock, tags, pc, promised, verified, top>>

\* install --offline skips the remote dependencies.
Skip(n) ==
  /\ pc = "each" /\ n \in cmd.todo /\ cmd.offline
  /\ cmd' = [cmd EXCEPT !.todo = @ \ {n}]
  /\ UNCHANGED <<manifest, lock, dirs, tags, pc, promised, verified, top>>

Done == pc = "each" /\ cmd.todo = {}

\* What an install that succeeds tells its caller about.
Vouch == promised' = IF cmd.offline THEN {} ELSE Wanted(cmd.dev)

\* Some package failed: the command fails, and no file is written.
EndFailed ==
  /\ Done /\ cmd.failed
  /\ End
  /\ UNCHANGED <<manifest, lock, dirs, tags, promised, verified, top>>

\* install from a lock file, or of nothing, ends here; so does --verify then.
EndInstalled ==
  /\ Done /\ ~cmd.failed
  /\ cmd.kind = "install"
  /\ ~cmd.fresh \/ cmd.resolved = Empty
  /\ Vouch
  /\ End
  /\ UNCHANGED <<manifest, lock, dirs, tags, verified, top>>

EndAdd ==
  /\ Done /\ ~cmd.failed
  /\ cmd.kind = "add"
  /\ manifest' = [n \in Names |->
       IF n \in DOMAIN cmd.resolved
         THEN [range |-> cmd.resolved[n].range, tag |-> cmd.resolved[n].tag]
         ELSE manifest[n]]
  /\ End
  /\ UNCHANGED <<lock, dirs, tags, promised, verified, top>>

\* update and remove resolve everything anew, with what is released by now,
\* and open the lock file; update records what is installed.
MayRelock == \/ pc = "relock"
             \/ Done /\ ~cmd.failed /\ cmd.kind = "update"
Relock ==
  /\ MayRelock
  /\ Resolvable(TRUE)
  /\ cmd' = [cmd EXCEPT !.resolved =
       [n \in Wanted(TRUE) |->
          IF cmd.kind = "update" THEN Capture(ResolveDependency(n), dirs[n])
                                 ELSE ResolveDependency(n)]]
  /\ lock' = Empty
  /\ pc' = "write"
  /\ UNCHANGED <<manifest, dirs, tags, promised, verified, top>>

\* The lock file is done with: remove goes on to ask about the directory.
AfterLock == IF cmd.kind = "remove" THEN pc' = "ask" /\ UNCHANGED cmd ELSE End

\* If the resolution fails there is a warning, and the lock file stays.
RelockFails ==
  /\ MayRelock
  /\ AfterLock
  /\ UNCHANGED <<manifest, lock, dirs, tags, promised, verified, top>>

\* generateLockFile of an install opens the file with "w" ...
OpenLockFile ==
  /\ Done /\ ~cmd.failed
  /\ cmd.kind = "install" /\ cmd.fresh /\ cmd.resolved # Empty
  /\ lock' = Empty
  /\ pc' = "write"
  /\ UNCHANGED <<manifest, dirs, tags, cmd, promised, verified, top>>

\* ... and what was emitted is written when it is closed.
WriteLockFile(verify) ==
  /\ pc = "write"
  /\ lock' = cmd.resolved
  /\ top' = [n \in Names |->
       IF n \in DOMAIN lock' THEN Max({top[n], lock'[n].tag}) ELSE top[n]]
  /\ IF cmd.kind = "install" /\ verify
       THEN pc' = "verify" /\ UNCHANGED <<cmd, promised>>
       ELSE AfterLock /\ IF cmd.kind = "install" THEN Vouch ELSE UNCHANGED promised
  /\ UNCHANGED <<manifest, dirs, tags, verified>>

\* verifyInstalledPackage.  (A git rev-parse that failed would pass with a
\* warning.)
VerifyInstalledPackage(n) ==
  /\ dirs[n] \in Commits
  /\ lock[n].commit # None => lock[n].commit = dirs[n]
VerifyLockFile ==
  /\ pc = "verify"
  /\ IF \A n \in DOMAIN lock : VerifyInstalledPackage(n)
       THEN Vouch /\ verified' = TRUE
       ELSE UNCHANGED <<promised, verified>>
  /\ End
  /\ UNCHANGED <<manifest, lock, dirs, tags, top>>

\* removePackageFromDisk, if the user says yes.
RemovePackageFromDisk(yes) ==
  /\ pc = "ask"
  /\ dirs' = [n \in Names |-> IF yes /\ n \in cmd.todo THEN None ELSE dirs[n]]
  /\ End
  /\ UNCHANGED <<manifest, lock, tags, promised, verified, top>>

-----------------------------------------------------------------------------
(* The environment                                                         *)

\* The command is killed.  A clone in progress leaves a directory that has no
\* Cxyfile.yaml; update had removed the one that was there.  (A clone killed
\* after Cxyfile.yaml was checked out passes for a complete one.)
Crash ==
  /\ pc # "idle"
  /\ End
  /\ \/ UNCHANGED dirs
     \/ \E n \in cmd.todo, left \in {None, Broken} :
          pc = "each" /\ ~cmd.offline /\ ~Kept(n) /\ dirs' = [dirs EXCEPT ![n] = left]
  /\ UNCHANGED <<manifest, lock, tags, promised, verified, top>>

\* A repository releases a version; tags are never moved or deleted.
Release(n, v) ==
  /\ v \notin tags[n]
  /\ tags' = [tags EXCEPT ![n] = @ \union {v}]
  /\ UNCHANGED <<manifest, lock, dirs, pc, cmd, promised, verified, top>>

-----------------------------------------------------------------------------
Command ==
  \/ \E dev, offline \in BOOLEAN :
       \/ InstallLocked(dev, offline)
       \/ \E clean \in BOOLEAN : InstallFresh(dev, offline, clean)
  \/ \E n \in Names, range \in Ranges, noInstall \in BOOLEAN :
       Add(n, range, noInstall)
  \/ \E S \in SUBSET Names : RemoveCommand(S)
  \/ \E S \in SUBSET Names, latest, dev \in BOOLEAN : Update(S, latest, dev)

Step ==
  \/ \E n \in Names : InstallDependency(n) \/ InstallFails(n) \/ Skip(n)
  \/ EndFailed \/ EndInstalled \/ EndAdd
  \/ Relock \/ RelockFails \/ OpenLockFile
  \/ \E yes \in BOOLEAN : WriteLockFile(yes) \/ RemovePackageFromDisk(yes)
  \/ VerifyLockFile

Next == \/ Command
        \/ Step
        \/ Crash
        \/ \E n \in Names, v \in Versions : Release(n, v)

Spec == Init /\ [][Next]_vars

-----------------------------------------------------------------------------
(* Properties                                                              *)

\* Whatever was killed or failed before (a lock file left empty by
\* generateLockFile, a directory left without a Cxyfile.yaml, an update that
\* removed a package and could not clone the new one), an install that
\* succeeds leaves every dependency in the lock file and usable on disk.
InstallRecovers ==
  \A n \in promised :
    /\ lock # NoFile /\ n \in DOMAIN lock
    /\ dirs[n] \in Commits

\* install --verify, when it verifies, does not accept a directory that an
\* earlier command left at another version: a dependency given by a
\* constraint has the commit of the tag in the lock file checked out.
VerifiedIsExact ==
  verified => \A n \in DOMAIN lock :
                manifest[n].tag = None => dirs[n] = lock[n].tag

\* Resolving again (for a dependency that was added or removed, --clean, an
\* update of another package, a crash in between) never locks a package at an
\* older version, if add was given repositories and not names in the registry.
LockNeverGoesBack ==
  lock # NoFile => \A n \in DOMAIN lock : lock[n].tag >= top[n]
=============================================================================
