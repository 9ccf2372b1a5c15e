----------------------- MODULE PackageManagerProofs -----------------------
(***************************************************************************)
(* Proofs about PackageManager for any set of packages, versions and       *)
(* constraints: PackageInv is inductive, so an install that succeeds       *)
(* recovers from whatever was left behind, --verify is exact, and the lock *)
(* file never goes back and keeps to the constraints of the manifest.      *)
(* Then, for versions made of any numbers: comparing is a total order, the *)
(* constraints of SemVer are intervals of it, and so the lock file keeps   *)
(* to compatible versions.                                                 *)
(* Last, about PackageScripts for any finite set of scripts: the walk over *)
(* the dependencies is sound and complete for every graph, and ScriptsInv  *)
(* is inductive, so a run that succeeds leaves fresh outputs behind.       *)
(***************************************************************************)
EXTENDS PackageVersions, PackageScripts, QueueLemmas, FiniteSetTheorems

-----------------------------------------------------------------------------
(* The inductive invariant                                                 *)

Dependency == [range : Ranges, tag : Versions \union {None}]
\* What cmd.resolved holds: entries of a lock file, the dependency of an add,
\* the tags of an update.
Resolved == Entry \union [tag : Versions, range : Ranges]
                  \union [tag : Versions \union {None}]

\* The locals of a command.
Locals == [kind : {"none", "install", "add", "remove", "update"},
           todo : SUBSET Names,
           resolved : UNION {[S -> Resolved] : S \in SUBSET Names},
           fresh : BOOLEAN, dev : BOOLEAN, offline : BOOLEAN, failed : BOOLEAN]

TypeOK ==
  /\ manifest \in [Names -> Dependency \union {None}]
  /\ lock \in LockFiles \union {NoFile}
  /\ dirs \in [Names -> Commits \union {Broken, None}]
  /\ tags \in [Names -> SUBSET Versions]
  /\ pc \in {"idle", "each", "relock", "write", "verify", "ask"}
  /\ cmd \in Locals
  /\ promised \subseteq Names
  /\ verified \in BOOLEAN
  /\ top \in [Names -> Nat]

\* Max is defined for the tags there are, and for those a constraint accepts.
HasMax(S) == \E m \in S : \A x \in S : m >= x
TagsHaveMax ==
  \A n \in Names :
    /\ tags[n] # {} /\ HasMax(tags[n])
    /\ \A range \in Ranges :
         Matching(n, range) # {} => HasMax(Matching(n, range))

\* The highest version ever locked is one that resolving again may choose.
TopIsReachable ==
  \A n \in Names :
    /\ top[n] \in tags[n] \union {0}
    /\ n \in Declared =>
         IF manifest[n].tag = None
           THEN top[n] = 0 \/ Satisfies(top[n], manifest[n].range)
           ELSE manifest[n].tag \in tags[n] /\ manifest[n].tag >= top[n]

\* An entry the resolver made for n, in a command that will lock it.
Fits(n, e) ==
  /\ n \in Declared
  /\ e \in Entry
  /\ e.tag \in tags[n] /\ e.tag >= top[n]
  /\ IF manifest[n].tag = None
       THEN Satisfies(e.tag, manifest[n].range) /\ e.commit = e.tag
       ELSE e.tag = manifest[n].tag
WillLock == pc = "write" \/ (cmd.kind = "install" /\ cmd.fresh /\ pc # "idle")
ResolvedFits ==
  WillLock => \A n \in DOMAIN cmd.resolved : Fits(n, cmd.resolved[n])

\* An add has the tag it will pin.
AddPins ==
  cmd.kind = "add" => \A n \in DOMAIN cmd.resolved :
    /\ cmd.resolved[n] \in [tag : Versions, range : Ranges]
    /\ cmd.resolved[n].tag \in tags[n] /\ cmd.resolved[n].tag >= top[n]

\* An install on its way: what it will vouch for is in the lock file it loaded
\* or will write, and what it is done with is on disk.
InstallGoesOn ==
  cmd.kind = "install" =>
    /\ pc \in {"each", "write", "verify"}
    /\ cmd.resolved \in LockFiles
    /\ pc # "each" => cmd.todo = {} /\ cmd.fresh /\ ~cmd.failed
    /\ Wanted(cmd.dev) \subseteq DOMAIN cmd.resolved
    /\ ~cmd.fresh => lock # NoFile /\ Wanted(cmd.dev) \subseteq DOMAIN lock
    /\ pc = "verify" => lock = cmd.resolved
    /\ cmd.offline \/ cmd.failed \/
         \A n \in DOMAIN cmd.resolved \ cmd.todo : dirs[n] \in Commits

\* A package declared with a constraint is locked at a version it accepts.
LockedSatisfies ==
  lock # NoFile => \A n \in DOMAIN lock :
    n \in Declared /\ manifest[n].tag = None =>
      Satisfies(lock[n].tag, manifest[n].range)

\* Nothing is vouched for while a command runs.
VouchedAtEnd == pc # "idle" => promised = {} /\ ~verified
KindOfStep ==
  /\ pc = "each" => cmd.todo \subseteq DOMAIN cmd.resolved
  /\ pc = "verify" => cmd.kind = "install"
  /\ pc = "relock" => cmd.kind = "remove"
  /\ pc = "idle" => cmd = Idle
  /\ pc # "idle" => cmd.kind # "none"

PackageInv ==
  /\ TypeOK /\ TagsHaveMax /\ TopIsReachable /\ ResolvedFits /\ AddPins
  /\ InstallGoesOn /\ LockedSatisfies /\ VouchedAtEnd /\ KindOfStep
  /\ InstallRecovers /\ VerifiedIsExact /\ LockNeverGoesBack

-----------------------------------------------------------------------------
(* The resolver                                                            *)

\* Max is the greatest element of a set that has one.
LEMMA MaxIsGreatest ==
  ASSUME NEW S, HasMax(S)
  PROVE  Max(S) \in S /\ \A x \in S : Max(S) >= x
  BY DEF HasMax, Max

\* What resolveDependencies chooses for a dependency may be locked.
LEMMA ResolverFits ==
  ASSUME PackageInv, NEW dev \in BOOLEAN, Resolvable(dev), NEW n \in Wanted(dev)
  PROVE  Fits(n, ResolveDependency(n))
<1> USE PackageAssumption DEF PackageInv
<1>1. n \in Declared /\ n \in Names /\ manifest[n] \in Dependency
  BY DEF Wanted, Declared, TypeOK
<1>2. CASE manifest[n].tag = None
  <2> DEFINE range == manifest[n].range
             best == Max(Matching(n, range))
  <2>1. range \in Ranges /\ Matching(n, range) # {}
    BY <1>1, <1>2 DEF Resolvable, Dependency
  <2>2. best \in Matching(n, range) /\ \A x \in Matching(n, range) : best >= x
    BY <1>1, <2>1, MaxIsGreatest DEF TagsHaveMax
  <2>3. best \in tags[n] /\ best \in Versions /\ Satisfies(best, range)
    BY <1>1, <2>2 DEF Matching, TypeOK
  <2>4. best >= top[n]
    <3> HIDE DEF best, range
    <3>1. CASE top[n] = 0
      BY <2>3, <3>1
    <3>2. CASE top[n] # 0
      BY <1>1, <1>2, <2>2, <3>2 DEF TopIsReachable, Matching, range
    <3> QED
      BY <3>1, <3>2
  <2>5. ResolveDependency(n) = [tag |-> best, commit |-> best]
    BY <1>2 DEF ResolveDependency, FindBestMatchingVersion
  <2> HIDE DEF best, range
  <2> QED
    BY <1>1, <1>2, <2>3, <2>4, <2>5 DEF Fits, Entry, Commits, range
<1>3. CASE manifest[n].tag # None
  <2>1. manifest[n].tag \in Versions
    BY <1>1, <1>3 DEF Dependency
  <2> QED
    BY <1>1, <1>3, <2>1 DEF ResolveDependency, Fits, Entry, TopIsReachable
<1> QED
  BY <1>2, <1>3

\* Recording what is installed does not change what is locked.
LEMMA CaptureFits ==
  ASSUME NEW n, NEW e, Fits(n, e), NEW dir
  PROVE  Fits(n, Capture(e, dir))
<1>1. e \in Entry
  BY DEF Fits
<1>2. CASE e.commit = None /\ dir \in Commits
  <2>1. Capture(e, dir) = [tag |-> e.tag, commit |-> dir]
    BY <1>1, <1>2 DEF Capture, Entry
  <2>2. manifest[n].tag # None
    BY <1>1, <1>2, PackageAssumption DEF Fits, Entry
  <2> QED
    BY <1>1, <1>2, <2>1, <2>2 DEF Fits, Entry
<1>3. CASE ~(e.commit = None /\ dir \in Commits)
  BY <1>3 DEF Capture
<1> QED
  BY <1>2, <1>3

LEMMA NothingResolved ==
  /\ Empty \in LockFiles
  /\ Empty \in UNION {[S -> Resolved] : S \in SUBSET Names}
BY DEF Empty, LockFiles

-----------------------------------------------------------------------------
(* The commands begin                                                      *)

\* A command that begins vouches for nothing yet; only what it is about to do
\* is left to show.
LEMMA Begins ==
  ASSUME PackageInv, promised' = {}, verified' = FALSE,
         UNCHANGED <<manifest, lock, tags, top>>
  PROVE  /\ TagsHaveMax' /\ TopIsReachable' /\ LockedSatisfies' /\ VouchedAtEnd'
         /\ InstallRecovers' /\ VerifiedIsExact' /\ LockNeverGoesBack'
<1> USE DEF PackageInv
<1>1. TagsHaveMax'
  BY DEF TagsHaveMax, HasMax, Matching
<1>2. TopIsReachable'
  BY DEF TopIsReachable, Declared
<1>3. LockedSatisfies'
  BY DEF LockedSatisfies, Declared
<1> QED
  BY <1>1, <1>2, <1>3
     DEF VouchedAtEnd, InstallRecovers, VerifiedIsExact, LockNeverGoesBack

LEMMA InstallLockedInv ==
  ASSUME PackageInv, NEW dev \in BOOLEAN, NEW offline \in BOOLEAN,
         InstallLocked(dev, offline)
  PROVE  PackageInv'
<1> USE DEF PackageInv, InstallLocked, Begin
<1>0. lock \in LockFiles /\ DOMAIN lock \subseteq Names
  BY DEF LockfileValid, TypeOK, LockFiles
<1>1. TypeOK'
  <2>1. lock \in UNION {[S -> Resolved] : S \in SUBSET Names}
    BY <1>0 DEF LockFiles, Resolved
  <2> QED
    BY <1>0, <2>1 DEF TypeOK, Locals
<1>2. ResolvedFits' /\ AddPins' /\ KindOfStep'
  BY DEF ResolvedFits, WillLock, AddPins, KindOfStep
<1>3. InstallGoesOn'
  BY <1>0 DEF InstallGoesOn, LockfileValid, Wanted, Declared
<1> QED
  BY <1>1, <1>2, <1>3, Begins

LEMMA InstallFreshInv ==
  ASSUME PackageInv, NEW dev \in BOOLEAN, NEW offline \in BOOLEAN,
         NEW clean \in BOOLEAN, InstallFresh(dev, offline, clean)
  PROVE  PackageInv'
<1> USE DEF PackageInv, InstallFresh, Begin
<1>0. \A n \in Wanted(dev) : Fits(n, ResolveDependency(n))
  BY ResolverFits
<1>5. ResolveDependencies(dev) \in LockFiles
  <2>1. ResolveDependencies(dev) \in [Wanted(dev) -> Entry]
    BY <1>0 DEF ResolveDependencies, Fits
  <2> QED
    BY <2>1 DEF LockFiles, Wanted, Declared
<1>1. TypeOK'
  <2>1. Wanted(dev) \subseteq Names
    BY DEF Wanted, Declared
  <2>2. ResolveDependencies(dev) \in UNION {[S -> Resolved] : S \in SUBSET Names}
    BY <1>5 DEF LockFiles, Resolved
  <2> QED
    BY <2>1, <2>2 DEF TypeOK, Locals
<1>2. ResolvedFits'
  BY <1>0 DEF ResolvedFits, ResolveDependencies, Fits, Declared
<1>3. InstallGoesOn'
  BY <1>5 DEF InstallGoesOn, ResolveDependencies, Wanted, Declared
<1>4. AddPins' /\ KindOfStep'
  BY DEF AddPins, KindOfStep, ResolveDependencies
<1> QED
  BY <1>1, <1>2, <1>3, <1>4, Begins

LEMMA AddInv ==
  ASSUME PackageInv, NEW n \in Names, NEW range \in Ranges,
         NEW noInstall \in BOOLEAN, Add(n, range, noInstall)
  PROVE  PackageInv'
<1> USE PackageAssumption DEF PackageInv, Add, Begin
<1>0. Max(tags[n]) \in tags[n] /\ \A v \in tags[n] : Max(tags[n]) >= v
  BY MaxIsGreatest DEF TagsHaveMax
<1>1. Max(tags[n]) \in Versions /\ Max(tags[n]) >= top[n]
  <2> DEFINE max == Max(tags[n])
  <2> HIDE DEF max, Add
  <2>1. max \in Versions
    BY <1>0 DEF TypeOK, max
  <2>2. top[n] \in tags[n] \/ top[n] = 0
    BY DEF TopIsReachable
  <2>3. CASE top[n] \in tags[n]
    BY <1>0, <2>1, <2>3 DEF max
  <2>4. CASE top[n] = 0
    <3>1. max \in Nat
      BY <2>1
    <3> QED
      BY <2>1, <2>4, <3>1 DEF max
  <2> QED
    BY <2>1, <2>2, <2>3, <2>4 DEF max
<1>2. TypeOK'
  <2> DEFINE pin == [m \in {n} |-> [tag |-> Max(tags[n]), range |-> range]]
  <2>1. pin \in [{n} -> Resolved]
    BY <1>1 DEF Resolved
  <2>2. pin \in UNION {[S -> Resolved] : S \in SUBSET Names}
    BY <2>1
  <2>3. dirs' \in [Names -> Commits \union {Broken, None}]
    BY DEF TypeOK
  <2> HIDE DEF pin
  <2>4. cmd' = [kind |-> "add", todo |-> IF noInstall THEN {} ELSE {n},
                resolved |-> pin, fresh |-> FALSE, dev |-> FALSE,
                offline |-> FALSE, failed |-> FALSE]
    BY DEF pin
  <2>5. /\ UNCHANGED <<manifest, lock, tags, top>>
        /\ pc' = "each" /\ promised' = {} /\ verified' = FALSE
    OBVIOUS
  <2> HIDE DEF Add, Begin
  <2>6. cmd'.resolved = pin /\ cmd'.todo \in SUBSET Names
    BY <2>4
  <2> QED
    BY <2>2, <2>3, <2>4, <2>5, <2>6 DEF TypeOK, Locals
<1>3. AddPins'
  BY <1>0, <1>1 DEF AddPins
<1>4. ResolvedFits' /\ InstallGoesOn' /\ KindOfStep'
  BY DEF ResolvedFits, WillLock, InstallGoesOn, KindOfStep
<1> QED
  BY <1>2, <1>3, <1>4, Begins

LEMMA RemoveInv ==
  ASSUME PackageInv, NEW S \in SUBSET Names, RemoveCommand(S)
  PROVE  PackageInv'
<1> USE DEF PackageInv, RemoveCommand, Begin
<1>1. TypeOK'
  <2>1. manifest' \in [Names -> Dependency \union {None}]
    BY DEF TypeOK
  <2>2. Empty \in UNION {[T -> Resolved] : T \in SUBSET Names}
    BY NothingResolved
  <2>3. cmd' = [kind |-> "remove", todo |-> S, resolved |-> Empty, fresh |-> FALSE,
                dev |-> FALSE, offline |-> FALSE, failed |-> FALSE]
    BY DEF Idle
  <2>4. /\ UNCHANGED <<lock, dirs, tags, top>>
        /\ pc' = "relock" /\ promised' = {} /\ verified' = FALSE
    OBVIOUS
  <2> HIDE DEF RemoveCommand, Begin
  <2> QED
    BY <2>1, <2>2, <2>3, <2>4 DEF TypeOK, Locals
<1>2. TagsHaveMax' /\ TopIsReachable' /\ LockedSatisfies'
  BY DEF TagsHaveMax, HasMax, Matching, TopIsReachable, LockedSatisfies, Declared,
         TypeOK
<1>3. ResolvedFits' /\ AddPins' /\ InstallGoesOn' /\ KindOfStep'
  BY DEF ResolvedFits, WillLock, AddPins, InstallGoesOn, KindOfStep, Idle
<1>4. VouchedAtEnd' /\ InstallRecovers' /\ VerifiedIsExact' /\ LockNeverGoesBack'
  BY DEF VouchedAtEnd, InstallRecovers, VerifiedIsExact, LockNeverGoesBack
<1> QED
  BY <1>1, <1>2, <1>3, <1>4

LEMMA UpdateInv ==
  ASSUME PackageInv, NEW S \in SUBSET Names, NEW latest \in BOOLEAN,
         NEW dev \in BOOLEAN, Update(S, latest, dev)
  PROVE  PackageInv'
<1> USE PackageAssumption DEF PackageInv, Update, Begin
<1> DEFINE todo == {n \in S : HasUpdate(n, latest)}
           new == [n \in todo |-> [tag |-> NewTag(n, latest)]]
<1>1. ASSUME NEW n \in todo
      PROVE  NewTag(n, latest) \in Versions \union {None}
  <2>1. n \in Names /\ n \in Declared /\ manifest[n] \in Dependency
    BY DEF Wanted, Declared, TypeOK
  <2>2. CASE n \notin DOMAIN lock
    BY <2>2 DEF NewTag
  <2>3. CASE n \in DOMAIN lock /\ latest
    BY <2>1, <2>3, MaxIsGreatest DEF NewTag, TagsHaveMax, TypeOK
  <2>4. CASE n \in DOMAIN lock /\ ~latest
    <3> DEFINE range == manifest[n].range
               choice == Matching(n, range) \union {lock[n].tag}
    <3>1. lock[n].tag \in Versions /\ range \in Ranges
      BY <2>1, <2>4 DEF TypeOK, LockFiles, Entry, Dependency
    <3>2. Matching(n, range) \subseteq Versions
      BY <2>1 DEF Matching, TypeOK
    <3>3. HasMax(choice)
      BY <2>1, <3>1, <3>2 DEF TagsHaveMax, HasMax
    <3>4. Max(choice) \in choice
      BY <3>3, MaxIsGreatest
    <3> QED
      BY <2>4, <3>1, <3>2, <3>4 DEF NewTag
  <2> QED
    BY <2>2, <2>3, <2>4
<1>2. TypeOK'
  <2>1. new \in [todo -> Resolved]
    BY <1>1 DEF Resolved
  <2>2. new \in UNION {[T -> Resolved] : T \in SUBSET Names}
    BY <2>1
  <2>3. cmd' = [Idle EXCEPT !.kind = "update", !.todo = todo, !.resolved = new]
    OBVIOUS
  <2> HIDE DEF todo, new
  <2>4. todo \in SUBSET Names
    BY DEF todo
  <2> QED
    BY <2>2, <2>3, <2>4 DEF TypeOK, Locals, Idle
<1>3. ResolvedFits' /\ AddPins' /\ InstallGoesOn' /\ KindOfStep'
  BY DEF ResolvedFits, WillLock, AddPins, InstallGoesOn, KindOfStep, Idle
<1> QED
  BY <1>2, <1>3, Begins

-----------------------------------------------------------------------------
(* The steps of a command                                                  *)

\* A step that vouches for nothing, and leaves the lock file or empties it.
LEMMA GoesOn ==
  ASSUME PackageInv, pc # "idle", lock' \in {lock, Empty},
         UNCHANGED <<manifest, tags, promised, verified, top>>
  PROVE  /\ TagsHaveMax' /\ TopIsReachable' /\ LockedSatisfies' /\ VouchedAtEnd'
         /\ InstallRecovers' /\ VerifiedIsExact' /\ LockNeverGoesBack'
<1> USE DEF PackageInv
<1>1. TagsHaveMax' /\ TopIsReachable'
  BY DEF TagsHaveMax, HasMax, Matching, TopIsReachable, Declared
<1>2. LockedSatisfies' /\ LockNeverGoesBack'
  <2>1. CASE lock' = lock
    BY <2>1 DEF LockedSatisfies, LockNeverGoesBack, Declared
  <2>2. CASE lock' = Empty
    BY <2>2 DEF LockedSatisfies, LockNeverGoesBack, Empty
  <2> QED
    BY <2>1, <2>2
<1> QED
  BY <1>1, <1>2 DEF VouchedAtEnd, InstallRecovers, VerifiedIsExact

\* A step that ends the command.
LEMMA Ends ==
  ASSUME End
  PROVE  /\ ResolvedFits' /\ AddPins' /\ InstallGoesOn' /\ KindOfStep'
         /\ cmd' \in Locals
  BY NothingResolved DEF End, Idle, Locals, ResolvedFits, WillLock, AddPins,
                         InstallGoesOn, KindOfStep

\* The package of the loop is on disk when it is installed.
LEMMA OnDisk ==
  ASSUME PackageInv, NEW n \in Names, InstallDependency(n)
  PROVE  /\ dirs' \in [Names -> Commits \union {Broken, None}]
         /\ dirs'[n] \in Commits
         /\ \A m \in Names \ {n} : dirs'[m] = dirs[m]
<1> USE DEF PackageInv, InstallDependency
<1>1. n \in DOMAIN cmd.resolved
  BY DEF KindOfStep
<1>2. cmd.resolved[n] \in Resolved
  BY <1>1 DEF TypeOK, Locals
<1>3. cmd.resolved[n].tag \in Versions \union {None}
  BY <1>2 DEF Resolved, Entry
<1>4. Cloned(cmd.resolved[n].tag) \in Commits
  BY <1>3 DEF Cloned, Commits
<1> QED
  BY <1>4 DEF Kept, TypeOK

LEMMA InstallDependencyInv ==
  ASSUME PackageInv, NEW n \in Names, InstallDependency(n)
  PROVE  PackageInv'
<1> USE DEF PackageInv, InstallDependency
<1> DEFINE entry == IF cmd.kind = "install" THEN Capture(cmd.resolved[n], dirs'[n])
                                            ELSE cmd.resolved[n]
<1>1. n \in DOMAIN cmd.resolved /\ cmd.resolved[n] \in Resolved
  BY DEF KindOfStep, TypeOK, Locals
<1>2. cmd.kind = "install" => cmd.resolved[n] \in Entry /\ entry \in Entry
  <2> SUFFICES ASSUME cmd.kind = "install"
               PROVE  cmd.resolved[n] \in Entry /\ entry \in Entry
    OBVIOUS
  <2>1. cmd.resolved[n] \in Entry
    BY <1>1 DEF InstallGoesOn, LockFiles
  <2> QED
    BY <2>1 DEF Capture, Entry
<1>3. entry \in Resolved
  BY <1>1, <1>2 DEF Resolved
<1>4. /\ cmd' = [cmd EXCEPT !.todo = cmd.todo \ {n},
                            !.resolved = [cmd.resolved EXCEPT ![n] = entry]]
      /\ cmd \in Locals
  BY DEF TypeOK
<1> HIDE DEF entry
<1>5. /\ cmd'.todo = cmd.todo \ {n}
      /\ cmd'.resolved = [cmd.resolved EXCEPT ![n] = entry]
      /\ cmd'.kind = cmd.kind /\ cmd'.fresh = cmd.fresh /\ cmd'.dev = cmd.dev
      /\ cmd'.offline = cmd.offline /\ cmd'.failed = cmd.failed
  BY <1>4 DEF Locals
<1>6. TypeOK'
  <2>1. cmd'.resolved \in UNION {[S -> Resolved] : S \in SUBSET Names}
    <3>1. PICK S \in SUBSET Names : cmd.resolved \in [S -> Resolved]
      BY <1>4 DEF Locals
    <3> HIDE DEF InstallDependency
    <3>2. cmd'.resolved \in [S -> Resolved]
      BY <1>3, <1>5, <3>1
    <3> QED
      BY <3>2
  <2>2. cmd' = [cmd EXCEPT !.todo = cmd'.todo, !.resolved = cmd'.resolved]
    BY <1>4, <1>5
  <2>3. cmd'.todo \in SUBSET Names
    BY <1>4, <1>5 DEF Locals
  <2>4. cmd' \in Locals
    BY <1>4, <2>1, <2>2, <2>3 DEF Locals
  <2> QED
    BY <2>4, OnDisk DEF TypeOK
<1>7. ResolvedFits'
  <2> SUFFICES ASSUME WillLock', NEW m \in DOMAIN cmd'.resolved
               PROVE  Fits(m, cmd.resolved[m])'
    BY DEF ResolvedFits
  <2>1. m \in DOMAIN cmd.resolved /\ Fits(m, cmd.resolved[m])
    BY <1>5 DEF WillLock, ResolvedFits
  <2>2. Fits(m, cmd'.resolved[m])
    BY <1>5, <2>1, CaptureFits DEF entry
  <2> QED
    BY <2>2 DEF Fits, Declared
<1>8. AddPins'
  BY <1>5 DEF AddPins, entry
<1>9. InstallGoesOn'
  <2> SUFFICES ASSUME cmd.kind = "install" PROVE InstallGoesOn'
    BY <1>5 DEF InstallGoesOn
  <2>1. cmd'.resolved \in LockFiles
    <3>1. PICK S \in SUBSET Names : cmd.resolved \in [S -> Entry]
      BY DEF InstallGoesOn, LockFiles
    <3> HIDE DEF InstallDependency
    <3>2. cmd'.resolved \in [S -> Entry]
      BY <1>2, <1>5, <3>1
    <3> QED
      BY <3>2 DEF LockFiles
  <2>2. DOMAIN cmd'.resolved = DOMAIN cmd.resolved
    BY <1>5
  <2>3. Wanted(cmd.dev)' = Wanted(cmd.dev)
    BY <1>5 DEF Wanted, Declared
  <2>4. ASSUME ~cmd.offline, ~cmd.failed, NEW m \in DOMAIN cmd'.resolved \ cmd'.todo
        PROVE  dirs'[m] \in Commits
    <3>1. m \in Names
      BY <2>1 DEF LockFiles
    <3> QED
      BY <1>5, <2>2, <2>4, <3>1, OnDisk DEF InstallGoesOn
  <2> QED
    BY <1>5, <2>1, <2>2, <2>3, <2>4 DEF InstallGoesOn
<1>10. KindOfStep'
  BY <1>5 DEF KindOfStep
<1> QED
  BY <1>6, <1>7, <1>8, <1>9, <1>10, GoesOn

LEMMA InstallFailsInv ==
  ASSUME PackageInv, NEW n \in Names, InstallFails(n)
  PROVE  PackageInv'
<1> USE DEF PackageInv, InstallFails
<1>1. TypeOK'
  BY DEF TypeOK, Locals
<1>2. /\ cmd'.todo = cmd.todo \ {n} /\ cmd'.failed = TRUE
      /\ cmd'.resolved = cmd.resolved /\ cmd'.kind = cmd.kind
      /\ cmd'.fresh = cmd.fresh /\ cmd'.dev = cmd.dev
  BY DEF TypeOK, Locals
<1>3. ResolvedFits' /\ AddPins' /\ KindOfStep'
  BY <1>2 DEF ResolvedFits, WillLock, Fits, Declared, AddPins, KindOfStep
<1>4. InstallGoesOn'
  BY <1>2 DEF InstallGoesOn, Wanted, Declared
<1> QED
  BY <1>1, <1>3, <1>4, GoesOn

LEMMA SkipInv ==
  ASSUME PackageInv, NEW n \in Names, Skip(n)
  PROVE  PackageInv'
<1> USE DEF PackageInv, Skip
<1>1. TypeOK'
  BY DEF TypeOK, Locals
<1>2. /\ cmd'.todo = cmd.todo \ {n} /\ cmd'.offline
      /\ cmd'.resolved = cmd.resolved /\ cmd'.kind = cmd.kind
      /\ cmd'.fresh = cmd.fresh /\ cmd'.dev = cmd.dev
  BY DEF TypeOK, Locals
<1>3. ResolvedFits' /\ AddPins' /\ KindOfStep'
  BY <1>2 DEF ResolvedFits, WillLock, Fits, Declared, AddPins, KindOfStep
<1>4. InstallGoesOn'
  BY <1>2 DEF InstallGoesOn, Wanted, Declared
<1> QED
  BY <1>1, <1>3, <1>4, GoesOn

LEMMA EndFailedInv ==
  ASSUME PackageInv, EndFailed
  PROVE  PackageInv'
<1> USE DEF PackageInv, EndFailed
<1>1. TypeOK'
  BY Ends DEF TypeOK, End
<1> QED
  BY <1>1, Ends, GoesOn DEF Done

\* An install from the lock file leaves what the lock file asks for.
LEMMA EndInstalledInv ==
  ASSUME PackageInv, EndInstalled
  PROVE  PackageInv'
<1> USE DEF PackageInv, EndInstalled
<1>1. TypeOK'
  BY Ends DEF TypeOK, End, Vouch, Wanted, Declared
<1>2. InstallRecovers'
  BY DEF InstallRecovers, InstallGoesOn, Vouch, Done, Wanted, Declared, Empty
<1>3. TagsHaveMax' /\ TopIsReachable'
  BY DEF TagsHaveMax, HasMax, Matching, TopIsReachable, Declared
<1>4. LockedSatisfies' /\ VouchedAtEnd' /\ VerifiedIsExact' /\ LockNeverGoesBack'
  BY DEF LockedSatisfies, VouchedAtEnd, VerifiedIsExact, LockNeverGoesBack, Done,
         Declared, End
<1> QED
  BY <1>1, <1>2, <1>3, <1>4, Ends

\* The tag an add pins is released, and none that was locked is newer.
LEMMA EndAddInv ==
  ASSUME PackageInv, EndAdd
  PROVE  PackageInv'
<1> USE PackageAssumption DEF PackageInv, EndAdd
<1>1. ASSUME NEW n \in Names, n \in DOMAIN cmd.resolved
      PROVE  /\ manifest'[n] \in Dependency /\ manifest'[n].tag # None
             /\ manifest'[n].tag \in tags[n] /\ manifest'[n].tag >= top[n]
  BY <1>1 DEF AddPins, Dependency
<1>2. \A n \in Names : n \notin DOMAIN cmd.resolved => manifest'[n] = manifest[n]
  OBVIOUS
<1>3. TypeOK'
  <2>1. manifest' \in [Names -> Dependency \union {None}]
    BY <1>1, <1>2 DEF TypeOK
  <2> QED
    BY <2>1, Ends DEF TypeOK, End
<1>4. TagsHaveMax'
  BY DEF TagsHaveMax, HasMax, Matching
<1> HIDE DEF EndAdd
<1>5. UNCHANGED <<lock, dirs, tags, promised, verified, top>> /\ pc # "idle"
  BY DEF EndAdd, Done
<1>6. TopIsReachable'
  BY <1>1, <1>2, <1>5 DEF TopIsReachable, Declared
<1>7. LockedSatisfies'
  <2> SUFFICES ASSUME lock # NoFile, NEW n \in DOMAIN lock, (n \in Declared)',
                      manifest'[n].tag = None
               PROVE  Satisfies(lock[n].tag, manifest'[n].range)
    BY <1>5 DEF LockedSatisfies
  <2>1. n \in Names /\ manifest'[n] = manifest[n]
    BY <1>1, <1>2 DEF Declared
  <2> QED
    BY <2>1 DEF LockedSatisfies, Declared
<1>8. VouchedAtEnd' /\ InstallRecovers' /\ VerifiedIsExact' /\ LockNeverGoesBack'
  BY <1>5 DEF VouchedAtEnd, InstallRecovers, VerifiedIsExact, LockNeverGoesBack
<1> QED
  BY <1>3, <1>4, <1>6, <1>7, <1>8, Ends DEF EndAdd

LEMMA RelockInv ==
  ASSUME PackageInv, Relock
  PROVE  PackageInv'
<1> USE DEF PackageInv, Relock
<1> DEFINE entry(n) == IF cmd.kind = "update"
                         THEN Capture(ResolveDependency(n), dirs[n])
                         ELSE ResolveDependency(n)
           new == [n \in Wanted(TRUE) |-> entry(n)]
<1>1. \A n \in Wanted(TRUE) : Fits(n, entry(n))
  BY ResolverFits, CaptureFits
<1>2. pc # "idle" /\ cmd.kind # "install"
  BY DEF MayRelock, Done, InstallGoesOn
<1>3. cmd' = [cmd EXCEPT !.resolved = new] /\ cmd \in Locals
  BY DEF TypeOK
<1>4. cmd'.resolved = new /\ cmd'.kind = cmd.kind
  BY <1>3 DEF Locals
<1>5. TypeOK'
  <2>1. new \in [Wanted(TRUE) -> Resolved]
    BY <1>1 DEF Fits, Resolved
  <2>2. new \in UNION {[S -> Resolved] : S \in SUBSET Names}
    BY <2>1 DEF Wanted, Declared
  <2> HIDE DEF new
  <2>3. cmd' \in Locals
    BY <1>3, <2>2 DEF Locals
  <2>4. Empty \in LockFiles
    BY NothingResolved
  <2> QED
    BY <2>3, <2>4 DEF TypeOK
<1>6. ResolvedFits'
  <2> SUFFICES ASSUME NEW n \in Wanted(TRUE) PROVE Fits(n, cmd.resolved[n])'
    BY <1>4 DEF ResolvedFits
  <2>1. cmd'.resolved[n] = entry(n)
    BY <1>4
  <2> HIDE DEF entry
  <2> QED
    BY <1>1, <2>1 DEF Fits, Declared
<1>7. AddPins' /\ InstallGoesOn' /\ KindOfStep'
  <2>1. cmd.kind \in {"update", "remove"}
    BY DEF MayRelock, KindOfStep
  <2> HIDE DEF new
  <2> QED
    BY <1>4, <2>1 DEF AddPins, InstallGoesOn, KindOfStep
<1> QED
  BY <1>2, <1>5, <1>6, <1>7, GoesOn

LEMMA RelockFailsInv ==
  ASSUME PackageInv, RelockFails
  PROVE  PackageInv'
<1> USE DEF PackageInv, RelockFails
<1>1. pc # "idle"
  BY DEF MayRelock, Done
<1>2. CASE cmd.kind = "remove"
  <2>1. pc' = "ask" /\ UNCHANGED cmd
    BY <1>2 DEF AfterLock
  <2>2. TypeOK'
    BY <2>1 DEF TypeOK
  <2>3. ResolvedFits' /\ AddPins' /\ InstallGoesOn' /\ KindOfStep'
    BY <1>2, <2>1 DEF ResolvedFits, WillLock, AddPins, InstallGoesOn, KindOfStep
  <2> QED
    BY <1>1, <2>2, <2>3, GoesOn
<1>3. CASE cmd.kind # "remove"
  <2>1. End
    BY <1>3 DEF AfterLock
  <2>2. TypeOK'
    BY <2>1, Ends DEF TypeOK, End
  <2> QED
    BY <1>1, <2>1, <2>2, Ends, GoesOn
<1> QED
  BY <1>2, <1>3

LEMMA OpenLockFileInv ==
  ASSUME PackageInv, OpenLockFile
  PROVE  PackageInv'
<1> USE DEF PackageInv, OpenLockFile
<1>1. TypeOK'
  <2>1. Empty \in LockFiles
    BY NothingResolved
  <2> QED
    BY <2>1 DEF TypeOK
<1>2. ResolvedFits' /\ AddPins' /\ KindOfStep'
  BY DEF ResolvedFits, WillLock, Fits, Declared, AddPins, KindOfStep, Done
<1>3. InstallGoesOn'
  BY DEF InstallGoesOn, Wanted, Declared, Done
<1> QED
  BY <1>1, <1>2, <1>3, GoesOn DEF Done

\* What is written fits the manifest and is as new as what was locked before.
LEMMA WriteLockFileInv ==
  ASSUME PackageInv, NEW verify \in BOOLEAN, WriteLockFile(verify)
  PROVE  PackageInv'
<1> USE PackageAssumption DEF PackageInv
<1>1. /\ pc = "write" /\ lock' = cmd.resolved
      /\ UNCHANGED <<manifest, dirs, tags, verified>>
  BY DEF WriteLockFile
<1>2. \A n \in DOMAIN lock' : Fits(n, lock'[n])
  BY <1>1 DEF ResolvedFits, WillLock
<1>3. lock' \in LockFiles
  <2>1. PICK S \in SUBSET Names : cmd.resolved \in [S -> Resolved]
    BY DEF TypeOK, Locals
  <2>2. cmd.resolved \in [S -> Entry]
    BY <1>1, <1>2, <2>1 DEF Fits
  <2> QED
    BY <1>1, <2>2 DEF LockFiles
<1>4. ASSUME NEW n \in Names
      PROVE  top'[n] = IF n \in DOMAIN lock' THEN lock'[n].tag ELSE top[n]
  <2>1. top'[n] = IF n \in DOMAIN lock' THEN Max({top[n], lock'[n].tag}) ELSE top[n]
    BY DEF WriteLockFile
  <2>2. CASE n \in DOMAIN lock'
    <3> DEFINE tag == lock'[n].tag
               two == {top[n], tag}
    <3>1. tag \in Nat /\ top[n] \in Nat /\ tag >= top[n]
      BY <1>2, <2>2 DEF Fits, Entry, TypeOK
    <3>2. HasMax(two)
      BY <3>1 DEF HasMax
    <3>3. Max(two) \in two /\ Max(two) >= tag /\ Max(two) >= top[n]
      BY <3>2, MaxIsGreatest
    <3> QED
      BY <2>1, <2>2, <3>1, <3>3
  <2> QED
    BY <2>1, <2>2
<1>5. top' \in [Names -> Nat]
  <2>1. \A n \in Names : top'[n] \in Nat
    BY <1>2, <1>4 DEF Fits, Entry, TypeOK
  <2>2. top' = [n \in Names |-> top'[n]]
    BY DEF WriteLockFile
  <2> QED
    BY <2>1, <2>2
<1>6. TagsHaveMax'
  BY <1>1 DEF TagsHaveMax, HasMax, Matching
<1>7. TopIsReachable'
  <2> SUFFICES ASSUME NEW n \in Names
               PROVE  /\ top'[n] \in tags[n] \union {0}
                      /\ n \in Declared =>
                           IF manifest[n].tag = None
                             THEN top'[n] = 0 \/ Satisfies(top'[n], manifest[n].range)
                             ELSE /\ manifest[n].tag \in tags[n]
                                  /\ manifest[n].tag >= top'[n]
    BY <1>1 DEF TopIsReachable, Declared
  <2>1. CASE n \in DOMAIN lock'
    <3>1. Fits(n, lock'[n]) /\ top'[n] = lock'[n].tag
      BY <1>2, <1>4, <2>1
    <3>2. lock'[n].tag \in Nat
      BY <3>1 DEF Fits, Entry
    <3> QED
      BY <3>1, <3>2 DEF Fits
  <2>2. CASE n \notin DOMAIN lock'
    BY <1>4, <2>2 DEF TopIsReachable
  <2> QED
    BY <2>1, <2>2
<1>8. LockedSatisfies'
  BY <1>1, <1>2 DEF LockedSatisfies, Fits, Declared
<1>9. LockNeverGoesBack'
  <2> SUFFICES ASSUME NEW n \in DOMAIN lock' PROVE lock'[n].tag >= top'[n]
    BY DEF LockNeverGoesBack
  <2>1. n \in Names /\ lock'[n].tag \in Versions
    BY <1>2, <1>3 DEF LockFiles, Fits, Entry
  <2>2. top'[n] = lock'[n].tag /\ lock'[n].tag \in Nat
    BY <1>4, <2>1
  <2> QED
    BY <2>2
<1>10. CASE cmd.kind = "install" /\ verify
  <2>1. pc' = "verify" /\ UNCHANGED <<cmd, promised>>
    BY <1>10 DEF WriteLockFile
  <2>2. TypeOK'
    BY <1>1, <1>3, <1>5, <2>1 DEF TypeOK
  <2>3. ResolvedFits'
    <3> SUFFICES ASSUME NEW n \in DOMAIN cmd.resolved
                 PROVE  Fits(n, cmd.resolved[n])'
      BY <2>1 DEF ResolvedFits
    <3>1. n \in Names /\ Fits(n, lock'[n]) /\ top'[n] = lock'[n].tag
      BY <1>1, <1>2, <1>3, <1>4 DEF LockFiles
    <3>2. lock'[n].tag \in Nat
      BY <3>1 DEF Fits, Entry
    <3> QED
      BY <1>1, <2>1, <3>1, <3>2 DEF Fits, Declared
  <2>4. InstallGoesOn'
    BY <1>1, <1>10, <2>1 DEF InstallGoesOn, Wanted, Declared
  <2>5. AddPins' /\ KindOfStep'
    BY <1>10, <2>1 DEF AddPins, KindOfStep
  <2>6. VouchedAtEnd' /\ InstallRecovers' /\ VerifiedIsExact'
    BY <1>1, <2>1 DEF VouchedAtEnd, InstallRecovers, VerifiedIsExact
  <2> QED
    BY <1>6, <1>7, <1>8, <1>9, <2>2, <2>3, <2>4, <2>5, <2>6
<1>11. CASE ~(cmd.kind = "install" /\ verify) /\ cmd.kind = "remove"
  <2>1. pc' = "ask" /\ UNCHANGED <<cmd, promised>>
    BY <1>11 DEF WriteLockFile, AfterLock
  <2>2. TypeOK'
    BY <1>1, <1>3, <1>5, <2>1 DEF TypeOK
  <2>3. ResolvedFits' /\ AddPins' /\ InstallGoesOn' /\ KindOfStep'
    BY <1>11, <2>1 DEF ResolvedFits, WillLock, AddPins, InstallGoesOn, KindOfStep
  <2>4. VouchedAtEnd' /\ InstallRecovers' /\ VerifiedIsExact'
    BY <1>1, <2>1 DEF VouchedAtEnd, InstallRecovers, VerifiedIsExact
  <2> QED
    BY <1>6, <1>7, <1>8, <1>9, <2>2, <2>3, <2>4
<1>12. CASE ~(cmd.kind = "install" /\ verify) /\ cmd.kind # "remove"
  <2>1. End /\ IF cmd.kind = "install" THEN Vouch ELSE UNCHANGED promised
    BY <1>12 DEF WriteLockFile, AfterLock
  <2>2. TypeOK'
    BY <1>1, <1>3, <1>5, <2>1, Ends DEF TypeOK, End, Vouch, Wanted, Declared
  <2>3. InstallRecovers'
    <3>1. CASE cmd.kind = "install"
      BY <1>1, <1>3, <2>1, <3>1
         DEF InstallRecovers, InstallGoesOn, Vouch, Wanted, Declared
    <3>2. CASE cmd.kind # "install"
      BY <1>1, <2>1, <3>2 DEF InstallRecovers, VouchedAtEnd
    <3> QED
      BY <3>1, <3>2
  <2>4. VouchedAtEnd' /\ VerifiedIsExact'
    BY <1>1, <2>1 DEF VouchedAtEnd, VerifiedIsExact, End
  <2> QED
    BY <1>6, <1>7, <1>8, <1>9, <2>1, <2>2, <2>3, <2>4, Ends
<1> QED
  BY <1>10, <1>11, <1>12

\* The lock file was just written: its commit is the tag's where the
\* dependency is given by a constraint, and what verify compares.
LEMMA VerifyLockFileInv ==
  ASSUME PackageInv, VerifyLockFile
  PROVE  PackageInv'
<1> USE PackageAssumption DEF PackageInv, VerifyLockFile
<1>1. /\ cmd.kind = "install" /\ cmd.fresh /\ ~cmd.failed /\ cmd.todo = {}
      /\ lock = cmd.resolved /\ lock \in LockFiles
      /\ Wanted(cmd.dev) \subseteq DOMAIN lock
  BY DEF KindOfStep, InstallGoesOn
<1>2. TypeOK'
  BY Ends DEF TypeOK, End, Vouch, Wanted, Declared
<1>3. TagsHaveMax' /\ TopIsReachable'
  BY DEF TagsHaveMax, HasMax, Matching, TopIsReachable, Declared
<1>4. LockedSatisfies' /\ LockNeverGoesBack' /\ VouchedAtEnd'
  BY DEF LockedSatisfies, LockNeverGoesBack, VouchedAtEnd, Declared, End
<1>5. CASE \A n \in DOMAIN lock : VerifyInstalledPackage(n)
  <2>1. InstallRecovers'
    BY <1>1, <1>5 DEF InstallRecovers, Vouch, Wanted, Declared,
                      VerifyInstalledPackage
  <2>2. ASSUME NEW n \in DOMAIN lock, manifest[n].tag = None
        PROVE  dirs[n] = lock[n].tag
    <3>1. Fits(n, lock[n])
      BY <1>1 DEF ResolvedFits, WillLock
    <3>2. lock[n].commit = lock[n].tag /\ lock[n].tag # None
      BY <2>2, <3>1 DEF Fits, Entry
    <3> QED
      BY <1>5, <3>2 DEF VerifyInstalledPackage
  <2>3. VerifiedIsExact'
    BY <2>2 DEF VerifiedIsExact
  <2> QED
    BY <1>2, <1>3, <1>4, <2>1, <2>3, Ends
<1>6. CASE ~\A n \in DOMAIN lock : VerifyInstalledPackage(n)
  <2>1. InstallRecovers' /\ VerifiedIsExact'
    BY <1>6 DEF InstallRecovers, VerifiedIsExact, VouchedAtEnd
  <2> QED
    BY <1>2, <1>3, <1>4, <2>1, Ends
<1> QED
  BY <1>5, <1>6

LEMMA RemovePackageFromDiskInv ==
  ASSUME PackageInv, NEW yes \in BOOLEAN, RemovePackageFromDisk(yes)
  PROVE  PackageInv'
<1> USE DEF PackageInv, RemovePackageFromDisk
<1>1. TypeOK'
  BY Ends DEF TypeOK, End
<1> QED
  BY <1>1, Ends, GoesOn

-----------------------------------------------------------------------------
(* The environment                                                         *)

LEMMA CrashInv ==
  ASSUME PackageInv, Crash
  PROVE  PackageInv'
<1> USE DEF PackageInv, Crash
<1>1. dirs' \in [Names -> Commits \union {Broken, None}]
  <2>1. CASE UNCHANGED dirs
    BY <2>1 DEF TypeOK
  <2>2. ASSUME NEW n \in cmd.todo, NEW left \in {None, Broken},
               dirs' = [dirs EXCEPT ![n] = left]
        PROVE  dirs' \in [Names -> Commits \union {Broken, None}]
    BY <2>2 DEF TypeOK
  <2> QED
    BY <2>1, <2>2
<1>2. TypeOK'
  BY <1>1, Ends DEF TypeOK, End
<1> QED
  BY <1>2, Ends, GoesOn

\* A set of versions that has a greatest one still has it with one more.
LEMMA OneMore ==
  ASSUME NEW S \in SUBSET Nat, S = {} \/ HasMax(S), NEW v \in Nat
  PROVE  HasMax(S \union {v})
<1>1. CASE S = {}
  BY <1>1 DEF HasMax
<1>2. CASE HasMax(S)
  <2>1. PICK m \in S : \A x \in S : m >= x
    BY <1>2 DEF HasMax
  <2>2. CASE m >= v
    BY <2>1, <2>2 DEF HasMax
  <2>3. CASE ~(m >= v)
    <3>1. \A x \in S \union {v} : v >= x
      BY <2>1, <2>3
    <3> QED
      BY <3>1 DEF HasMax
  <2> QED
    BY <2>2, <2>3
<1> QED
  BY <1>1, <1>2

LEMMA ReleaseInv ==
  ASSUME PackageInv, NEW n \in Names, NEW v \in Versions, Release(n, v)
  PROVE  PackageInv'
<1> USE PackageAssumption DEF PackageInv, Release
<1>1. TypeOK'
  BY DEF TypeOK
<1>2. /\ \A m \in Names \ {n} : tags'[m] = tags[m]
      /\ tags'[n] = tags[n] \union {v}
      /\ \A m \in Names : tags[m] \subseteq tags'[m]
  BY DEF TypeOK
<1>3. TagsHaveMax'
  <2>1. ASSUME NEW m \in Names \ {n}, NEW range \in Ranges
        PROVE  /\ tags'[m] # {} /\ HasMax(tags'[m])
               /\ Matching(m, range)' # {} => HasMax(Matching(m, range)')
    BY <1>2 DEF TagsHaveMax, Matching
  <2>2. tags'[n] # {} /\ HasMax(tags'[n])
    <3>1. tags[n] \in SUBSET Nat /\ v \in Nat
      BY DEF TypeOK
    <3> QED
      BY <1>2, <3>1, OneMore DEF TagsHaveMax
  <2>3. ASSUME NEW range \in Ranges, Matching(n, range)' # {}
        PROVE  HasMax(Matching(n, range)')
    <3>1. Matching(n, range) \in SUBSET Nat /\ v \in Nat
      BY DEF Matching, TypeOK
    <3>2. CASE Satisfies(v, range)
      <4>1. Matching(n, range)' = Matching(n, range) \union {v}
        BY <1>2, <3>2 DEF Matching
      <4>2. Matching(n, range) = {} \/ HasMax(Matching(n, range))
        BY DEF TagsHaveMax
      <4> QED
        BY <3>1, <4>1, <4>2, OneMore
    <3>3. CASE ~Satisfies(v, range)
      <4>1. Matching(n, range)' = Matching(n, range)
        BY <1>2, <3>3 DEF Matching
      <4> QED
        BY <2>3, <4>1 DEF TagsHaveMax
    <3> QED
      BY <3>2, <3>3
  <2>4. \A m \in Names : tags'[m] # {} /\ HasMax(tags'[m])
    BY <1>2, <2>2 DEF TagsHaveMax
  <2>5. \A m \in Names, range \in Ranges :
           Matching(m, range)' # {} => HasMax(Matching(m, range)')
    BY <2>1, <2>3
  <2> QED
    BY <2>4, <2>5 DEF TagsHaveMax, HasMax
<1> HIDE DEF Release
<1>4. UNCHANGED <<manifest, lock, dirs, pc, cmd, promised, verified, top>>
  BY DEF Release
<1>5. TopIsReachable'
  BY <1>2, <1>4 DEF TopIsReachable, Declared
<1>6. ResolvedFits'
  BY <1>2, <1>4 DEF ResolvedFits, WillLock, Fits, Declared
<1>7. AddPins'
  <2> SUFFICES ASSUME cmd.kind = "add", NEW m \in DOMAIN cmd.resolved
               PROVE  /\ cmd.resolved[m] \in [tag : Versions, range : Ranges]
                      /\ cmd.resolved[m].tag \in tags'[m]
                      /\ cmd.resolved[m].tag >= top[m]
    BY <1>4 DEF AddPins
  <2>1. m \in Names
    BY DEF TypeOK, Locals
  <2> QED
    BY <1>2, <2>1 DEF AddPins
<1>8. InstallGoesOn' /\ LockedSatisfies' /\ VouchedAtEnd' /\ KindOfStep'
  BY <1>4 DEF InstallGoesOn, LockedSatisfies, VouchedAtEnd, KindOfStep, Wanted,
              Declared
<1>9. InstallRecovers' /\ VerifiedIsExact' /\ LockNeverGoesBack'
  BY <1>4 DEF InstallRecovers, VerifiedIsExact, LockNeverGoesBack
<1> QED
  BY <1>1, <1>3, <1>5, <1>6, <1>7, <1>8, <1>9

-----------------------------------------------------------------------------
(* The theorems                                                            *)

LEMMA InitInv == Init => PackageInv
<1> SUFFICES ASSUME Init PROVE PackageInv
  OBVIOUS
<1> USE PackageAssumption DEF Init
<1>1. TypeOK
  <2>1. manifest \in [Names -> Dependency \union {None}]
    BY DEF Dependency
  <2>2. cmd = Idle
    OBVIOUS
  <2> HIDE DEF Init
  <2>3. cmd \in Locals
    BY <2>2, NothingResolved DEF Locals, Idle
  <2>4. tags \in [Names -> SUBSET Versions]
    BY DEF Init
  <2> QED
    BY <2>1, <2>3, <2>4 DEF TypeOK, Init
<1>2. TagsHaveMax
  <2> SUFFICES ASSUME NEW n \in Names
               PROVE  /\ tags[n] # {} /\ HasMax(tags[n])
                      /\ \A range \in Ranges :
                           Matching(n, range) # {} => HasMax(Matching(n, range))
    BY DEF TagsHaveMax
  <2>1. PICK v \in Versions : tags[n] = {v}
    OBVIOUS
  <2>2. v \in Nat
    OBVIOUS
  <2> QED
    BY <2>1, <2>2 DEF HasMax, Matching
<1>3. TopIsReachable
  <2> SUFFICES ASSUME NEW n \in Names, n \in Declared
               PROVE  manifest[n].tag = None
    BY DEF TopIsReachable
  <2> QED
    BY DEF Declared
<1>4. ResolvedFits /\ AddPins /\ InstallGoesOn /\ KindOfStep
  BY DEF ResolvedFits, WillLock, AddPins, InstallGoesOn, KindOfStep, Idle
<1>5. LockedSatisfies /\ VouchedAtEnd
  BY DEF LockedSatisfies, VouchedAtEnd
<1>6. InstallRecovers /\ VerifiedIsExact /\ LockNeverGoesBack
  BY DEF InstallRecovers, VerifiedIsExact, LockNeverGoesBack
<1> QED
  BY <1>1, <1>2, <1>3, <1>4, <1>5, <1>6 DEF PackageInv

LEMMA StutterInv == PackageInv /\ UNCHANGED vars => PackageInv'
<1> SUFFICES ASSUME PackageInv, UNCHANGED vars PROVE PackageInv'
  OBVIOUS
<1> USE DEF PackageInv, vars
<1>1. TypeOK' /\ TagsHaveMax' /\ TopIsReachable'
  BY DEF TypeOK, TagsHaveMax, HasMax, Matching, TopIsReachable, Declared
<1>2. ResolvedFits' /\ AddPins' /\ InstallGoesOn' /\ KindOfStep'
  BY DEF ResolvedFits, WillLock, Fits, AddPins, InstallGoesOn, KindOfStep, Wanted,
         Declared
<1>3. LockedSatisfies' /\ VouchedAtEnd'
  BY DEF LockedSatisfies, VouchedAtEnd, Declared
<1>4. InstallRecovers' /\ VerifiedIsExact' /\ LockNeverGoesBack'
  BY DEF InstallRecovers, VerifiedIsExact, LockNeverGoesBack
<1> QED
  BY <1>1, <1>2, <1>3, <1>4

LEMMA NextInv == PackageInv /\ [Next]_vars => PackageInv'
<1> SUFFICES ASSUME PackageInv, [Next]_vars PROVE PackageInv'
  OBVIOUS
<1>1. CASE Command
  BY <1>1, InstallLockedInv, InstallFreshInv, AddInv, RemoveInv, UpdateInv
     DEF Command
<1>2. CASE Step
  BY <1>2, InstallDependencyInv, InstallFailsInv, SkipInv, EndFailedInv,
     EndInstalledInv, EndAddInv, RelockInv, RelockFailsInv, OpenLockFileInv,
     WriteLockFileInv, VerifyLockFileInv, RemovePackageFromDiskInv
     DEF Step
<1>3. CASE Crash
  BY <1>3, CrashInv
<1>4. ASSUME NEW n \in Names, NEW v \in Versions, Release(n, v) PROVE PackageInv'
  BY <1>4, ReleaseInv
<1>5. CASE UNCHANGED vars
  BY <1>5, StutterInv
<1> QED
  BY <1>1, <1>2, <1>3, <1>4, <1>5 DEF Next

\* PackageInv holds in every state of a project's files, whatever the commands,
\* the failures and the releases were.
THEOREM PackageInvariance == Spec => []PackageInv
<1>1. Init => PackageInv
  BY InitInv
<1>2. PackageInv /\ [Next]_vars => PackageInv'
  BY NextInv
<1> QED
  BY <1>1, <1>2, PTL DEF Spec

\* An install that succeeds leaves every dependency in the lock file and usable
\* on disk, whatever was killed or failed before (packageInstallCommand).
THEOREM InstallAlwaysRecovers == Spec => []InstallRecovers
<1>1. PackageInv => InstallRecovers
  BY DEF PackageInv
<1> QED
  BY <1>1, PackageInvariance, PTL

\* What install --verify accepts is the commit of the tag in the lock file.
THEOREM VerifiedIsAlwaysExact == Spec => []VerifiedIsExact
<1>1. PackageInv => VerifiedIsExact
  BY DEF PackageInv
<1> QED
  BY <1>1, PackageInvariance, PTL

\* The lock file never has an older version than it had before.
THEOREM LockNeverGoesBackTheorem == Spec => []LockNeverGoesBack
<1>1. PackageInv => LockNeverGoesBack
  BY DEF PackageInv
<1> QED
  BY <1>1, PackageInvariance, PTL

\* A dependency declared with a constraint is locked at a version that
\* satisfies it (findBestMatchingVersion).
THEOREM LockedAlwaysSatisfies == Spec => []LockedSatisfies
<1>1. PackageInv => LockedSatisfies
  BY DEF PackageInv
<1> QED
  BY <1>1, PackageInvariance, PTL

-----------------------------------------------------------------------------
(* Versions and constraints                                                *)

\* The numbers of versions, and of the bounds computed from them.
Version == [major : Nat, minor : Nat, patch : Nat, prerelease : Nat]

\* The versions of the model are versions.
LEMMA VersionsAreNatural == SemanticVersion \subseteq Version
  BY NumbersAssumption DEF SemanticVersion, Version

\* What a comparison says of the numbers, for a version without a prerelease
\* on the right: below it by one of the numbers, or its prerelease.
LEMMA BelowRelease ==
  ASSUME NEW v \in Version, NEW i \in Nat, NEW j \in Nat, NEW k \in Nat
  PROVE  CompareSemanticVersions(v, V(i, j, k)) < 0 <=>
           \/ v.major < i
           \/ v.major = i /\ v.minor < j
           \/ v.major = i /\ v.minor = j /\ v.patch < k
           \/ v.major = i /\ v.minor = j /\ v.patch = k /\ v.prerelease # 0
  BY DEF CompareSemanticVersions, ComparePrerelease, V, Version

\* What it says when a release is on the left.
LEMMA ReleaseNotBelow ==
  ASSUME NEW v \in Version, NEW c \in Version, v.prerelease = 0
  PROVE  CompareSemanticVersions(v, c) >= 0 <=>
           \/ v.major > c.major
           \/ v.major = c.major /\ v.minor > c.minor
           \/ v.major = c.major /\ v.minor = c.minor /\ v.patch >= c.patch
  BY DEF CompareSemanticVersions, ComparePrerelease, Version

\* compareSemanticVersions is a total order on versions: it is antisymmetric
\* (its result changes sign with the order of its arguments, and is zero for
\* equal versions only) and transitive, so the highest tag that satisfies a
\* constraint exists and does not depend on the order in which tags are read.
THEOREM ComparingIsATotalOrder ==
  \A a, b, c \in Version :
    /\ CompareSemanticVersions(a, b) = -CompareSemanticVersions(b, a)
    /\ CompareSemanticVersions(a, b) = 0 <=> a = b
    /\ CompareSemanticVersions(a, b) <= 0 /\ CompareSemanticVersions(b, c) <= 0
         => CompareSemanticVersions(a, c) <= 0
<1> SUFFICES ASSUME NEW a \in Version, NEW b \in Version, NEW c \in Version
             PROVE  /\ CompareSemanticVersions(a, b) = -CompareSemanticVersions(b, a)
                    /\ CompareSemanticVersions(a, b) = 0 <=> a = b
                    /\ CompareSemanticVersions(a, b) <= 0 /\ CompareSemanticVersions(b, c) <= 0
                         => CompareSemanticVersions(a, c) <= 0
  OBVIOUS
<1>1. CompareSemanticVersions(a, b) = -CompareSemanticVersions(b, a)
  BY DEF CompareSemanticVersions, ComparePrerelease, Version
<1>2. CompareSemanticVersions(a, b) = 0 <=> a = b
  BY DEF CompareSemanticVersions, ComparePrerelease, Version
<1>3. CompareSemanticVersions(a, b) <= 0 /\ CompareSemanticVersions(b, c) <= 0
        => CompareSemanticVersions(a, c) <= 0
  BY DEF CompareSemanticVersions, ComparePrerelease, Version
<1>4. QED
  BY <1>1, <1>2, <1>3

\* versionSatisfiesConstraint accepts the ranges its comments give, whatever
\* numbers versions are made of; but for a wildcard with minor 0, where 1.0.x
\* accepts all that 1.x does.
THEOREM ConstraintsAreIntervals == RangesAreIntervals
<1> SUFFICES ASSUME NEW v \in SemanticVersion, NEW c \in SemanticVersion
             PROVE  LET release == [v EXCEPT !.prerelease = 0]
                    IN  /\ v = release =>
                             /\ SatisfiesCaret(v, c) <=> Within(v, c, CaretEnd(c))
                             /\ SatisfiesTilde(v, c) <=>
                                  Within(v, c, V(c.major, c.minor + 1, 0))
                             /\ c.minor # 0 =>
                                  (SatisfiesWildcard(v, c) <=>
                                     Within(v, V(c.major, c.minor, 0),
                                            V(c.major, c.minor + 1, 0)))
                             /\ c.minor = 0 =>
                                  (SatisfiesWildcard(v, c) <=>
                                     Within(v, V(c.major, 0, 0),
                                            V(c.major + 1, 0, 0)))
                        /\ SatisfiesCaret(v, c) => SatisfiesCaret(release, c)
                        /\ SatisfiesTilde(v, c) => SatisfiesTilde(release, c)
  BY DEF RangesAreIntervals
<1> DEFINE release == [v EXCEPT !.prerelease = 0]
<1>1. v \in Version /\ c \in Version
  BY VersionsAreNatural
<1>2. release \in Version /\ release.prerelease = 0
  BY <1>1 DEF Version
<1>3. ASSUME v = release
      PROVE  /\ SatisfiesCaret(v, c) <=> Within(v, c, CaretEnd(c))
             /\ SatisfiesTilde(v, c) <=> Within(v, c, V(c.major, c.minor + 1, 0))
             /\ c.minor # 0 =>
                  (SatisfiesWildcard(v, c) <=>
                     Within(v, V(c.major, c.minor, 0), V(c.major, c.minor + 1, 0)))
             /\ c.minor = 0 =>
                  (SatisfiesWildcard(v, c) <=>
                     Within(v, V(c.major, 0, 0), V(c.major + 1, 0, 0)))
  <2>1. v.prerelease = 0
    BY <1>2, <1>3
  <2>2. c.major \in Nat /\ c.minor \in Nat /\ c.patch \in Nat
        /\ v.major \in Nat /\ v.minor \in Nat /\ v.patch \in Nat
    BY <1>1 DEF Version
  <2>3. SatisfiesCaret(v, c) <=> Within(v, c, CaretEnd(c))
    <3>1. CASE c.major > 0
      BY <1>1, <2>1, <2>2, <3>1, ReleaseNotBelow, BelowRelease DEF SatisfiesCaret, Within, CaretEnd
    <3>2. CASE c.major = 0 /\ c.minor > 0
      BY <1>1, <2>1, <2>2, <3>2, ReleaseNotBelow, BelowRelease DEF SatisfiesCaret, Within, CaretEnd
    <3>3. CASE c.major = 0 /\ c.minor = 0
      BY <1>1, <2>1, <2>2, <3>3, ReleaseNotBelow, BelowRelease DEF SatisfiesCaret, Within, CaretEnd
    <3>4. QED
      BY <2>2, <3>1, <3>2, <3>3
  <2>4. SatisfiesTilde(v, c) <=> Within(v, c, V(c.major, c.minor + 1, 0))
    BY <1>1, <2>1, <2>2, ReleaseNotBelow, BelowRelease DEF SatisfiesTilde, Within
  <2>5. ASSUME NEW m \in Nat
        PROVE  CompareSemanticVersions(v, V(c.major, m, 0)) >= 0 <=>
                 \/ v.major > c.major
                 \/ v.major = c.major /\ v.minor > m
                 \/ v.major = c.major /\ v.minor = m /\ v.patch >= 0
    <3>1. V(c.major, m, 0) \in Version
      BY <2>2 DEF V, Version
    <3>2. QED
      BY <1>1, <2>1, <3>1, ReleaseNotBelow DEF V
  <2>6. ASSUME c.minor # 0
        PROVE  SatisfiesWildcard(v, c) <=>
                 Within(v, V(c.major, c.minor, 0), V(c.major, c.minor + 1, 0))
    BY <1>1, <2>1, <2>2, <2>5, <2>6, BelowRelease DEF SatisfiesWildcard, Within
  <2>7. ASSUME c.minor = 0
        PROVE  SatisfiesWildcard(v, c) <=>
                 Within(v, V(c.major, 0, 0), V(c.major + 1, 0, 0))
    BY <1>1, <2>1, <2>2, <2>5, <2>7, BelowRelease DEF SatisfiesWildcard, Within
  <2>8. QED
    BY <2>3, <2>4, <2>6, <2>7
<1>4. CompareSemanticVersions(v, c) >= 0 => CompareSemanticVersions(release, c) >= 0
  BY <1>1 DEF CompareSemanticVersions, ComparePrerelease, Version
<1>5. release.major = v.major /\ release.minor = v.minor /\ release.patch = v.patch
  BY <1>1 DEF Version
<1>6. SatisfiesCaret(v, c) => SatisfiesCaret(release, c)
  BY <1>4, <1>5 DEF SatisfiesCaret
<1>7. SatisfiesTilde(v, c) => SatisfiesTilde(release, c)
  BY <1>4, <1>5 DEF SatisfiesTilde
<1>8. QED
  BY <1>3, <1>6, <1>7

\* A version that satisfies a caret constraint is below the first version that
\* may be incompatible, a prerelease too.
LEMMA CaretIsBelowEnd ==
  ASSUME NEW v \in Version, NEW c \in Version, SatisfiesCaret(v, c)
  PROVE  Within(v, c, CaretEnd(c))
<1>1. /\ c.major \in Nat /\ c.minor \in Nat /\ c.patch \in Nat
      /\ v.major \in Nat /\ v.minor \in Nat /\ v.patch \in Nat
  BY DEF Version
<1>2. CASE c.major > 0
  BY <1>1, <1>2, BelowRelease DEF SatisfiesCaret, Within, CaretEnd
<1>3. CASE c.major = 0 /\ c.minor > 0
  BY <1>1, <1>3, BelowRelease DEF SatisfiesCaret, Within, CaretEnd
<1>4. CASE c.major = 0 /\ c.minor = 0
  BY <1>1, <1>4, BelowRelease DEF SatisfiesCaret, Within, CaretEnd
<1> QED
  BY <1>1, <1>2, <1>3, <1>4

\* With the constraints of package/types.c, a dependency declared with a caret
\* constraint is never locked at a version that may be incompatible with it,
\* whatever versions there are and whatever happened to earlier commands.
THEOREM LockedAlwaysCompatible == Spec => []LockedIsCompatible
<1>1. PackageInv => LockedIsCompatible
  <2> SUFFICES ASSUME PackageInv, lock # NoFile,
                      NEW n \in Declared \intersect DOMAIN lock,
                      manifest[n].tag = None, manifest[n].range.type = "caret"
               PROVE  Within(Releases[lock[n].tag], manifest[n].range.version,
                             CaretEnd(manifest[n].range.version))
    BY DEF LockedIsCompatible
  <2>1. lock \in LockFiles /\ n \in Names /\ manifest[n] # None
    BY DEF PackageInv, TypeOK, LockFiles, Declared
  <2>2. lock[n].tag \in Versions
    BY <2>1 DEF LockFiles, Entry
  <2>3. manifest[n].range \in Ranges
    BY <2>1 DEF PackageInv, TypeOK, Dependency
  <2>4. Satisfies(lock[n].tag, manifest[n].range)
    BY DEF PackageInv, LockedSatisfies
  <2>5. PICK v, range : v = Releases[lock[n].tag] /\ range = manifest[n].range
    OBVIOUS
  <2>6. v \in Version /\ range.version \in Version /\ range.type = "caret"
    BY <2>2, <2>3, <2>5, VersionsAreNatural, ReleasesAssumption
  <2>7. VersionSatisfiesConstraint(v, range.type, range.version)
    BY <2>2, <2>3, <2>4, <2>5, ReleasesAssumption
  <2>8. SatisfiesCaret(v, range.version)
    BY <2>6, <2>7 DEF VersionSatisfiesConstraint
  <2> QED
    BY <2>5, <2>6, <2>8, CaretIsBelowEnd
<1> QED
  BY <1>1, PackageInvariance, PTL

-----------------------------------------------------------------------------
(* The walk over the scripts' dependencies                                 *)

\* The scripts depend on scripts; what a call of the walk does to its state.
Graph == deps \in [Scripts -> Seq(Scripts)]
Walks == [Scripts -> [States -> States]]

\* The steps of the walk keep its state's type.
LEMMA StatesTyped ==
  /\ Start \in States
  /\ \A s \in Scripts, st \in States :
       /\ Enter(s, st) \in States /\ Leave(s, st) \in States
       /\ CycleFound(st) \in States
<1>1. Start \in States
  BY EmptyQueue DEF States, Start
<1>2. ASSUME NEW s \in Scripts, NEW st \in States
      PROVE  /\ Enter(s, st) \in States /\ Leave(s, st) \in States
             /\ CycleFound(st) \in States
  <2>1. st.order \in Seq(Scripts) /\ st.visiting \in SUBSET Scripts
    BY DEF States
  <2>2. Append(st.order, s) \in Seq(Scripts)
    BY <2>1, PushQueue
  <2>3. Leave(s, st) \in States
    BY <2>1, <2>2 DEF States, Leave
  <2>4. Enter(s, st) \in States
    BY <2>1 DEF States, Enter
  <2>5. CycleFound(st) \in States
    BY <2>1 DEF States, CycleFound
  <2> QED
    BY <2>3, <2>4, <2>5
<1> QED
  BY <1>1, <1>2

\* The loop over the dependencies goes through all of them.
LEMMA VisitAllLoop ==
  ASSUME NEW rec \in Walks, NEW ss \in Seq(Scripts), NEW st \in States
  PROVE  \E after \in [0 .. Len(ss) -> States] :
           /\ after[0] = st
           /\ \A i \in 1 .. Len(ss) : after[i] = rec[ss[i]][after[i - 1]]
           /\ VisitAll(rec, ss, st) = after[Len(ss)]
<1>1. Len(ss) \in Nat
  BY LenProperties
<1> DEFINE F == [n \in Nat |-> IF n \in 1 .. Len(ss) THEN rec[ss[n]]
                                ELSE [x \in States |-> x]]
           Loop(f) == f = [i \in 0 .. Len(ss) |->
                             IF i = 0 THEN st ELSE rec[ss[i]][f[i - 1]]]
<1>2. F \in [Nat -> [States -> States]]
  <2>1. ASSUME NEW n \in 1 .. Len(ss) PROVE rec[ss[n]] \in [States -> States]
    BY <2>1, <1>1 DEF Walks
  <2> QED
    BY <2>1
<1>3. PICK g \in [0 .. Len(ss) -> States] :
        g[0] = st /\ \A n \in 1 .. Len(ss) : g[n] = F[n][g[n - 1]]
  <2> HIDE DEF F
  <2>1. F \in Bodies(States)
    BY <1>2 DEF Bodies
  <2>2. \E g \in [0 .. Len(ss) -> States] : IsLoop(g, st, F, Len(ss))
    BY <1>1, <2>1, LoopIsDefined, Zenon
  <2> QED
    BY <2>2 DEF IsLoop
<1>4. Loop(g)
  <2>1. ASSUME NEW n \in 1 .. Len(ss) PROVE F[n] = rec[ss[n]]
    BY <1>1
  <2> HIDE DEF F
  <2>2. ASSUME NEW n \in 0 .. Len(ss)
        PROVE  g[n] = IF n = 0 THEN st ELSE rec[ss[n]][g[n - 1]]
    BY <1>1, <1>3, <2>1
  <2>3. g = [n \in 0 .. Len(ss) |-> g[n]]
    OBVIOUS
  <2> QED
    BY <2>2, <2>3
<1> DEFINE chosen == CHOOSE f : Loop(f)
<1>5. Loop(chosen)
  BY <1>4
<1>6. VisitAll(rec, ss, st) = chosen[Len(ss)]
  BY DEF VisitAll
<1> HIDE DEF chosen, F
<1>7. chosen \in [0 .. Len(ss) -> States]
  <2> DEFINE Q == {n \in Nat : n <= Len(ss) => chosen[n] \in States}
  <2>1. 0 \in Q
    BY <1>1, <1>5
  <2>2. ASSUME NEW n \in Q PROVE n + 1 \in Q
    <3> SUFFICES ASSUME n + 1 <= Len(ss) PROVE chosen[n + 1] \in States
      OBVIOUS
    <3>1. n + 1 \in 0 .. Len(ss) /\ n + 1 \in 1 .. Len(ss) /\ n + 1 # 0
          /\ n + 1 - 1 = n /\ chosen[n] \in States
      BY <1>1, <2>2
    <3>2. chosen[n + 1] = rec[ss[n + 1]][chosen[n]]
      BY <1>5, <3>1
    <3>3. rec[ss[n + 1]] \in [States -> States]
      BY <3>1 DEF Walks
    <3> QED
      BY <3>1, <3>2, <3>3
  <2> HIDE DEF Q
  <2>3. Q = Nat
    <3>1. Q \in SUBSET Nat
      BY DEF Q
    <3> QED
      BY <2>1, <2>2, <3>1, Induction
  <2>4. \A n \in 0 .. Len(ss) : chosen[n] \in States
    BY <1>1, <2>3 DEF Q
  <2> QED
    BY <1>5, <2>4
<1>8. chosen[0] = st /\ \A i \in 1 .. Len(ss) : chosen[i] = rec[ss[i]][chosen[i - 1]]
  <2>1. \A i \in 0 .. Len(ss) :
          chosen[i] = IF i = 0 THEN st ELSE rec[ss[i]][chosen[i - 1]]
    BY <1>5, Zenon
  <2> QED
    BY <1>1, <2>1
<1> QED
  BY <1>6, <1>7, <1>8

\* A visit, given calls that keep the type of the state, keeps it.
LEMMA VisitTyped ==
  ASSUME Graph, NEW rec \in Walks, NEW s \in Scripts, NEW st \in States
  PROVE  /\ VisitAll(rec, deps[s], Enter(s, st)) \in States
         /\ Visit(rec, s, st) \in States
<1>1. deps[s] \in Seq(Scripts) /\ Enter(s, st) \in States
  BY StatesTyped DEF Graph
<1>2. VisitAll(rec, deps[s], Enter(s, st)) \in States
  <2>1. PICK after \in [0 .. Len(deps[s]) -> States] :
          VisitAll(rec, deps[s], Enter(s, st)) = after[Len(deps[s])]
    BY <1>1, VisitAllLoop
  <2> QED
    BY <1>1, <2>1, LenProperties
<1> QED
  BY <1>2, StatesTyped DEF Visit

\* The depth of the walk is a number, and its calls are what Visit says.
LEMMA WalkIsDefined ==
  ASSUME Graph
  PROVE  /\ Depth \in Nat
         /\ \A k \in 0 .. Depth : Walk[k] \in Walks
         /\ \A s \in Scripts, st \in States : Walk[0][s][st] = CycleFound(st)
         /\ \A k \in 1 .. Depth, s \in Scripts, st \in States :
              Walk[k][s][st] = Visit(Walk[k - 1], s, st)
<1>1. Depth \in Nat
  BY ScriptsAssumption, FS_CardinalityType DEF Depth
<1> DEFINE none == [s \in Scripts |-> [st \in States |-> CycleFound(st)]]
           F == [n \in Nat |-> [w \in Walks |->
                  [s \in Scripts |-> [st \in States |-> Visit(w, s, st)]]]]
           Calls(W) == W = [k \in 0 .. Depth |->
             [s \in Scripts |-> [st \in States |->
                IF k = 0 THEN CycleFound(st) ELSE Visit(W[k - 1], s, st)]]]
<1>2. none \in Walks
  BY StatesTyped DEF Walks
<1>3. F \in [Nat -> [Walks -> Walks]]
  <2>1. ASSUME NEW w \in Walks
        PROVE  [s \in Scripts |-> [st \in States |-> Visit(w, s, st)]] \in Walks
    BY <2>1, VisitTyped DEF Walks
  <2> QED
    BY <2>1
<1>4. PICK g \in [0 .. Depth -> Walks] :
        g[0] = none /\ \A n \in 1 .. Depth : g[n] = F[n][g[n - 1]]
  <2> HIDE DEF F, none
  <2>1. F \in Bodies(Walks)
    BY <1>3 DEF Bodies
  <2>2. \E g \in [0 .. Depth -> Walks] : IsLoop(g, none, F, Depth)
    BY <1>1, <1>2, <2>1, LoopIsDefined, Zenon
  <2> QED
    BY <2>2 DEF IsLoop
<1>5. Calls(g)
  <2>1. ASSUME NEW n \in 0 .. Depth
        PROVE  g[n] = [s \in Scripts |-> [st \in States |->
                         IF n = 0 THEN CycleFound(st) ELSE Visit(g[n - 1], s, st)]]
    <3>1. CASE n = 0
      BY <1>4, <3>1
    <3>2. CASE n # 0
      <4>1. n \in Nat /\ n \in 1 .. Depth /\ n - 1 \in 0 .. Depth
        BY <1>1, <3>2
      <4>2. g[n - 1] \in Walks
        BY <4>1
      <4>3. g[n] = F[n][g[n - 1]]
        BY <1>4, <4>1
      <4>4. F[n][g[n - 1]] = [s \in Scripts |-> [st \in States |->
                                Visit(g[n - 1], s, st)]]
        BY <4>1, <4>2
      <4> QED
        BY <3>2, <4>3, <4>4
    <3> QED
      BY <3>1, <3>2
  <2> HIDE DEF F, none
  <2>2. g = [n \in 0 .. Depth |-> g[n]]
    OBVIOUS
  <2> QED
    BY <2>1, <2>2
<1>6. Walk = CHOOSE W : Calls(W)
  BY DEF Walk
<1>7. Calls(Walk)
  <2> HIDE DEF Calls
  <2> QED
    BY <1>5, <1>6
<1> HIDE DEF none, F
<1>8. /\ \A s \in Scripts, st \in States : Walk[0][s][st] = CycleFound(st)
      /\ \A k \in 1 .. Depth, s \in Scripts, st \in States :
           Walk[k][s][st] = Visit(Walk[k - 1], s, st)
  <2>1. \A k \in 0 .. Depth :
          Walk[k] = [s \in Scripts |-> [st \in States |->
            IF k = 0 THEN CycleFound(st) ELSE Visit(Walk[k - 1], s, st)]]
    BY <1>7, Zenon
  <2>2. ASSUME NEW s \in Scripts, NEW st \in States
        PROVE  Walk[0][s][st] = CycleFound(st)
    <3>1. Walk[0] = [t \in Scripts |-> [x \in States |->
            IF 0 = 0 THEN CycleFound(x) ELSE Visit(Walk[0 - 1], t, x)]]
      BY <1>1, <2>1
    <3> QED
      BY <3>1
  <2>3. ASSUME NEW k \in 1 .. Depth, NEW s \in Scripts, NEW st \in States
        PROVE  Walk[k][s][st] = Visit(Walk[k - 1], s, st)
    <3>1. k \in 0 .. Depth /\ k # 0
      BY <1>1
    <3>2. Walk[k] = [t \in Scripts |-> [x \in States |->
            IF k = 0 THEN CycleFound(x) ELSE Visit(Walk[k - 1], t, x)]]
      BY <2>1, <3>1, Zenon
    <3> QED
      BY <3>1, <3>2
  <2> QED
    BY <2>2, <2>3
<1>9. \A k \in 0 .. Depth : Walk[k] \in Walks
  <2> DEFINE Q == {n \in Nat : n <= Depth => Walk[n] \in Walks}
  <2>1. 0 \in Q
    <3>1. Walk[0] = [s \in Scripts |-> [st \in States |-> CycleFound(st)]]
      BY <1>1, <1>7
    <3> QED
      BY <3>1, StatesTyped DEF Walks
  <2>2. ASSUME NEW n \in Q PROVE n + 1 \in Q
    <3> SUFFICES ASSUME n + 1 <= Depth PROVE Walk[n + 1] \in Walks
      OBVIOUS
    <3>1. n + 1 \in 0 .. Depth /\ n + 1 # 0 /\ n + 1 - 1 = n /\ Walk[n] \in Walks
      BY <1>1, <2>2
    <3>2. Walk[n + 1] = [s \in Scripts |-> [st \in States |-> Visit(Walk[n], s, st)]]
      <4>1. PICK k : k = n + 1
        OBVIOUS
      <4>2. k \in 0 .. Depth /\ k # 0 /\ k - 1 = n
        BY <3>1, <4>1
      <4>3. Walk[k] = [s \in Scripts |-> [st \in States |->
              IF k = 0 THEN CycleFound(st) ELSE Visit(Walk[k - 1], s, st)]]
        BY <1>7, <4>2, Zenon
      <4> QED
        BY <4>1, <4>2, <4>3
    <3>3. \A s \in Scripts, st \in States : Visit(Walk[n], s, st) \in States
      BY <3>1, VisitTyped
    <3> QED
      BY <3>2, <3>3 DEF Walks
  <2> HIDE DEF Q
  <2>3. Q = Nat
    <3>1. Q \in SUBSET Nat
      BY DEF Q
    <3> QED
      BY <2>1, <2>2, <3>1, Induction
  <2> QED
    BY <1>1, <2>3 DEF Q
<1> QED
  BY <1>1, <1>8, <1>9

-----------------------------------------------------------------------------
\* Needs(s) is the least set that has the dependencies of s and of its members.
LEMMA NeedsIsLeast ==
  ASSUME Graph, NEW s \in Scripts
  PROVE  /\ Needs(s) \in SUBSET Scripts
         /\ ToSet(deps[s]) \subseteq Needs(s)
         /\ Closed(Needs(s))
         /\ \A S \in SUBSET Scripts :
              ToSet(deps[s]) \subseteq S /\ Closed(S) => Needs(s) \subseteq S
<1>1. ASSUME NEW t \in Scripts PROVE ToSet(deps[t]) \in SUBSET Scripts
  <2>1. deps[t] \in Seq(Scripts)
    BY DEF Graph
  <2> QED
    BY <2>1, QueueElements
<1>2. Needs(s) \in SUBSET Scripts
  BY DEF Needs
<1>3. ToSet(deps[s]) \subseteq Needs(s)
  BY <1>1 DEF Needs
<1>4. \A S \in SUBSET Scripts :
        ToSet(deps[s]) \subseteq S /\ Closed(S) => Needs(s) \subseteq S
  BY DEF Needs
<1>5. Closed(Needs(s))
  <2>1. ASSUME NEW t \in Needs(s), NEW d \in ToSet(deps[t]) PROVE d \in Needs(s)
    <3>1. t \in Scripts /\ d \in Scripts
      BY <1>1, <1>2
    <3>2. ASSUME NEW S \in SUBSET Scripts, ToSet(deps[s]) \subseteq S, Closed(S)
          PROVE  d \in S
      BY <1>4, <3>2 DEF Closed
    <3> QED
      BY <3>1, <3>2 DEF Needs
  <2> QED
    BY <2>1 DEF Closed
<1> QED
  BY <1>2, <1>3, <1>4, <1>5

\* ... and what it needs needs no more.
LEMMA NeedsTransitive ==
  ASSUME Graph, NEW s \in Scripts, NEW t \in Needs(s)
  PROVE  t \in Scripts /\ ToSet(deps[t]) \subseteq Needs(s) /\ Needs(t) \subseteq Needs(s)
<1>1. /\ t \in Scripts /\ Needs(s) \in SUBSET Scripts /\ Closed(Needs(s))
      /\ ToSet(deps[t]) \subseteq Needs(s)
  BY NeedsIsLeast DEF Closed
<1> QED
  BY <1>1, NeedsIsLeast

\* Every script of an order comes after its dependencies, once, and is not
\* being visited.
InOrder(o) == /\ IsInjective(o)
              /\ \A i \in 1 .. Len(o) : \A d \in ToSet(deps[o[i]]) :
                   \E j \in 1 .. i - 1 : o[j] = d
WellFormed(st) == InOrder(st.order) /\ ToSet(st.order) \intersect st.visiting = {}

\* A call that finds no cycle adds to the order, from D only.
Grows(st, r, D) ==
  /\ WellFormed(r) /\ r.visiting = st.visiting
  /\ ToSet(st.order) \subseteq ToSet(r.order)
  /\ ToSet(r.order) \subseteq ToSet(st.order) \union D

\* A walk is sound if a call that finds no cycle has put its script into the
\* order, with scripts it needs; and goes on to report a cycle once found.
Sound(w) ==
  \A s \in Scripts, st \in States :
    /\ w[s][st].valid => st.valid
    /\ WellFormed(st) /\ w[s][st].valid =>
         /\ Grows(st, w[s][st], Needs(s) \union {s})
         /\ s \in ToSet(w[s][st].order)

\* An order grows by a script whose dependencies it has.
LEMMA AppendInOrder ==
  ASSUME Graph, NEW o \in Seq(Scripts), InOrder(o), NEW s \in Scripts,
         s \notin ToSet(o), ToSet(deps[s]) \subseteq ToSet(o)
  PROVE  InOrder(Append(o, s))
<1>1. PICK p : p = Append(o, s)
  OBVIOUS
<1>2. /\ p \in Seq(Scripts) /\ Len(p) = Len(o) + 1 /\ Len(o) \in Nat
      /\ \A i \in 1 .. Len(o) : p[i] = o[i]
      /\ p[Len(o) + 1] = s
  BY <1>1, AppendProperties, LenProperties
<1>3. IsInjective(p)
  BY <1>1, PushQueue DEF InOrder
<1>4. ASSUME NEW i \in 1 .. Len(p), NEW d \in ToSet(deps[p[i]])
      PROVE  \E j \in 1 .. i - 1 : p[j] = d
  <2>1. CASE i = Len(o) + 1
    <3>1. d \in ToSet(o)
      BY <1>2, <2>1
    <3>2. PICK j \in 1 .. Len(o) : d = o[j]
      BY <3>1, QueueElements
    <3> QED
      BY <1>2, <2>1, <3>2
  <2>2. CASE i \in 1 .. Len(o)
    <3>1. PICK j \in 1 .. i - 1 : o[j] = d
      BY <1>2, <2>2 DEF InOrder
    <3> QED
      BY <1>2, <2>2, <3>1
  <2> QED
    BY <1>2, <2>1, <2>2
<1> QED
  BY <1>1, <1>3, <1>4 DEF InOrder

\* The loop over the dependencies of a script: as long as no cycle is found the
\* order has the dependencies so far.
LEMMA LoopSound ==
  ASSUME Graph, NEW rec \in Walks, Sound(rec), NEW s \in Scripts,
         NEW st \in States, WellFormed(st),
         NEW after \in [0 .. Len(deps[s]) -> States], after[0] = st,
         \A i \in 1 .. Len(deps[s]) : after[i] = rec[deps[s][i]][after[i - 1]],
         NEW n \in 0 .. Len(deps[s]), after[n].valid
  PROVE  /\ Grows(st, after[n], Needs(s)) /\ st.valid
         /\ \A i \in 1 .. n : deps[s][i] \in ToSet(after[n].order)
<1>1. PICK ss : ss = deps[s]
  OBVIOUS
<1>2. ss \in Seq(Scripts) /\ Len(ss) \in Nat
  BY <1>1, LenProperties DEF Graph
<1> DEFINE P(i) == after[i].valid =>
                     /\ Grows(st, after[i], Needs(s)) /\ st.valid
                     /\ \A j \in 1 .. i : ss[j] \in ToSet(after[i].order)
           Q == {i \in Nat : i <= Len(ss) => P(i)}
<1>3. 0 \in Q
  BY <1>2 DEF Grows
<1>4. ASSUME NEW i \in Q PROVE i + 1 \in Q
  <2> SUFFICES ASSUME i + 1 <= Len(ss), after[i + 1].valid
               PROVE  /\ Grows(st, after[i + 1], Needs(s)) /\ st.valid
                      /\ \A j \in 1 .. i + 1 : ss[j] \in ToSet(after[i + 1].order)
    OBVIOUS
  <2>1. /\ i \in Nat /\ i + 1 \in 1 .. Len(ss) /\ i + 1 - 1 = i /\ P(i)
        /\ i \in 0 .. Len(ss)
    BY <1>2, <1>4
  <2>2. PICK d, a, b : d = ss[i + 1] /\ a = after[i] /\ b = after[i + 1]
    OBVIOUS
  <2>3. /\ d \in Scripts /\ a \in States /\ b = rec[d][a] /\ b.valid
        /\ d \in ToSet(ss)
    BY <1>1, <1>2, <2>1, <2>2, QueueElements
  <2>4. a.valid
    BY <2>3 DEF Sound
  <2>5. /\ Grows(st, a, Needs(s)) /\ st.valid
        /\ \A j \in 1 .. i : ss[j] \in ToSet(a.order)
    BY <2>1, <2>2, <2>4
  <2>6. Grows(a, b, Needs(d) \union {d}) /\ d \in ToSet(b.order)
    BY <2>3, <2>5 DEF Sound, Grows
  <2>7. Needs(d) \union {d} \subseteq Needs(s)
    <3>1. d \in Needs(s)
      BY <1>1, <2>3, NeedsIsLeast
    <3> QED
      BY <3>1, NeedsTransitive
  <2>8. Grows(st, b, Needs(s))
    BY <2>5, <2>6, <2>7 DEF Grows
  <2>9. ASSUME NEW j \in 1 .. i + 1 PROVE ss[j] \in ToSet(b.order)
    <3>1. j \in 1 .. i \/ j = i + 1
      BY <2>1
    <3> QED
      BY <2>2, <2>5, <2>6, <3>1 DEF Grows
  <2> QED
    BY <2>2, <2>5, <2>8, <2>9
<1> HIDE DEF Q
<1>5. Q = Nat
  <2>1. Q \in SUBSET Nat
    BY DEF Q
  <2> QED
    BY <1>3, <1>4, <2>1, Induction
<1>6. P(n)
  BY <1>1, <1>2, <1>5 DEF Q
<1> QED
  BY <1>1, <1>6

\* The dependencies are in the order when their loop ends without a cycle.
LEMMA VisitAllSound ==
  ASSUME Graph, NEW rec \in Walks, Sound(rec), NEW s \in Scripts,
         NEW st \in States, WellFormed(st), VisitAll(rec, deps[s], st).valid
  PROVE  /\ Grows(st, VisitAll(rec, deps[s], st), Needs(s)) /\ st.valid
         /\ ToSet(deps[s]) \subseteq ToSet(VisitAll(rec, deps[s], st).order)
<1>1. deps[s] \in Seq(Scripts) /\ Len(deps[s]) \in Nat
  BY LenProperties DEF Graph
<1>2. PICK after \in [0 .. Len(deps[s]) -> States] :
           /\ after[0] = st
           /\ \A i \in 1 .. Len(deps[s]) : after[i] = rec[deps[s][i]][after[i - 1]]
           /\ VisitAll(rec, deps[s], st) = after[Len(deps[s])]
  BY <1>1, VisitAllLoop
<1>3. Len(deps[s]) \in 0 .. Len(deps[s])
  BY <1>1
<1>4. PICK r : r = VisitAll(rec, deps[s], st)
  OBVIOUS
<1>5. /\ Grows(st, r, Needs(s)) /\ st.valid
      /\ \A i \in 1 .. Len(deps[s]) : deps[s][i] \in ToSet(r.order)
  BY <1>2, <1>3, <1>4, LoopSound
<1>6. ToSet(deps[s]) \subseteq ToSet(r.order)
  BY <1>1, <1>5, QueueElements
<1> QED
  BY <1>4, <1>5, <1>6

\* One more level of the walk is sound if the calls it makes are.
LEMMA VisitSound ==
  ASSUME Graph, NEW rec \in Walks, Sound(rec), NEW s \in Scripts, NEW st \in States
  PROVE  /\ Visit(rec, s, st).valid => st.valid
         /\ WellFormed(st) /\ Visit(rec, s, st).valid =>
              /\ Grows(st, Visit(rec, s, st), Needs(s) \union {s})
              /\ s \in ToSet(Visit(rec, s, st).order)
<1>1. PICK r : r = Visit(rec, s, st)
  OBVIOUS
<1>2. CASE ~st.valid \/ s \in ToSet(st.order)
  BY <1>1, <1>2 DEF Visit, Grows
<1>3. CASE st.valid /\ s \notin ToSet(st.order) /\ s \in st.visiting
  <2>1. r = CycleFound(st) /\ ~r.valid
    BY <1>1, <1>3 DEF Visit, CycleFound, States
  <2> QED
    BY <1>1, <1>3, <2>1
<1>4. CASE st.valid /\ s \notin ToSet(st.order) /\ s \notin st.visiting
  <2> SUFFICES ASSUME WellFormed(st), r.valid
               PROVE  Grows(st, r, Needs(s) \union {s}) /\ s \in ToSet(r.order)
    BY <1>1, <1>4
  <2>1. PICK e : e = Enter(s, st)
    OBVIOUS
  <2>2. /\ e \in States /\ e.order = st.order
        /\ e.visiting = st.visiting \union {s} /\ e.valid = st.valid
    BY <2>1, StatesTyped DEF Enter, States
  <2>3. WellFormed(e)
    BY <1>4, <2>2 DEF WellFormed
  <2>4. PICK a : a = VisitAll(rec, deps[s], e)
    OBVIOUS
  <2>5. a \in States
    BY <2>1, <2>4, VisitTyped
  <2>6. r = IF a.valid THEN Leave(s, a) ELSE a
    BY <1>1, <1>4, <2>1, <2>4 DEF Visit
  <2>7. a.valid /\ r = Leave(s, a)
    BY <2>6
  <2>8. Grows(e, a, Needs(s)) /\ ToSet(deps[s]) \subseteq ToSet(a.order)
    BY <2>2, <2>3, <2>4, <2>7, VisitAllSound
  <2>9. r.order = Append(a.order, s) /\ r.visiting = a.visiting \ {s}
    BY <2>7 DEF Leave
  <2>10. a.order \in Seq(Scripts) /\ InOrder(a.order) /\ s \notin ToSet(a.order)
    BY <2>2, <2>5, <2>8 DEF Grows, WellFormed, States
  <2>11. InOrder(r.order)
    BY <2>8, <2>9, <2>10, AppendInOrder
  <2>12. ToSet(r.order) = ToSet(a.order) \union {s}
    BY <2>9, <2>10, PushQueue
  <2>13. r.visiting = st.visiting
    BY <1>4, <2>2, <2>8, <2>9 DEF Grows
  <2>14. ToSet(r.order) \intersect r.visiting = {}
    BY <1>4, <2>2, <2>8, <2>12, <2>13 DEF Grows, WellFormed
  <2> QED
    BY <2>2, <2>8, <2>11, <2>12, <2>13, <2>14 DEF Grows, WellFormed
<1> QED
  BY <1>2, <1>3, <1>4

\* The walk is sound at every depth.
LEMMA WalkSound ==
  ASSUME Graph, NEW k \in 0 .. Depth
  PROVE  Sound(Walk[k])
<1> DEFINE Q == {n \in Nat : n <= Depth => Sound(Walk[n])}
<1>1. Depth \in Nat
  BY WalkIsDefined
<1>2. 0 \in Q
  <2>1. ASSUME NEW s \in Scripts, NEW st \in States PROVE ~Walk[0][s][st].valid
    <3>1. Walk[0][s][st] = CycleFound(st)
      BY WalkIsDefined
    <3> QED
      BY <3>1 DEF CycleFound, States
  <2>2. Sound(Walk[0])
    BY <2>1 DEF Sound
  <2> QED
    BY <2>2
<1>3. ASSUME NEW n \in Q PROVE n + 1 \in Q
  <2> SUFFICES ASSUME n + 1 <= Depth PROVE Sound(Walk[n + 1])
    OBVIOUS
  <2>1. PICK m : m = n + 1
    OBVIOUS
  <2>2. m \in 1 .. Depth /\ m - 1 = n /\ n \in 0 .. Depth /\ Sound(Walk[n])
    BY <1>1, <1>3, <2>1
  <2>3. Walk[n] \in Walks
    BY <2>2, WalkIsDefined
  <2>4. \A s \in Scripts, st \in States : Walk[m][s][st] = Visit(Walk[n], s, st)
    BY <2>2, WalkIsDefined
  <2>5. Sound(Walk[m])
    <3>1. ASSUME NEW s \in Scripts, NEW st \in States
          PROVE  /\ Visit(Walk[n], s, st).valid => st.valid
                 /\ WellFormed(st) /\ Visit(Walk[n], s, st).valid =>
                      /\ Grows(st, Visit(Walk[n], s, st), Needs(s) \union {s})
                      /\ s \in ToSet(Visit(Walk[n], s, st).order)
      BY <2>2, <2>3, VisitSound
    <3> QED
      BY <2>4, <3>1 DEF Sound
  <2> QED
    BY <2>1, <2>5
<1> HIDE DEF Q
<1>4. Q = Nat
  <2>1. Q \in SUBSET Nat
    BY DEF Q
  <2> QED
    BY <1>2, <1>3, <2>1, Induction
<1> QED
  BY <1>1, <1>4 DEF Q

-----------------------------------------------------------------------------
\* A walk with k levels left is complete if a call reports a cycle only where
\* there is one.  All scripts being visited need the one that is visited now,
\* and there are levels left for all the others.
Cyclic == \E t \in Scripts : t \in Needs(t)
Complete(w, k) ==
  \A s \in Scripts, st \in States :
    /\ WellFormed(st) /\ st.valid /\ ~w[s][st].valid
    /\ \A v \in st.visiting : s \in Needs(v)
    /\ k + Cardinality(st.visiting) >= Depth
    => Cyclic

\* The loop over the dependencies of a script that is being visited.
LEMMA VisitAllComplete ==
  ASSUME Graph, NEW rec \in Walks, Sound(rec), NEW k \in Nat, Complete(rec, k),
         NEW s \in Scripts, NEW st \in States, WellFormed(st), st.valid,
         \A v \in st.visiting : s = v \/ s \in Needs(v),
         k + Cardinality(st.visiting) >= Depth,
         ~VisitAll(rec, deps[s], st).valid
  PROVE  Cyclic
<1>1. PICK ss : ss = deps[s]
  OBVIOUS
<1>2. ss \in Seq(Scripts) /\ Len(ss) \in Nat
  BY <1>1, LenProperties DEF Graph
<1>3. PICK after \in [0 .. Len(ss) -> States] :
           /\ after[0] = st
           /\ \A i \in 1 .. Len(ss) : after[i] = rec[ss[i]][after[i - 1]]
           /\ VisitAll(rec, ss, st) = after[Len(ss)]
  BY <1>2, VisitAllLoop
<1> DEFINE Q == {i \in Nat : i <= Len(ss) /\ ~after[i].valid => Cyclic}
<1>4. 0 \in Q
  BY <1>3
<1>5. ASSUME NEW i \in Q PROVE i + 1 \in Q
  <2> SUFFICES ASSUME i + 1 <= Len(ss), ~after[i + 1].valid PROVE Cyclic
    OBVIOUS
  <2>1. /\ i \in 0 .. Len(ss) /\ i + 1 \in 1 .. Len(ss) /\ i + 1 - 1 = i
    BY <1>2, <1>5
  <2>2. CASE ~after[i].valid
    BY <1>2, <1>5, <2>2, <2>1
  <2>3. CASE after[i].valid
    <3>1. PICK d, a, b : d = ss[i + 1] /\ a = after[i] /\ b = after[i + 1]
      OBVIOUS
    <3>2. /\ d \in Scripts /\ a \in States /\ b = rec[d][a] /\ ~b.valid /\ a.valid
          /\ d \in ToSet(deps[s])
      BY <1>1, <1>2, <1>3, <2>1, <2>3, <3>1, QueueElements
    <3>3. Grows(st, a, Needs(s))
      BY <1>1, <1>3, <2>1, <2>3, <3>1, LoopSound
    <3>4. WellFormed(a) /\ a.visiting = st.visiting
      BY <3>3 DEF Grows
    <3>5. ASSUME NEW v \in a.visiting PROVE d \in Needs(v)
      <4>1. v \in Scripts /\ (s = v \/ s \in Needs(v))
        BY <3>4, <3>5 DEF States
      <4> QED
        BY <3>2, <4>1, NeedsIsLeast, NeedsTransitive
    <3> QED
      BY <3>2, <3>4, <3>5 DEF Complete
  <2> QED
    BY <2>2, <2>3
<1> HIDE DEF Q
<1>6. Q = Nat
  <2>1. Q \in SUBSET Nat
    BY DEF Q
  <2> QED
    BY <1>4, <1>5, <2>1, Induction
<1> QED
  BY <1>1, <1>2, <1>3, <1>6 DEF Q

\* One more level of the walk.
LEMMA VisitComplete ==
  ASSUME Graph, NEW rec \in Walks, Sound(rec), NEW k \in Nat, Complete(rec, k),
         NEW s \in Scripts, NEW st \in States,
         WellFormed(st), st.valid, ~Visit(rec, s, st).valid,
         \A v \in st.visiting : s \in Needs(v),
         k + 1 + Cardinality(st.visiting) >= Depth
  PROVE  Cyclic
<1>1. s \notin ToSet(st.order)
  BY DEF Visit
<1>2. CASE s \in st.visiting
  BY <1>2 DEF Cyclic
<1>3. CASE s \notin st.visiting
  <2>1. PICK e : e = Enter(s, st)
    OBVIOUS
  <2>2. /\ e \in States /\ e.order = st.order
        /\ e.visiting = st.visiting \union {s} /\ e.valid = st.valid
    BY <2>1, StatesTyped DEF Enter, States
  <2>3. WellFormed(e) /\ e.valid
    BY <1>1, <2>2 DEF WellFormed
  <2>4. PICK a : a = VisitAll(rec, deps[s], e)
    OBVIOUS
  <2>5. Visit(rec, s, st) = IF a.valid THEN Leave(s, a) ELSE a
    BY <1>1, <1>3, <2>1, <2>4 DEF Visit
  <2>6. ~a.valid
    BY <2>5 DEF Leave
  <2>7. k + Cardinality(e.visiting) >= Depth
    <3>1. IsFiniteSet(st.visiting)
      BY ScriptsAssumption, FS_Subset DEF States
    <3>2. Cardinality(e.visiting) = Cardinality(st.visiting) + 1
      BY <1>3, <2>2, <3>1, FS_AddElement
    <3>3. Cardinality(st.visiting) \in Nat /\ Depth \in Nat
      BY <3>1, FS_CardinalityType, WalkIsDefined
    <3> QED
      BY <3>2, <3>3
  <2>8. \A v \in e.visiting : s = v \/ s \in Needs(v)
    BY <2>2
  <2> QED
    BY <2>2, <2>3, <2>4, <2>6, <2>7, <2>8, VisitAllComplete
<1> QED
  BY <1>2, <1>3

\* The walk is complete at every depth.
LEMMA WalkComplete ==
  ASSUME Graph, NEW k \in 0 .. Depth
  PROVE  Complete(Walk[k], k)
<1> DEFINE Q == {n \in Nat : n <= Depth => Complete(Walk[n], n)}
<1>1. Depth \in Nat
  BY WalkIsDefined
<1>2. 0 \in Q
  <2>1. ASSUME NEW st \in States PROVE ~(0 + Cardinality(st.visiting) >= Depth)
    <3>1. st.visiting \in SUBSET Scripts
      BY DEF States
    <3>2. /\ IsFiniteSet(st.visiting)
          /\ Cardinality(st.visiting) <= Cardinality(Scripts)
      BY <3>1, ScriptsAssumption, FS_Subset
    <3>3. Cardinality(st.visiting) \in Nat /\ Cardinality(Scripts) \in Nat
      BY <3>2, ScriptsAssumption, FS_CardinalityType
    <3> QED
      BY <3>2, <3>3 DEF Depth
  <2>2. Complete(Walk[0], 0)
    BY <2>1 DEF Complete
  <2> QED
    BY <2>2
<1>3. ASSUME NEW n \in Q PROVE n + 1 \in Q
  <2> SUFFICES ASSUME n + 1 <= Depth PROVE Complete(Walk[n + 1], n + 1)
    OBVIOUS
  <2>1. PICK m : m = n + 1
    OBVIOUS
  <2>2. /\ m \in 1 .. Depth /\ m - 1 = n /\ n \in 0 .. Depth /\ n \in Nat
        /\ Complete(Walk[n], n)
    BY <1>1, <1>3, <2>1
  <2>3. Walk[n] \in Walks /\ Sound(Walk[n])
    BY <2>2, WalkIsDefined, WalkSound
  <2>4. \A s \in Scripts, st \in States : Walk[m][s][st] = Visit(Walk[n], s, st)
    BY <2>2, WalkIsDefined
  <2>5. ASSUME NEW s \in Scripts, NEW st \in States,
               WellFormed(st), st.valid, ~Walk[m][s][st].valid,
               \A v \in st.visiting : s \in Needs(v),
               m + Cardinality(st.visiting) >= Depth
        PROVE  Cyclic
    BY <2>1, <2>2, <2>3, <2>4, <2>5, VisitComplete
  <2>6. Complete(Walk[m], m)
    BY <2>5 DEF Complete
  <2> QED
    BY <2>1, <2>6
<1> HIDE DEF Q
<1>4. Q = Nat
  <2>1. Q \in SUBSET Nat
    BY DEF Q
  <2> QED
    BY <1>2, <1>3, <2>1, Induction
<1> QED
  BY <1>1, <1>4 DEF Q

-----------------------------------------------------------------------------
\* In an order everything a script needs comes before it.
LEMMA NeedsComeBefore ==
  ASSUME Graph, NEW o \in Seq(Scripts), InOrder(o), NEW i \in 1 .. Len(o)
  PROVE  Needs(o[i]) \subseteq {o[j] : j \in 1 .. i - 1}
<1>1. PICK S : S = {o[j] : j \in 1 .. i - 1}
  OBVIOUS
<1>2. Len(o) \in Nat /\ o[i] \in Scripts
  BY LenProperties
<1>3. S \in SUBSET Scripts
  BY <1>1, <1>2
<1>4. ToSet(deps[o[i]]) \subseteq S
  BY <1>1 DEF InOrder
<1>5. Closed(S)
  <2>1. ASSUME NEW t \in S, NEW d \in ToSet(deps[t]) PROVE d \in S
    <3>1. PICK j \in 1 .. i - 1 : t = o[j]
      BY <1>1
    <3>2. j \in 1 .. Len(o)
      BY <1>2
    <3>3. PICK l \in 1 .. j - 1 : o[l] = d
      BY <3>1, <3>2 DEF InOrder
    <3>4. l \in 1 .. i - 1
      BY <1>2
    <3> QED
      BY <1>1, <3>3, <3>4
  <2> QED
    BY <2>1 DEF Closed
<1> QED
  BY <1>1, <1>2, <1>3, <1>4, <1>5, NeedsIsLeast

\* resolveScriptDependencies for every graph: if the walk from s finds no cycle,
\* its order has what s needs and s, each once and after what it needs.
LEMMA ResolvedInOrder ==
  ASSUME Graph, NEW s \in Scripts, Walk[Depth][s][Start].valid
  PROVE  /\ ResolveScriptDependencies(s) \in Seq(Scripts)
         /\ InOrder(ResolveScriptDependencies(s))
         /\ ToSet(ResolveScriptDependencies(s)) = Needs(s) \union {s}
         /\ s \notin Needs(s)
<1>1. PICK r, o : r = Walk[Depth][s][Start] /\ o = ResolveScriptDependencies(s)
  OBVIOUS
<1>2. Depth \in Nat /\ Depth \in 0 .. Depth
  BY WalkIsDefined
<1>3. Walk[Depth] \in Walks /\ Sound(Walk[Depth]) /\ Start \in States
  BY <1>2, WalkIsDefined, WalkSound, StatesTyped
<1>4. r \in States /\ o = r.order /\ r.valid
  BY <1>1, <1>3 DEF Walks, ResolveScriptDependencies
<1>5. WellFormed(Start)
  BY EmptyQueue DEF WellFormed, InOrder, Start
<1>6. Grows(Start, r, Needs(s) \union {s}) /\ s \in ToSet(o)
  BY <1>1, <1>3, <1>4, <1>5 DEF Sound
<1>7. o \in Seq(Scripts) /\ InOrder(o) /\ ToSet(o) \subseteq Needs(s) \union {s}
  <2>1. ToSet(Start.order) = {}
    BY EmptyQueue DEF Start
  <2> QED
    BY <1>4, <1>6, <2>1 DEF Grows, WellFormed, States
<1>8. PICK i \in 1 .. Len(o) : o[i] = s
  BY <1>6, <1>7, QueueElements
<1>9. Len(o) \in Nat
  BY <1>7, LenProperties
<1>10. Needs(s) \subseteq {o[j] : j \in 1 .. i - 1}
  BY <1>7, <1>8, NeedsComeBefore
<1>11. {o[j] : j \in 1 .. i - 1} \subseteq ToSet(o)
  BY <1>7, <1>9, QueueElements
<1>12. s \notin Needs(s)
  <2> SUFFICES ASSUME s \in Needs(s) PROVE FALSE
    OBVIOUS
  <2>1. PICK j \in 1 .. i - 1 : o[j] = s
    BY <1>10
  <2>2. j \in 1 .. Len(o) /\ j # i
    BY <1>9
  <2> QED
    BY <1>7, <1>8, <2>1, <2>2, QueueElements DEF InOrder
<1> QED
  BY <1>1, <1>6, <1>7, <1>10, <1>11, <1>12

\* The scripts validate exactly if no script needs itself, and the orders are
\* complete: OrderComplete for every finite set of scripts and every graph.
LEMMA OrdersComplete == ASSUME Graph PROVE OrderComplete
<1>1. Depth \in Nat /\ Depth \in 0 .. Depth /\ Start \in States
  BY WalkIsDefined, StatesTyped
<1>2. ASSUME ValidateScripts, NEW s \in Scripts
      PROVE  /\ s \notin Needs(s)
             /\ IsInjective(ResolveScriptDependencies(s))
             /\ ToSet(ResolveScriptDependencies(s)) = Needs(s) \union {s}
  <2>1. Walk[Depth][s][Start].valid
    BY <1>2 DEF ValidateScripts
  <2> QED
    BY <2>1, ResolvedInOrder DEF InOrder
<1>3. ASSUME NEW s \in Scripts, ~Walk[Depth][s][Start].valid PROVE Cyclic
  <2>1. Complete(Walk[Depth], Depth)
    BY <1>1, WalkComplete
  <2>2. WellFormed(Start) /\ Start.valid /\ Start.visiting = {}
    BY EmptyQueue DEF WellFormed, InOrder, Start
  <2>3. Depth + Cardinality(Start.visiting) >= Depth
    BY <1>1, <2>2, FS_EmptySet
  <2> QED
    BY <1>1, <1>3, <2>1, <2>2, <2>3 DEF Complete
<1>4. ValidateScripts <=> \A s \in Scripts : s \notin Needs(s)
  BY <1>2, <1>3 DEF ValidateScripts, Cyclic
<1> QED
  BY <1>2, <1>4 DEF OrderComplete

-----------------------------------------------------------------------------
(* The runs of scripts                                                     *)

\* The type invariant.
ScriptsTypeOK ==
  /\ Graph
  /\ clock \in Nat
  /\ source \in [Sourced -> Nat]
  /\ output \in [Cacheable -> Nat]
  /\ rpc \in {"idle", "next", "exec"}
  /\ order \in Seq(Scripts)
  /\ noCache \in BOOLEAN
  /\ done \in SUBSET Scripts
  /\ ok \in SUBSET Scripts
  /\ stale \in SUBSET Cacheable
  /\ raced \in SUBSET Scripts
  /\ late \in SUBSET Sourced

\* No file is from the future.
FilesArePast == /\ \A s \in Sourced : source[s] <= clock
                /\ \A s \in Cacheable : output[s] <= clock

\* A stale output is missing, or an input of its script is not older.
StaleShows ==
  \A s \in stale \ raced : output[s] = 0 \/ \E t \in Inputs(s) : t >= output[s]

\* The order o can follow when the scripts in S are done.
Follows(S, o) ==
  /\ Closed(S)
  /\ IsInjective(o) /\ ToSet(o) \intersect S = {}
  /\ \A i \in 1 .. Len(o) : \A d \in ToSet(deps[o[i]]) :
       d \in S \/ \E j \in 1 .. i - 1 : o[j] = d

\* What is left of the order follows what is done.
Ahead == Follows(done, order)

\* A run under way has not failed, and what it has done is fresh.
RunGoesOn ==
  rpc # "idle" =>
    /\ ok = {} /\ Ahead
    /\ done \intersect stale \subseteq raced \union late
    /\ rpc = "exec" => order # <<>>

\* The inductive invariant.
ScriptsInv == /\ ScriptsTypeOK /\ FilesArePast /\ StaleShows
              /\ RunGoesOn /\ SuccessIsFresh

\* The dependencies of a script are a list.
LEMMA DepsAreLists ==
  ASSUME NEW ss \in SetToAllKPermutations(Scripts)
  PROVE  ss \in Seq(Scripts)
<1>1. PICK S \in SUBSET Scripts : ss \in SetToSeqs(S)
  BY DEF SetToAllKPermutations
<1>2. PICK n : n = Cardinality(S)
  OBVIOUS
<1>3. n \in Nat
  BY <1>2, ScriptsAssumption, FS_Subset, FS_CardinalityType
<1>4. ss \in [1 .. n -> S]
  BY <1>1, <1>2 DEF SetToSeqs
<1> QED
  BY <1>3, <1>4

\* At first every output is missing, and shows it.
LEMMA ScriptsInitially == ScriptsInit => ScriptsInv
<1> SUFFICES ASSUME ScriptsInit PROVE ScriptsInv
  OBVIOUS
<1>1. Graph
  BY DepsAreLists DEF ScriptsInit, Graph
<1>2. ScriptsTypeOK
  BY <1>1, EmptyQueue DEF ScriptsInit, ScriptsTypeOK
<1>3. FilesArePast /\ StaleShows /\ RunGoesOn /\ SuccessIsFresh
  BY DEF ScriptsInit, FilesArePast, StaleShows, RunGoesOn, SuccessIsFresh
<1> QED
  BY <1>2, <1>3 DEF ScriptsInv

\* What is stale and shows it is not taken for cached.
LEMMA CachedIsFresh ==
  ASSUME ScriptsInv, NEW s \in Scripts, IsCached(s)
  PROVE  s \notin stale \/ s \in raced
<1> SUFFICES ASSUME s \in stale \ raced PROVE FALSE
  OBVIOUS
<1>1. /\ s \in Cacheable /\ output[s] # 0 /\ output[s] \in Nat
      /\ \A t \in Inputs(s) : output[s] > t
  BY DEF IsCached, ScriptsInv, ScriptsTypeOK
<1>2. PICK t \in Inputs(s) : t >= output[s]
  BY <1>1 DEF ScriptsInv, StaleShows
<1>3. t \in Nat
  BY DEF Inputs, ScriptsInv, ScriptsTypeOK
<1> QED
  BY <1>1, <1>2, <1>3

\* The head of the order: its dependencies are done, nothing that is done uses
\* it, and the rest follows it.
LEMMA HeadIsNext ==
  ASSUME ScriptsInv, rpc # "idle", order # <<>>, NEW h, NEW x, NEW o,
         h = Head(order), x = done \union {h}, o = Tail(order)
  PROVE  /\ h \in Scripts /\ h \notin done
         /\ Needs(h) \subseteq done
         /\ ToSet(deps[h]) \subseteq done
         /\ \A t \in x : h \notin ToSet(deps[t])
         /\ o \in Seq(Scripts) /\ x \in SUBSET Scripts
         /\ Follows(x, o)
<1>1. /\ Graph /\ order \in Seq(Scripts) /\ done \in SUBSET Scripts /\ Ahead
  BY DEF ScriptsInv, ScriptsTypeOK, RunGoesOn
<1>2. h = Head(order) /\ o = Tail(order)
  OBVIOUS
<1>3. /\ h \in Scripts /\ h \in ToSet(order) /\ o \in Seq(Scripts)
      /\ IsInjective(o) /\ ToSet(o) = ToSet(order) \ {h}
  BY <1>1, <1>2, PopQueue DEF Ahead, Follows
<1>4. /\ Len(order) \in Nat \ {0} /\ Len(o) = Len(order) - 1
      /\ h = order[1] /\ \A i \in 1 .. Len(o) : o[i] = order[i + 1]
  BY <1>1, <1>2, HeadTailProperties, LenProperties, EmptySeq
<1>5. h \notin done
  BY <1>1, <1>3 DEF Ahead, Follows
<1>6. ToSet(deps[h]) \subseteq done
  BY <1>1, <1>4 DEF Ahead, Follows
<1>7. Needs(h) \subseteq done
  BY <1>1, <1>3, <1>6, NeedsIsLeast DEF Ahead, Follows
<1>8. \A t \in x : h \notin ToSet(deps[t])
  BY <1>1, <1>5, <1>6 DEF Ahead, Follows, Closed
<1>9. x = done \union {h}
  OBVIOUS
<1>10. /\ x \in SUBSET Scripts /\ ToSet(o) \intersect x = {}
       /\ \A t \in x : ToSet(deps[t]) \subseteq x
  BY <1>1, <1>3, <1>6, <1>9 DEF Ahead, Follows, Closed
<1>11. ASSUME NEW i \in 1 .. Len(o), NEW d \in ToSet(deps[o[i]]), d \notin x
       PROVE  \E j \in 1 .. i - 1 : o[j] = d
  <2>1. i + 1 \in 1 .. Len(order) /\ o[i] = order[i + 1] /\ i + 1 - 1 = i
    BY <1>4
  <2>2. PICK j \in 1 .. i : order[j] = d
    BY <1>1, <1>9, <1>11, <2>1 DEF Ahead, Follows
  <2>3. j # 1
    BY <1>4, <1>9, <1>11, <2>2
  <2>4. j - 1 \in 1 .. i - 1 /\ j - 1 \in 1 .. Len(o) /\ j - 1 + 1 = j
    BY <1>4, <2>3
  <2>5. o[j - 1] = d
    BY <1>4, <2>2, <2>4
  <2> QED
    BY <2>4, <2>5
<1> QED
  BY <1>3, <1>5, <1>6, <1>7, <1>8, <1>10, <1>11 DEF Follows, Closed

\* A run starts with a complete order and nothing done.
LEMMA StartKeeps ==
  ASSUME ScriptsInv, NEW s \in Scripts, NEW flag \in BOOLEAN, RunStart(s, flag)
  PROVE  ScriptsInv'
<1>1. /\ ValidateScripts /\ order' = ResolveScriptDependencies(s)
      /\ noCache' = flag /\ rpc' = "next" /\ done' = {} /\ ok' = {} /\ late' = {}
      /\ UNCHANGED <<deps, clock, source, output, stale, raced>>
  BY DEF RunStart, files
<1>2. ScriptsTypeOK /\ FilesArePast /\ StaleShows /\ Graph
  BY DEF ScriptsInv, ScriptsTypeOK
<1>3. order' \in Seq(Scripts) /\ InOrder(order')
  BY <1>1, <1>2, ResolvedInOrder DEF ValidateScripts
<1>4. ScriptsTypeOK'
  BY <1>1, <1>2, <1>3 DEF ScriptsTypeOK, Graph
<1>5. FilesArePast' /\ StaleShows'
  BY <1>1, <1>2 DEF FilesArePast, StaleShows, Inputs
<1>6. Ahead'
  BY <1>1, <1>3 DEF Ahead, Follows, Closed, InOrder
<1>7. RunGoesOn' /\ SuccessIsFresh'
  BY <1>1, <1>6 DEF RunGoesOn, SuccessIsFresh
<1> QED
  BY <1>4, <1>5, <1>7 DEF ScriptsInv

\* A cached script counts as done, an executing one no longer as edited late.
LEMMA SkipKeeps ==
  ASSUME ScriptsInv, SkipCached \/ Execute
  PROVE  ScriptsInv'
<1>1. /\ ScriptsTypeOK /\ FilesArePast /\ StaleShows /\ RunGoesOn /\ SuccessIsFresh
      /\ Graph /\ order \in Seq(Scripts)
  BY DEF ScriptsInv, ScriptsTypeOK
<1>2. /\ rpc = "next" /\ order # <<>>
      /\ UNCHANGED <<deps, clock, source, output, noCache, ok, stale, raced>>
  BY DEF SkipCached, Execute, files, history
<1>3. PICK h : h = Head(order)
  OBVIOUS
<1>4. PICK x, o : x = done \union {h} /\ o = Tail(order)
  OBVIOUS
<1>5. /\ h \in Scripts /\ h \notin done
      /\ o \in Seq(Scripts) /\ x \in SUBSET Scripts
      /\ \A t \in x : ToSet(deps[t]) \subseteq x
      /\ IsInjective(o) /\ ToSet(o) \intersect x = {}
      /\ \A i \in 1 .. Len(o) : \A d \in ToSet(deps[o[i]]) :
           d \in x \/ \E j \in 1 .. i - 1 : o[j] = d
  <2>1. rpc # "idle" /\ order # <<>>
    BY <1>2
  <2>2. h \in Scripts /\ h \notin done /\ o \in Seq(Scripts) /\ x \in SUBSET Scripts
        /\ Follows(x, o)
    BY <2>1, <1>3, <1>4, HeadIsNext
  <2> QED
    BY <2>2 DEF Follows, Closed
<1>6. FilesArePast' /\ StaleShows'
  BY <1>1, <1>2 DEF FilesArePast, StaleShows, Inputs
<1>7. ok = {} /\ Ahead /\ done \intersect stale \subseteq raced \union late
  BY <1>1, <1>2 DEF RunGoesOn
<1>8. CASE SkipCached
  <2>1. /\ IsCached(h) /\ order' = o /\ done' = x
        /\ UNCHANGED <<rpc, late>>
    BY <1>3, <1>4, <1>8 DEF SkipCached, history
  <2>2. h \notin stale \/ h \in raced
    BY <1>5, <2>1, CachedIsFresh
  <2>3. ScriptsTypeOK'
    BY <1>1, <1>2, <1>5, <2>1 DEF ScriptsTypeOK, Graph
  <2>4. Ahead'
    BY <1>2, <1>5, <2>1 DEF Ahead, Follows, Closed
  <2>5. RunGoesOn' /\ SuccessIsFresh'
    BY <1>2, <1>4, <1>7, <2>1, <2>2, <2>4 DEF RunGoesOn, SuccessIsFresh
  <2> QED
    BY <1>6, <2>3, <2>5 DEF ScriptsInv
<1>9. CASE Execute
  <2>1. rpc' = "exec" /\ late' = late \ {h} /\ UNCHANGED <<order, done>>
    BY <1>3, <1>9 DEF Execute
  <2>2. ScriptsTypeOK'
    BY <1>1, <1>2, <2>1 DEF ScriptsTypeOK, Graph
  <2>3. Ahead'
    BY <1>2, <1>7, <2>1 DEF Ahead, Follows, Closed
  <2>4. RunGoesOn' /\ SuccessIsFresh'
    BY <1>2, <1>5, <1>7, <2>1, <2>3 DEF RunGoesOn, SuccessIsFresh
  <2> QED
    BY <1>6, <2>2, <2>4 DEF ScriptsInv
<1> QED
  BY <1>8, <1>9

\* An output written now is not older than any other: what uses it shows that
\* it is stale, and nothing else changes.
LEMMA WriteShows ==
  ASSUME ScriptsInv, NEW s \in Scripts, Write(s), UNCHANGED deps,
         stale' \subseteq stale \union Users(s) \union {s},
         stale' \in SUBSET Cacheable,
         raced \ {s} \subseteq raced',
         s \in stale' => s \in raced' \/ s \in Users(s)
  PROVE  FilesArePast' /\ StaleShows' /\ output' \in [Cacheable -> Nat]
<1>1. /\ clock \in Nat /\ source \in [Sourced -> Nat]
      /\ output \in [Cacheable -> Nat] /\ FilesArePast /\ StaleShows
  BY DEF ScriptsInv, ScriptsTypeOK
<1>2. /\ output' = [t \in Cacheable |-> IF t = s THEN clock ELSE output[t]]
      /\ clock' = clock /\ source' = source
  BY DEF Write
<1>3. output' \in [Cacheable -> Nat]
  BY <1>1, <1>2
<1>4. FilesArePast'
  BY <1>1, <1>2 DEF FilesArePast
<1>5. ASSUME NEW t \in stale', t \notin raced'
      PROVE  output'[t] = 0 \/ \E i \in Inputs(t)' : i >= output'[t]
  <2>1. t \in Cacheable /\ output'[t] <= clock /\ output'[t] \in Nat
    BY <1>2, <1>3, <1>4 DEF FilesArePast
  <2>2. CASE t \in Users(s)
    <3>1. output'[s] = clock /\ s \in ToSet(deps[t]) \intersect Cacheable
      BY <1>2, <2>2 DEF Users
    <3>2. clock = 0 \/ clock \in Inputs(t)'
      BY <3>1 DEF Inputs
    <3> QED
      BY <1>1, <2>1, <3>2
  <2>3. CASE t \notin Users(s)
    <3>1. t # s /\ t \in stale \ raced
      BY <1>5, <2>3
    <3>2. output'[t] = output[t]
      BY <1>2, <2>1, <3>1
    <3>3. s \notin Cacheable \/ s \notin ToSet(deps[t])
      BY <2>1, <2>3 DEF Users
    <3>4. \A d \in ToSet(deps[t]) \intersect Cacheable : output'[d] = output[d]
      BY <1>2, <3>3
    <3>5. Inputs(t)' = Inputs(t)
      BY <1>2, <3>4 DEF Inputs
    <3> QED
      BY <1>1, <3>1, <3>2, <3>5 DEF StaleShows
  <2> QED
    BY <2>2, <2>3
<1> QED
  BY <1>3, <1>4, <1>5 DEF StaleShows

\* A script that succeeds: nothing that is done uses its output, so what is done
\* stays fresh.
LEMMA SuccessKeeps ==
  ASSUME ScriptsInv, ScriptSucceeds
  PROVE  ScriptsInv'
<1>1. /\ ScriptsTypeOK /\ FilesArePast /\ StaleShows /\ RunGoesOn /\ Graph
  BY DEF ScriptsInv, ScriptsTypeOK
<1>2. PICK h : h = Head(order)
  OBVIOUS
<1>3. PICK x, o : x = done \union {h} /\ o = Tail(order)
  OBVIOUS
<1>4. /\ rpc = "exec" /\ Write(h) /\ order' = o /\ done' = x /\ rpc' = "next"
      /\ stale' = (IF h \in late THEN stale ELSE stale \ {h}) \union Users(h)
      /\ raced' = IF h \in late THEN raced \union {h} ELSE raced \ {h}
      /\ UNCHANGED <<deps, noCache, ok, late>>
  BY <1>2, <1>3 DEF ScriptSucceeds
<1>5. /\ order # <<>> /\ ok = {} /\ done \intersect stale \subseteq raced \union late
  BY <1>1, <1>4 DEF RunGoesOn
<1>6. /\ h \in Scripts /\ h \notin done
      /\ \A t \in x : h \notin ToSet(deps[t])
      /\ o \in Seq(Scripts) /\ x \in SUBSET Scripts
      /\ \A t \in x : ToSet(deps[t]) \subseteq x
      /\ IsInjective(o) /\ ToSet(o) \intersect x = {}
      /\ \A i \in 1 .. Len(o) : \A d \in ToSet(deps[o[i]]) :
           d \in x \/ \E j \in 1 .. i - 1 : o[j] = d
  <2>1. rpc # "idle" /\ order # <<>>
    BY <1>4, <1>5
  <2>2. h \in Scripts /\ h \notin done /\ o \in Seq(Scripts) /\ x \in SUBSET Scripts
        /\ Follows(x, o) /\ \A t \in x : h \notin ToSet(deps[t])
    BY <2>1, <1>2, <1>3, HeadIsNext
  <2> QED
    BY <2>2 DEF Follows, Closed
<1>7. /\ stale' \in SUBSET Cacheable /\ raced' \in SUBSET Scripts
      /\ Users(h) \intersect x = {}
  BY <1>1, <1>4, <1>6, ScriptsAssumption DEF ScriptsTypeOK, Users
<1>8. FilesArePast' /\ StaleShows' /\ output' \in [Cacheable -> Nat]
  <2>1. stale' \subseteq stale \union Users(h) \union {h}
    BY <1>4
  <2>2. raced \ {h} \subseteq raced' /\ (h \in stale' => h \in raced' \/ h \in Users(h))
    BY <1>4
  <2> QED
    BY <1>4, <1>6, <1>7, <2>1, <2>2, WriteShows
<1>9. ScriptsTypeOK'
  <2>1. clock' = clock /\ source' = source
    BY <1>4 DEF Write
  <2> QED
    BY <1>1, <1>4, <1>6, <1>7, <1>8, <2>1 DEF ScriptsTypeOK, Graph
<1>10. Ahead'
  BY <1>4, <1>6 DEF Ahead, Follows, Closed
<1>11. done' \intersect stale' \subseteq raced' \union late'
  BY <1>3, <1>4, <1>5, <1>6, <1>7
<1>12. RunGoesOn' /\ SuccessIsFresh'
  BY <1>4, <1>5, <1>10, <1>11 DEF RunGoesOn, SuccessIsFresh
<1> QED
  BY <1>8, <1>9, <1>12 DEF ScriptsInv

\* A script that fails ends the run; what it wrote is recorded as raced.
LEMMA FailureKeeps ==
  ASSUME ScriptsInv, NEW wrote \in BOOLEAN, ScriptFails(wrote)
  PROVE  ScriptsInv'
<1>1. /\ ScriptsTypeOK /\ FilesArePast /\ StaleShows /\ RunGoesOn /\ Graph
  BY DEF ScriptsInv, ScriptsTypeOK
<1>2. PICK h : h = Head(order)
  OBVIOUS
<1>3. /\ rpc = "exec" /\ rpc' = "idle" /\ order' = <<>> /\ done' = {}
      /\ UNCHANGED <<deps, noCache, ok, late>>
  BY DEF ScriptFails
<1>4. ok = {} /\ order # <<>>
  BY <1>1, <1>3 DEF RunGoesOn
<1>5. h \in Scripts
  BY <1>2, <1>3, <1>4, HeadIsNext
<1>6. RunGoesOn' /\ SuccessIsFresh'
  BY <1>3, <1>4 DEF RunGoesOn, SuccessIsFresh
<1>7. order' \in Seq(Scripts)
  BY <1>3, EmptyQueue
<1>8. CASE wrote /\ h \in Cacheable
  <2>1. /\ Write(h) /\ stale' = (stale \union {h}) \union Users(h)
        /\ raced' = raced \union {h}
    BY <1>2, <1>8 DEF ScriptFails
  <2>2. stale' \in SUBSET Cacheable /\ raced' \in SUBSET Scripts
    BY <1>1, <1>5, <1>8, <2>1 DEF ScriptsTypeOK, Users
  <2>3. FilesArePast' /\ StaleShows' /\ output' \in [Cacheable -> Nat]
    BY <1>3, <1>5, <2>1, <2>2, WriteShows
  <2>4. clock' = clock /\ source' = source
    BY <2>1 DEF Write
  <2>5. ScriptsTypeOK'
    BY <1>1, <1>3, <1>7, <2>2, <2>3, <2>4 DEF ScriptsTypeOK, Graph
  <2> QED
    BY <1>6, <2>3, <2>5 DEF ScriptsInv
<1>9. CASE ~(wrote /\ h \in Cacheable)
  <2>1. UNCHANGED <<clock, source, output, stale, raced>>
    BY <1>2, <1>9 DEF ScriptFails, files
  <2>2. FilesArePast' /\ StaleShows'
    BY <1>1, <1>3, <2>1 DEF FilesArePast, StaleShows, Inputs
  <2>3. ScriptsTypeOK'
    BY <1>1, <1>3, <1>7, <2>1 DEF ScriptsTypeOK, Graph
  <2> QED
    BY <1>6, <2>2, <2>3 DEF ScriptsInv
<1> QED
  BY <1>8, <1>9

\* An edited source is not older than the output made from it.
LEMMA EditKeeps ==
  ASSUME ScriptsInv, NEW s \in Sourced, Edit(s)
  PROVE  ScriptsInv'
<1>1. /\ ScriptsTypeOK /\ FilesArePast /\ StaleShows /\ RunGoesOn /\ SuccessIsFresh
      /\ Graph
  BY DEF ScriptsInv, ScriptsTypeOK
<1>2. /\ source' = [source EXCEPT ![s] = clock]
      /\ stale' = stale \union ({s} \intersect Cacheable)
      /\ UNCHANGED <<deps, clock, output, rpc, order, noCache, done, raced>>
  BY DEF Edit
<1>3. \/ rpc = "idle" /\ ok' = {} /\ late' = late
      \/ rpc # "idle" /\ late' = late \union {s} /\ ok' = ok
  BY DEF Edit
<1>4. /\ source' \in [Sourced -> Nat] /\ source'[s] = clock
      /\ \A t \in Sourced \ {s} : source'[t] = source[t]
  BY <1>1, <1>2 DEF ScriptsTypeOK
<1>5. ScriptsTypeOK'
  BY <1>1, <1>2, <1>3, <1>4 DEF ScriptsTypeOK, Graph
<1>6. FilesArePast'
  BY <1>1, <1>2, <1>4 DEF FilesArePast, ScriptsTypeOK
<1>7. StaleShows'
  <2>1. ASSUME NEW t \in stale', t \notin raced'
        PROVE  output'[t] = 0 \/ \E i \in Inputs(t)' : i >= output'[t]
    <3>1. t \in Cacheable /\ output[t] <= clock /\ output[t] \in Nat /\ clock \in Nat
      BY <1>1, <1>2 DEF ScriptsTypeOK, FilesArePast
    <3>2. CASE t = s
      <4>1. clock = 0 \/ clock \in Inputs(t)'
        BY <1>4, <3>2 DEF Inputs
      <4> QED
        BY <1>2, <3>1, <4>1
    <3>3. CASE t # s
      <4>1. \A u \in {t} \intersect Sourced : source'[u] = source[u]
        BY <1>4, <3>3
      <4>2. Inputs(t)' = Inputs(t)
        BY <1>2, <4>1 DEF Inputs
      <4>3. t \in stale \ raced
        BY <1>2, <2>1, <3>3
      <4> QED
        BY <1>1, <1>2, <4>2, <4>3 DEF StaleShows
    <3> QED
      BY <3>2, <3>3
  <2> QED
    BY <2>1 DEF StaleShows
<1>8. rpc # "idle" => Ahead'
  BY <1>1, <1>2 DEF RunGoesOn, Ahead, Follows, Closed
<1>9. RunGoesOn' /\ SuccessIsFresh'
  BY <1>1, <1>2, <1>3, <1>8 DEF RunGoesOn, SuccessIsFresh
<1> QED
  BY <1>5, <1>6, <1>7, <1>9 DEF ScriptsInv

\* Time passes, a run ends.
LEMMA EndKeeps ==
  ASSUME ScriptsInv, RunEnd \/ Tick \/ UNCHANGED scriptsVars
  PROVE  ScriptsInv'
<1>1. /\ ScriptsTypeOK /\ FilesArePast /\ StaleShows /\ RunGoesOn /\ SuccessIsFresh
      /\ Graph
  BY DEF ScriptsInv, ScriptsTypeOK
<1>2. /\ UNCHANGED <<deps, source, output, order, noCache, stale, raced, late>>
      /\ clock' \in {clock, clock + 1}
  BY DEF RunEnd, Tick, scriptsVars, files, history
<1>3. \/ UNCHANGED <<rpc, done, ok>>
      \/ rpc = "next" /\ rpc' = "idle" /\ ok' = done /\ done' = {}
  BY DEF RunEnd, Tick, scriptsVars
<1>4. ScriptsTypeOK'
  BY <1>1, <1>2, <1>3 DEF ScriptsTypeOK, Graph
<1>5. FilesArePast'
  BY <1>1, <1>2 DEF FilesArePast, ScriptsTypeOK
<1>6. StaleShows'
  BY <1>1, <1>2 DEF StaleShows, Inputs
<1>7. RunGoesOn' /\ SuccessIsFresh'
  <2>1. CASE UNCHANGED <<rpc, done, ok>>
    <3>1. rpc # "idle" => Ahead'
      BY <1>1, <1>2, <2>1 DEF RunGoesOn, Ahead, Follows, Closed
    <3> QED
      BY <1>1, <1>2, <2>1, <3>1 DEF RunGoesOn, SuccessIsFresh
  <2>2. CASE rpc = "next" /\ rpc' = "idle" /\ ok' = done /\ done' = {}
    BY <1>1, <1>2, <2>2 DEF RunGoesOn, SuccessIsFresh
  <2> QED
    BY <1>3, <2>1, <2>2
<1> QED
  BY <1>4, <1>5, <1>6, <1>7 DEF ScriptsInv

\* For any finite set of scripts with any dependencies, sources and outputs,
\* under runs, failures and edits in any order, ScriptsInv holds.
THEOREM ScriptsInvHolds == ScriptsSpec => []ScriptsInv
<1>1. ScriptsInv /\ [ScriptsNext]_scriptsVars => ScriptsInv'
  BY StartKeeps, SkipKeeps, SuccessKeeps, FailureKeeps, EditKeeps, EndKeeps
  DEF ScriptsNext
<1> QED
  BY <1>1, ScriptsInitially, PTL DEF ScriptsSpec

\* validateScripts accepts exactly the sets of scripts without a cycle, and
\* resolveScriptDependencies gives for each script everything it needs, once,
\* for every dependency graph.
THEOREM OrderAlwaysComplete == ScriptsSpec => []OrderComplete
<1>1. ScriptsInv => OrderComplete
  BY OrdersComplete DEF ScriptsInv, ScriptsTypeOK
<1> QED
  BY <1>1, ScriptsInvHolds, PTL

\* packageRunCommand executes a script only after all it needs has succeeded or
\* was found cached in the same run.
THEOREM DependenciesAlwaysFirst == ScriptsSpec => []DependenciesFirst
<1>1. ScriptsInv => DependenciesFirst
  BY HeadIsNext DEF DependenciesFirst, ScriptsInv, RunGoesOn
<1> QED
  BY <1>1, ScriptsInvHolds, PTL

\* checkScriptCacheWithEnv skips no script whose output is stale, however edits
\* and runs fall within the ticks of the clock, apart from the cases mtimes
\* cannot tell (raced) and edits during the run (late).
THEOREM SuccessAlwaysFresh == ScriptsSpec => []SuccessIsFresh
<1>1. ScriptsInv => SuccessIsFresh
  BY DEF ScriptsInv
<1> QED
  BY <1>1, ScriptsInvHolds, PTL
=============================================================================
