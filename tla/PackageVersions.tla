-------------------------- MODULE PackageVersions --------------------------
(***************************************************************************)
(* PackageManager with the constraints of package/types.c.  The versions   *)
(* of PackageManager are the ranks of the tags in the order of             *)
(* compareSemanticVersions, and Releases gives what a tag was parsed to.   *)
(***************************************************************************)
EXTENDS PackageManager, SemVer

CONSTANT Releases  \* Releases[v]: the SemanticVersion of tag v

ASSUME ReleasesAssumption ==
  /\ Releases \in [Versions -> SemanticVersion]
  /\ \A v, w \in Versions :
       v < w => CompareSemanticVersions(Releases[v], Releases[w]) < 0
  /\ \A v, w \in Versions :
       w > Recorded(v) <=>
         CompareSemanticVersions([Releases[v] EXCEPT !.prerelease = 0],
                                 Releases[w]) < 0
  /\ \A range \in Ranges : range.version \in SemanticVersion
  /\ \A v \in Versions, range \in Ranges :
       Satisfies(v, range) <=>
         VersionSatisfiesConstraint(Releases[v], range.type, range.version)

\* Whatever commands ran, failed or were killed before, a dependency declared
\* with a caret constraint is locked below the first version that may be
\* incompatible with it (findBestMatchingVersion, versionSatisfiesConstraint).
LockedIsCompatible ==
  lock # NoFile =>
    \A n \in Declared \intersect DOMAIN lock :
      LET range == manifest[n].range
      IN  manifest[n].tag = None /\ range.type = "caret" =>
            Within(Releases[lock[n].tag], range.version, CaretEnd(range.version))
=============================================================================
