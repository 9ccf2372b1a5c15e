-------------------------- MODULE MCPackageManager --------------------------
(***************************************************************************)
(* An instance of PackageVersions for TLC: a repository releases versions  *)
(* 0.1.0 and 0.2.0 (no prerelease for the lock file to drop), and a        *)
(* dependency asks for ^0.1.0 or for any version.                          *)
(***************************************************************************)
EXTENDS PackageVersions

MCReleases == <<V(0, 1, 0), V(0, 2, 0)>>
MCVersions == DOMAIN MCReleases
MCRanges == {[type |-> "caret", version |-> V(0, 1, 0)],
             [type |-> "any", version |-> V(0, 0, 0)]}
MCSatisfies(v, range) ==
  VersionSatisfiesConstraint(MCReleases[v], range.type, range.version)
MCRecorded(v) == v
=============================================================================
