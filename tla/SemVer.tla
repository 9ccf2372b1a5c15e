------------------------------- MODULE SemVer -------------------------------
(***************************************************************************)
(* Semantic versions and version constraints of package/types.c.  A        *)
(* version is a record of three numbers and a prerelease, 0 if there is    *)
(* none and otherwise its rank in the order of strcmp.  Build metadata     *)
(* takes no part, except after a prerelease: that string runs on to the    *)
(* end of the tag, so there the rank is that of prerelease and metadata    *)
(* together.  A constraint is its operator and the version it was parsed   *)
(* with; 1.x and 1.0.x are parsed alike.                                   *)
(***************************************************************************)
EXTENDS Integers

CONSTANT Numbers  \* the numbers that occur in versions

ASSUME NumbersAssumption == Numbers \subseteq Nat

SemanticVersion ==
  [major : Numbers, minor : Numbers, patch : Numbers, prerelease : Numbers]

V(major, minor, patch) ==
  [major |-> major, minor |-> minor, patch |-> patch, prerelease |-> 0]

\* A prerelease comes before its release.
ComparePrerelease(a, b) ==
  CASE a = b -> 0
    [] a # b /\ (b = 0 \/ (a # 0 /\ a < b)) -> -1
    [] OTHER -> 1

CompareSemanticVersions(a, b) ==
  IF a.major # b.major THEN IF a.major < b.major THEN -1 ELSE 1
  ELSE IF a.minor # b.minor THEN IF a.minor < b.minor THEN -1 ELSE 1
  ELSE IF a.patch # b.patch THEN IF a.patch < b.patch THEN -1 ELSE 1
  ELSE ComparePrerelease(a.prerelease, b.prerelease)

\* The cases of versionSatisfiesConstraint.
MSatisfiesCaret(v, c) ==
  /\ CompareSemanticVersions(v, c) >= 0
  /\ v.major = c.major
SatisfiesCaret(v, c) ==
  /\ CompareSemanticVersions(v, c) >= 0
  /\ v.major = c.major
  /\ c.major = 0 => v.minor = c.minor
  /\ c.major = 0 /\ c.minor = 0 => v.patch = c.patch
SatisfiesTilde(v, c) ==
  /\ CompareSemanticVersions(v, c) >= 0
  /\ v.major = c.major
  /\ v.minor = c.minor
SatisfiesWildcard(v, c) ==
  /\ v.major = c.major
  /\ c.minor > 0 => v.minor = c.minor

VersionSatisfiesConstraint(v, type, c) ==
  CASE type = "exact"     -> CompareSemanticVersions(v, c) = 0
    [] type = "caret"     -> SatisfiesCaret(v, c)
    [] type = "tilde"     -> SatisfiesTilde(v, c)
    [] type = "greater"   -> CompareSemanticVersions(v, c) > 0
    [] type = "greaterEq" -> CompareSemanticVersions(v, c) >= 0
    [] type = "less"      -> CompareSemanticVersions(v, c) < 0
    [] type = "lessEq"    -> CompareSemanticVersions(v, c) <= 0
    [] type = "wildcard"  -> SatisfiesWildcard(v, c)
    [] type = "any"       -> TRUE

-----------------------------------------------------------------------------
(* Properties                                                              *)

\* The first version a caret constraint leaves out: the leftmost number that
\* is not zero changes.
CaretEnd(c) ==
  IF c.major > 0 THEN V(c.major + 1, 0, 0)
  ELSE IF c.minor > 0 THEN V(0, c.minor + 1, 0)
  ELSE V(0, 0, c.patch + 1)

\* v is at least `from' and below `to'.
Within(v, from, to) ==
  CompareSemanticVersions(v, from) >= 0 /\ CompareSemanticVersions(v, to) < 0

\* The constraints accept the ranges the comments of versionSatisfiesConstraint
\* give: of the released versions exactly those from the version named up to
\* the first incompatible one, and a prerelease only if its release.  For
\* wildcards that holds of 1.2.x (">=1.2.0 <1.3.0"), if the minor is not 0, and
\* of 1.x (">=1.0.0 <2.0.0"); 1.0.x accepts what 1.x does, and not, as the
\* first of these comments would have it, only what is below 1.1.0.
RangesAreIntervals ==
  \A v, c \in SemanticVersion :
    LET release == [v EXCEPT !.prerelease = 0]
    IN  /\ v = release =>
             /\ SatisfiesCaret(v, c) <=> Within(v, c, CaretEnd(c))
             /\ SatisfiesTilde(v, c) <=> Within(v, c, V(c.major, c.minor + 1, 0))
             /\ c.minor # 0 =>
                  (SatisfiesWildcard(v, c) <=>
                     Within(v, V(c.major, c.minor, 0), V(c.major, c.minor + 1, 0)))
             /\ c.minor = 0 =>
                  (SatisfiesWildcard(v, c) <=>
                     Within(v, V(c.major, 0, 0), V(c.major + 1, 0, 0)))
        /\ SatisfiesCaret(v, c) => SatisfiesCaret(release, c)
        /\ SatisfiesTilde(v, c) => SatisfiesTilde(release, c)
=============================================================================
