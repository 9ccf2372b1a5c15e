CONSTANTS
  Numbers = {0, 1, 2}
  Names = {a, b}
  DevNames = {b}
  Releases <- MCReleases
  Versions <- MCVersions
  Ranges <- MCRanges
  Satisfies <- MCSatisfies
  Recorded <- MCRecorded
  Tip = Tip
  Broken = Broken
  NoFile = NoFile
  None = None
SPECIFICATION Spec
INVARIANTS LockedIsCompatible InstallRecovers VerifiedIsExact LockNeverGoesBack
