CONSTANTS
  Scripts = {x, y, z}
  Sourced = {x, y}
  Cacheable = {x, y}
  MaxTime = 3
SPECIFICATION ScriptsSpec
INVARIANTS OrderComplete DependenciesFirst SuccessIsFresh
