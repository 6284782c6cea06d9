SPECIFICATION MCSpec
CONSTANTS
  Workers = {w1, w2}
  Keepers = {k1}
  none = none
  noProc = noProc
  NoProc = noProc
  None <- MCNone
  Plans <- MCPlans
  MaxOverlap = 2
  MaxLeases = 3
  Callers = {w1, w2}
  Files <- MCFiles
  Packages <- MCPackages
  MaxRuns = 2
  MaxMinute = 1
  Keeping = {w1, w2}
  NoDir = noDir
  MaxDirs = 3
  Foci = {"governor", "team", "routes", "store"}
INVARIANTS StagesInOrder ExclusiveUnlessLost LatestLeaseDecides DispatchedHasPackage RunsEndSettled NeverUnasked BrainIsKept
PROPERTIES ImplementsFallbackChain
SYMMETRY Symmetry
CHECK_DEADLOCK FALSE
