SPECIFICATION MCSpec
CONSTANTS
  Workers = {w1, w2}
  Keepers = {k1}
  none = none
  noProc = noProc
  NoProc = noProc
  None <- MCNone
  Plans <- MCPlans
  MaxOverlap = 1
  MaxLeases = 2
  Callers = {w1}
  Files <- MCFiles
  Packages <- MCPackages
  MaxRuns = 2
  MaxMinute = 1
  Keeping = {w1}
  NoDir = noDir
  MaxDirs = 3
  Foci = {"scope"}
INVARIANTS ReportedScopeIsTrue
CHECK_DEADLOCK FALSE
