CONSTANTS
  base = base
  middle = middle
  persistence = persistence
  Systems = {base, middle, persistence}
  Requires <- MCRequires
  a1 = a1
  Adapters = {a1}
  Phases = 2
  MaxRegistrations = 3
  mainThread = mainThread
  t1 = t1
  Others = {t1}
  l1 = l1
  l2 = l2
  Loggers = {l1, l2}
  NullLogger = NullLogger
  MaxMade = 3
SPECIFICATION FairSpec
CHECK_DEADLOCK FALSE
INVARIANTS
  DependenciesUp
  AdaptersFollowStore
  DroppedOnlyInOverlap
  ClosedIsOnItsWayOut
  QuietLoggerPrints
PROPERTIES
  QuitEnds
