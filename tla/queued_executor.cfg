CONSTANTS
  p1 = p1
  p2 = p2
  w1 = w1
  w2 = w2
  Posters = {p1, p2}
  Workers = {w1, w2}
  MaxPosts = 3
SPECIFICATION FairSpec
INVARIANTS
  TypeOK
  NoLostWakeup
  OneWorkerIsFifo
PROPERTIES
  ImplementsExecutor
  AcceptedTaskRuns
  StopReleasesWorker
