CONSTANTS
  c1 = c1
  c2 = c2
  Clients = {c1, c2}
  MaxTasks = 2
  MinInterval = 1
  MaxInterval = 2
SPECIFICATION Spec
SYMMETRY ClientSymmetry
INVARIANTS
  TypeOK
  OneShotAtMostOnce
  WakeCoversSeen
PROPERTIES
  RemovedStaysSilent
  RateLimited
  QuietWhenStopped
