CONSTANTS
  c1 = c1
  Clients = {c1}
  MaxTasks = 2
  MinInterval = 1
  MaxInterval = 1
SPECIFICATION FairSpec
PROPERTY
  ScheduledOneShotRuns
