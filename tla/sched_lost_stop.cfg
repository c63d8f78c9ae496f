CONSTANTS
  c1 = c1
  Clients = {c1}
  MaxTasks = 1
  MinInterval = 1
  MaxInterval = 1
SPECIFICATION FairSpec
PROPERTY
  ShutdownCompletes
