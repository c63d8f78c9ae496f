CONSTANTS
  c1 = c1
  Clients = {c1}
  MaxTasks = 2
  MinInterval = 1
  MaxInterval = 2
SPECIFICATION FairSpec
PROPERTIES
  SeenTaskRuns
  HeartbeatFindsUnseen
  StopReachesSleeper
