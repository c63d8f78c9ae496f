CONSTANTS
  Setups <- MCSetups
  s1 = s1
  Senders = {s1}
  MaxConnections = 2
  MaxFrames = 2
  MaxCalls = 2
  MaxConnects = 2
SPECIFICATION FairSpec
CHECK_DEADLOCK FALSE
INVARIANTS
  EventsInOrder
  TableKnowsWhoIsUp
  HandledAsReceived
  ConnectIsKept
PROPERTIES
  LossIsReported
  OnlyTasksOutlive
