CONSTANTS
  s1 = s1
  s2 = s2
  io = io
  Senders = {s1, s2}
  MaxFrames = 3
  MaxIncoming = 1
  Pieces = 2
SPECIFICATION FairSpec
CHECK_DEADLOCK FALSE
INVARIANTS
  QueueIsServed
  EachFrameInOnePlace
  PacedFramesIntact
PROPERTIES
  CloseIsReported
