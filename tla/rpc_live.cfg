CONSTANTS
  r1 = r1
  a = a
  b = b
  w = w
  timer = timer
  Requests = {r1}
  Connections = {a, b}
  Workers = {w}
  MaxQueued = 2
SPECIFICATION FairSpec
CHECK_DEADLOCK FALSE
PROPERTIES
  SeenTimeoutEndsCall
  AnsweredCallEnds
