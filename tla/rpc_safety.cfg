CONSTANTS
  r1 = r1
  r2 = r2
  a = a
  b = b
  w = w
  timer = timer
  Requests = {r1, r2}
  Connections = {a, b}
  Workers = {w}
  MaxQueued = 1
SPECIFICATION Spec
SYMMETRY CallSymmetry
CHECK_DEADLOCK FALSE
INVARIANTS
  ToldWhatWasAnswered
  AnsweredCallLeavesNothing
  SlotsFollowCalls
PROPERTIES
  OneOutcomePerCall
