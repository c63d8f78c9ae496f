CONSTANTS
  a = a
  b = b
  h1 = h1
  h2 = h2
  h3 = h3
  Signals = {a, b}
  Handles = {h1, h2, h3}
  MaxSubscriptions = 4
  MaxDepth = 2
  MaxEmissions = 2
SPECIFICATION Spec
SYMMETRY Symmetry
CHECK_DEADLOCK FALSE
INVARIANTS
  EachSlotHasOneOwner
  EmissionReachesWhoStayed
PROPERTIES
  OnlyWhoStayedIsCalled
