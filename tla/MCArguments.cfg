CONSTANTS
  Nodes = {n0, n1, n2}
  Home = n0
  NArgs = 2
  MaxHops = 2
SPECIFICATION Spec
INVARIANTS SeesCallerData ResultsBeforeJoin PayloadMatches CopiesFreedOnce
CHECK_DEADLOCK FALSE
