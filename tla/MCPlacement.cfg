CONSTANTS
  NumNodes = 2
  MaxWorkers = 2
  Tasks = {t1, t2, t3, t4}
  NumLevels = 3
  Setups <- AllOfThem
  NoTask = NoTask
SPECIFICATION Spec
INVARIANTS TargetExists OneCopy RoundRobin CreationOrder
PROPERTY LandsWhereAsked
SYMMETRY TaskSymmetry
CHECK_DEADLOCK FALSE
