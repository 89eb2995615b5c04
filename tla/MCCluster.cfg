CONSTANTS
  AllWorkers <- AllOfThem
  Tasks = {t1, t2}
  Setups <- Clusters
  MaxNvps = 2
  NoTask = NoTask
  NoThread = NoThread
  Variables = {a, b}
  Values = {zero, u}
  Initially = zero
SPECIFICATION ClusterSpec
INVARIANTS TypeOK DepCount OnePlace RightMessage RepliesInOrder Agreement Arrived
PROPERTIES RefinesForkJoin CallsReturn
CHECK_DEADLOCK FALSE
