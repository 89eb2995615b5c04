CONSTANTS
  AllWorkers <- AllOfThem
  Tasks = {t1, t2}
  Setups <- StealHolding
  MaxNvps = 2
  NoTask = NoTask
  NoThread = NoThread
  Variables = {a, b}
  Values = {zero, u}
  Initially = zero
SPECIFICATION ClusterSpec
PROPERTY StealsReturn
CHECK_DEADLOCK FALSE
