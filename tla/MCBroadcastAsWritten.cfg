CONSTANTS
  AllWorkers <- AllOfThem
  Tasks = {t1, t2}
  Setups <- BroadcastAsWritten
  MaxNvps = 2
  NoTask = NoTask
  NoThread = NoThread
  Variables = {a, b}
  Values = {zero, u}
  Initially = zero
SPECIFICATION ClusterSpec
INVARIANT Arrived
CHECK_DEADLOCK FALSE
