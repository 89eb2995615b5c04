CONSTANTS
  Workers = {w0, w1}
  Main = w0
  Tasks = {t1, t2}
  NoDesc = NoDesc
  NumLevels = 2
  Calls = {"task", "task_detached", "wait_all", "wait_all2", "wait_all3", "scheduler_loop", "fetch_work"}
  Dequeues = {"delivers", "loses"}
  JoinBeforeReturn = FALSE
SYMMETRY TaskSymmetry
SPECIFICATION Spec
INVARIANTS IInv NoWaitCycle
PROPERTIES RefinesForkJoin
CHECK_DEADLOCK FALSE
