CONSTANTS
  Workers = {w0, w1, w2}
  Main = w0
  Tasks = {t1, t2, t3}
  NoDesc = NoDesc
  NumLevels = 2
  Calls = {"task", "wait_all"}
  Dequeues = {"delivers"}
  JoinBeforeReturn = TRUE
SYMMETRY TaskSymmetry
SPECIFICATION Spec
INVARIANTS TypeOK DepCount StackInv QueueInv NoWaitCycle NoStaleParent
PROPERTIES JoinSound RefinesForkJoin
