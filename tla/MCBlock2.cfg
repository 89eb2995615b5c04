CONSTANTS
  Workers = {w0, w1}
  Main = w0
  Tasks = {t1, t2}
  NoDesc = NoDesc
  NumLevels = 2
  Calls = {"task", "wait_all2"}
  Dequeues = {"delivers"}
  JoinBeforeReturn = TRUE
SPECIFICATION Spec
PROPERTIES Block2MeansNoWork
