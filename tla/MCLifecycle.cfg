CONSTANTS
  Setups <- Clusters
  MaxNodes = 3
  MaxNvps = 2
SPECIFICATION Spec
INVARIANTS TypeOK StartsTogether NobodyLeftBehind AnsweredOrOver
PROPERTIES Starts EveryoneLeaves
CHECK_DEADLOCK FALSE
