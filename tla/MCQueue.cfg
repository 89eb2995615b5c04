CONSTANTS
  Users = {u1, u2, u3}
  Dequeuers = {u1, u2}
  Nodes = {d1, d2, d3, d4}
  Null = Null
SPECIFICATION Spec
INVARIANTS ListShape NoNullDeref
PROPERTIES RefinesDeque
CHECK_DEADLOCK FALSE
