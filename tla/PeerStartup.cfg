SPECIFICATION Spec
CONSTANTS
  n1 = n1
  c1 = c1
  k1 = k1
  k2 = k2
  None = None
  Node <- const_Node
  Client <- const_Client
  Call <- const_Call
  To <- const_To
  Filter = 0
INVARIANT StartInv
PROPERTIES CallsReach StartEnds
CHECK_DEADLOCK FALSE
