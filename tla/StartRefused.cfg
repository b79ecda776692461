\* The two hooks of HookTable.hpp, of a node that the master may refuse.
SPECIFICATION Spec
CONSTANTS
  n1 = n1
  c1 = c1
  k1 = k1
  k2 = k2
  None = None
  Node <- const_Node
  Client <- const_Client
  Call <- const_Call
  To <- const_To
  Filter = 0
INVARIANT SuccessOrFailure
CHECK_DEADLOCK FALSE
