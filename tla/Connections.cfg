SPECIFICATION ConnectionsSpec
CONSTANTS
  n1 = n1
  n2 = n2
  c1 = c1
  v1 = v1
  v2 = v2
  None = None
  Node <- const_Node
  Client <- const_Client
  Visit <- const_Visit
  Who <- const_Who
  At <- const_At
  Started <- const_Started
  Loads <- const_Loads
  Spawn <- const_Spawn
  MaxLeaves = 1
INVARIANT ConnectionsInv
PROPERTIES ListenerFreed LeaversForgotten EngineServes
CHECK_DEADLOCK FALSE
