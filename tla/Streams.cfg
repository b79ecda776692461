SPECIFICATION Spec
CONSTANTS
  k1 = k1
  m1 = m1
  Objects = 2
  None = None
  Object <- const_Object
  Of <- const_Of
  Stream <- const_Stream
  Message <- const_Message
  For <- const_For
  ComputeThreads = 2
  IOThreads = 1
  MaxTries = 1
INVARIANT StreamsInv
PROPERTIES TasksRun MessagesArrive
CHECK_DEADLOCK FALSE
