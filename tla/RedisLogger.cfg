SPECIFICATION LoggerSpec
CONSTANTS
  c1 = c1
  c2 = c2
  Nothing = Nothing
  Refusal = Refusal
  Caller <- const_Caller
  MaxOps = 3
  MaxQueue = 1
INVARIANT LoggerInv
PROPERTIES GetsAnswered ExitEnds
CHECK_DEADLOCK FALSE
