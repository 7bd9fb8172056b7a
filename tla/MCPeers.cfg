CONSTANTS
  a1 = a1
  d1 = d1
  b1 = b1
  None = None
  Accepted = {a1}
  Dialled = {d1}
  TxBroadcast = {b1}
  MaxConn = 2
  IsValidator = FALSE
SPECIFICATION MCSpec
CHECK_DEADLOCK FALSE
 
PROPERTIES EndIsNoticed BroadcastsEnd
