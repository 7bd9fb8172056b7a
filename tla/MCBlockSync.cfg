CONSTANTS
  r1 = r1
  r2 = r2
  None = None
  ReadLoop = {r1, r2}
  BufferBlocks = 3
  AmpleBuffer = 9
  Pending = {TRUE, FALSE}
  MaxLength = 4
  MaxInFlight = 2
  MaxOutstanding = 2
SPECIFICATION MCSpec
CHECK_DEADLOCK FALSE
  
PROPERTY CatchesUp
