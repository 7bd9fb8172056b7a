CONSTANTS
  c1 = c1
  c2 = c2
  Nobody = Nobody
  Conn = {c1, c2}
  MaxBroadcasts = 2
SPECIFICATION FairSpec
CHECK_DEADLOCK FALSE
INVARIANTS BroadcastReachesAll 
PROPERTY HandlerEnds
