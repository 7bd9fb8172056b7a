CONSTANTS
  t1 = t1
  t2 = t2
  h1 = h1
  h2 = h2
  g1 = g1
  g2 = g2
  None = None
  Tx = {t1, t2}
  Handler = {h1, h2}
  Reader = {g1, g2}
  MaxHeight = 4
  MaxLength = 4
CHECK_DEADLOCK FALSE
SPECIFICATION MCSpec
INVARIANTS ChainLinked CommittedOnce ReadableUnlessEmptyFollows
PROPERTIES LeakIsForever ProgressUnlessLeaked
