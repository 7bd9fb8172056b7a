CONSTANTS
  b1 = b1  b2 = b2  s1 = s1  i1 = i1  t1 = t1  t2 = t2
  Nil = Nil
  Absent = Absent
  MaxByte = 2
  Key <- PebbleKeys
  Value = {1}
  Seek <- PebbleSeeks
  Batch = {}
  Snap = {}
  Iter = {i1}
  MaxWrites = 2
  MaxTime = 6
  NumCPU = 3
SPECIFICATION MCSpec
INVARIANTS MeteredTimeIsBusyTime CompactCoversTable
PROPERTIES PebbleIsStore TableIsStore
