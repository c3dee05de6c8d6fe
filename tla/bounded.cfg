SPECIFICATION Spec
CONSTANTS
  w1 = w1
  w2 = w2
  r1 = r1
  Null = Null
  Unset = Unset
  Writers = {w1, w2}
  Readers = {r1}
  Threads <- MCThreads
  Lengths = {1, 4, 8}
  Wide = 2
  Narrow = 4
  OffsetMin = 2
  Number = 1
  Views = {"token"}
  Records <- MCRecords
  Garbage = {0, 1}
  Plans <- MCPlans
  MaxId = 1
  FirstBucket = 1
PROPERTY
  FilterAtomic
CHECK_DEADLOCK FALSE
