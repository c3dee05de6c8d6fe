SPECIFICATION Spec
CONSTANTS
  w1 = w1
  w2 = w2
  r1 = r1
  Null = Null
  Unset = Unset
  Writers = {w1, w2}
  Readers = {r1}
  Threads <- MCThreads
  Lengths = {1, 4, 8}
  Wide = 2
  Narrow = 4
  OffsetMin = 2
  Number = 1
  Views = {"token", "char"}
  Records <- MCRecords
  Garbage = {0, 2}
  Plans <- MCPlans
  MaxId = 2
  FirstBucket = 1
INVARIANTS
  TypeOK
  NoNodeLeaks
  PublishedListed
  GapsKnown
  QuietExact
PROPERTIES
  QueryComplete
  CountsBetween
SYMMETRY Symmetry
CHECK_DEADLOCK FALSE
