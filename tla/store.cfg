CONSTANTS
  Writers = {w1, w2}
  Adders = {}
  Packets <- MCPackets
  FilterLists <- NoFilterLists
  MinBurst = 0
  MaxBurst = 2
  MaxId = 3
  MaxTime = 0
  MaxChars = 0
  TsBytes = 1
  BlockSize = 4
  BufferSize = 2
  IdBlockSize = 2
  Unset = Unset
SPECIFICATION Spec
SYMMETRY Symmetry
INVARIANTS
  PublishedReadable
  PublishedIndexed
  IndexSound
  ExclusiveRegions
  AllocatedBeforeUse
  WithinBuckets
PROPERTY ReadersSeeLog
