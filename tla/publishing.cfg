CONSTANTS
  Writers = {w1, w2}
  Adders = {a1}
  Packets <- OnePacket
  FilterLists <- MCFilterLists
  MinBurst = 1
  MaxBurst = 2
  MaxId = 2
  MaxTime = 1
  MaxChars = 1
  TsBytes = 1
  BlockSize = 4
  BufferSize = 2
  IdBlockSize = 2
  Unset = Unset
SPECIFICATION FairSpec
INVARIANTS
  TypeOK
  StoreInv
  CharactersComplete
PROPERTY AllPublished
CHECK_DEADLOCK FALSE
