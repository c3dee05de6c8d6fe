CONSTANTS
  Writers = {w1, w2}
  Adders = {}
  Packets <- OnePacket
  FilterLists <- NoFilterLists
  MinBurst = 0
  MaxBurst = 1
  MaxId = 1
  MaxTime = 0
  MaxChars = 0
  TsBytes = 1
  BlockSize = 4
  BufferSize = 2
  IdBlockSize = 2
  Unset = Unset
SPECIFICATION FairSpec
PROPERTY KeepsPolling
