CONSTANTS
  Inserters = {i1}
  Handles = {h1}
  Records <- MCRecords
  StreamFns <- MCStreamFns
  MaxRecords = 4
  MaxStreams = 1
  IdBlock = 2
  DataBlock = 3
  BlockSize = 4
  Unset = Unset
SPECIFICATION FairSpec
INVARIANTS
  TypeOK
  PublishedGettable
  PublishedListed
PROPERTY InsertReturns
CHECK_DEADLOCK FALSE
