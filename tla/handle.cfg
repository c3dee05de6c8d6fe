CONSTANTS
  Inserters = {i1}
  Handles = {h1}
  Records <- MCRecords
  StreamFns <- MCStreamFns
  MaxRecords = 3
  MaxStreams = 0
  IdBlock = 2
  DataBlock = 3
  BlockSize = 4
  Unset = Unset
SPECIFICATION Spec
INVARIANT ExclusiveRegion
CHECK_DEADLOCK FALSE
