CONSTANTS
  Threads = {t1, t2}
  Kinds = {"linearizable"}
  FbsHibit = 0
  NBuckets = 2
  Starts = {1, 5}
  MaxRange = 2
  MaxLen = 2
  Null = Null
  Unset = Unset
SPECIFICATION Spec
SYMMETRY Symmetry
INVARIANT ReadsCompletedWrites
