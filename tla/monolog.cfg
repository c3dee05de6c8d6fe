CONSTANTS
  Threads = {t1, t2, t3}
  Kinds = {"relaxed", "linearizable"}
  FbsHibit = 0
  NBuckets = 2
  Starts = {1, 5}
  MaxRange = 2
  MaxLen = 3
  Null = Null
  Unset = Unset
SPECIFICATION Spec
SYMMETRY Symmetry
INVARIANTS
  EntriesKept
  NoLeak
  TailsAgree
PROPERTY ImplementsEntryList
