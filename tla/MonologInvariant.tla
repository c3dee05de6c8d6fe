-------------------------- MODULE MonologInvariant ---------------------------
(***************************************************************************)
(* The inductive invariant behind EntriesKept, NoLeak, TailsAgree and the  *)
(* implementation of EntryList: who holds which places, which array is     *)
(* whose, and which cells have been written.                               *)
(***************************************************************************)
EXTENDS Monolog

\* A thread in the loop over its range.
Setting(t) == op[t].pc \in {"set", "allocate", "store"}

\* The cell entry x is kept in.
Cell(x) == <<buckets[BucketIdx(x)], BucketOff(x)>>

\* Calls: a thread in the loop has places of its own below the tail, recorded in
\* the history, and has not met a compare-and-swap on read_tail_ yet, which alone
\* could change its idx.
CallOf(t) ==
  /\ op[t].pc = "idle" => op[t] = Idle
  /\ op[t].pc = "publish" => kind = "linearizable"
  /\ Setting(t) =>
       /\ op[t].idx = op[t].place
       /\ op[t].i < op[t].cnt
       /\ op[t].place + op[t].cnt <= tail
       /\ op[t].start \in Starts
       /\ \A j \in 0..(op[t].cnt - 1) : pushed[op[t].place + j] = op[t].start + j

DisjointRanges(t, u) ==
  Setting(t) /\ Setting(u) =>
    \/ op[t].place + op[t].cnt <= op[u].place
    \/ op[u].place + op[u].cnt <= op[t].place

CallInv ==
  /\ tail <= MaxLen
  /\ kind = "relaxed" => read_tail = 0
  /\ \A t \in Threads : CallOf(t)
  /\ \A t, u \in Threads : t # u => DisjointRanges(t, u)

\* Arrays: an array is only ever in its own entry of the table; the one a thread
\* has allocated is not there before its compare-and-swap; a thread about to
\* write finds one.
TableInv ==
  /\ \A b \in 0..(NBuckets - 1) : buckets[b] # Null => buckets[b][2] = b
  /\ \A t \in Threads :
       /\ op[t].pc = "store" => buckets[Bucket(t)] # Null
       /\ op[t].pc = "allocate" =>
            /\ Array(t, Bucket(t)) \in heap
            /\ buckets[Bucket(t)] # Array(t, Bucket(t))

\* Cells: only those of entries that are set have been written.
CellInv ==
  \A c \in DOMAIN cells : \E x \in 0..(tail - 1) : ~IsPending(x) /\ c = Cell(x)

\* The whole.
MonologInv ==
  /\ TypeOK
  /\ CallInv
  /\ TableInv
  /\ NoLeak
  /\ CellInv
  /\ EntriesKept
  /\ TailsAgree

=============================================================================
