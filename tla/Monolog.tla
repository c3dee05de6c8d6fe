------------------------------- MODULE Monolog -------------------------------
(***************************************************************************)
(* monolog_relaxed and monolog_linearizable over __monolog_base            *)
(* (logstore/include/monolog.h): threads append ranges of entries to a log *)
(* without locks.  The log is a table of buckets that double in size; a    *)
(* bucket is allocated by the first thread to need it, which races with    *)
(* the others by a compare-and-swap on the table.  The relaxed log has one *)
(* tail; the linearizable one publishes an append by moving read_tail_.    *)
(*                                                                         *)
(* Every step is one access to shared memory.  push_back(val) is           *)
(* push_back_range(val, val), and a range may be empty.                    *)
(***************************************************************************)
EXTENDS Integers, Sequences, FiniteSets, FiniteSetsExt

CONSTANTS
  Threads,   \* threads that append
  Kinds,     \* which of "relaxed" and "linearizable" to consider
  FbsHibit,  \* FBS_HIBIT: the first bucket has 2^FBS_HIBIT entries
  NBuckets,  \* NBUCKETS, the length of the table
  Starts,    \* values a range may start with
  MaxRange,  \* bound on the length of a range
  MaxLen,    \* bound on the entries appended
  Null,      \* the null pointer
  Unset      \* what uninitialised memory holds

ASSUME TableAssumption == FbsHibit \in Nat /\ NBuckets \in Nat \ {0}
ASSUME KindAssumption == Kinds \subseteq {"relaxed", "linearizable"}
ASSUME RangeAssumption ==
  Starts \subseteq Nat /\ MaxRange \in Nat /\ MaxLen \in Nat
ASSUME ThreadAssumption == IsFiniteSet(Threads)
ASSUME NullAssumption ==
  /\ Unset \notin Nat
  /\ Null \notin Nat \cup Threads \cup ((Threads \cup {Null}) \X Nat)

VARIABLES
  kind,       \* which class the log is of
  tail,       \* tail_ or write_tail_
  read_tail,  \* read_tail_ (the relaxed log has none)
  buckets,    \* buckets_: the array each table entry points to
  heap,       \* the arrays allocated and not deleted
  cells,      \* the array cells written so far
  op,         \* the push_back_range each thread is executing
  pushed      \* history: the value each entry is to have

vars == <<kind, tail, read_tail, buckets, heap, cells, op, pushed>>

-----------------------------------------------------------------------------
(* Where an entry is kept                                                  *)

\* The bits of the places the table can hold, and 1 << b.
Bits == FbsHibit + NBuckets
Shifted[b \in 0..Bits] == IF b = 0 THEN 1 ELSE 2 * Shifted[b - 1]

FBS == Shifted[FbsHibit]

\* The table has room for every entry: the code does not check, and the entry
\* after the last one would index past the table.
ASSUME RoomAssumption == MaxLen + FBS <= Shifted[Bits]

\* bit_utils::highest_bit.
highest_bit(x) ==
  CHOOSE b \in 0..(Bits - 1) : Shifted[b] <= x /\ x < Shifted[b + 1]

\* bucket_idx and bucket_off: pos ^ (1 << hibit) clears the highest bit.
BucketIdx(x) == highest_bit(x + FBS) - FbsHibit
BucketOff(x) == (x + FBS) - Shifted[highest_bit(x + FBS)]

\* The array a thread allocates for a bucket: a thread allocates at most one,
\* since it tries only while the table entry is null.
Array(t, b) == <<t, b>>

\* The array the constructor allocates.
FirstArray == Array(Null, 0)

\* get(x): the entry read through the table, Null where that faults.
Get(x) ==
  LET a == buckets[BucketIdx(x)]
  IN  IF a = Null THEN Null
      ELSE IF <<a, BucketOff(x)>> \in DOMAIN cells THEN cells[<<a, BucketOff(x)>>]
      ELSE Unset

-----------------------------------------------------------------------------
(* push_back_range                                                         *)

\* The locals of a call: idx, cnt, start and the loop variable i, with where it
\* is and, as history, idx as fetch_add returned it.
Idle == [pc |-> "idle", idx |-> 0, cnt |-> 0, start |-> 0, i |-> 0, place |-> 0]

\* The entry set(idx + i, start + i) is about, and its bucket.
Entry(t) == op[t].idx + op[t].i
Bucket(t) == BucketIdx(Entry(t))

\* The head of the loop over the range; after it the relaxed log returns and the
\* linearizable one publishes.
LoopHead(r) ==
  IF r.i < r.cnt THEN [r EXCEPT !.pc = "set"]
  ELSE IF kind = "relaxed" THEN Idle
  ELSE [r EXCEPT !.pc = "publish"]

\* fetch_add(cnt) on the tail.
Claim(t) ==
  /\ op[t].pc = "idle"
  /\ \E s \in Starts, c \in 0..MaxRange :
       /\ tail + c <= MaxLen
       /\ tail' = tail + c
       /\ op' = [op EXCEPT ![t] =
                   LoopHead([pc |-> "set", idx |-> tail, cnt |-> c, start |-> s,
                             i |-> 0, place |-> tail])]
       /\ pushed' = [x \in 0..(tail' - 1) |-> IF x < tail THEN pushed[x] ELSE s + (x - tail)]
  /\ UNCHANGED <<kind, read_tail, buckets, heap, cells>>

\* set: the table entry is loaded, and an array made if it was null.
Load(t) ==
  /\ op[t].pc = "set"
  /\ \/ /\ buckets[Bucket(t)] # Null
        /\ op' = [op EXCEPT ![t].pc = "store"]
        /\ UNCHANGED heap
     \/ /\ buckets[Bucket(t)] = Null
        /\ op' = [op EXCEPT ![t].pc = "allocate"]
        /\ heap' = heap \cup {Array(t, Bucket(t))}
  /\ UNCHANGED <<kind, tail, read_tail, buckets, cells, pushed>>

\* Mutants: a plain store instead of the compare-and-swap; the array of a thread
\* that loses the race is not deleted.
TryAllocateByStore(t) ==
  /\ op[t].pc = "allocate"
  /\ buckets' = [buckets EXCEPT ![Bucket(t)] = Array(t, Bucket(t))]
  /\ op' = [op EXCEPT ![t].pc = "store"]
  /\ UNCHANGED <<kind, tail, read_tail, heap, cells, pushed>>

TryAllocateLeaking(t) ==
  /\ op[t].pc = "allocate"
  /\ \/ /\ buckets[Bucket(t)] = Null
        /\ buckets' = [buckets EXCEPT ![Bucket(t)] = Array(t, Bucket(t))]
     \/ buckets[Bucket(t)] # Null /\ UNCHANGED buckets
  /\ op' = [op EXCEPT ![t].pc = "store"]
  /\ UNCHANGED <<kind, tail, read_tail, heap, cells, pushed>>

\* try_allocate_bucket: the compare-and-swap; the losers delete their array.
TryAllocate(t) ==
  /\ op[t].pc = "allocate"
  /\ \/ /\ buckets[Bucket(t)] = Null
        /\ buckets' = [buckets EXCEPT ![Bucket(t)] = Array(t, Bucket(t))]
        /\ UNCHANGED heap
     \/ /\ buckets[Bucket(t)] # Null
        /\ heap' = heap \ {Array(t, Bucket(t))}
        /\ UNCHANGED buckets
  /\ op' = [op EXCEPT ![t].pc = "store"]
  /\ UNCHANGED <<kind, tail, read_tail, cells, pushed>>

\* The table entry is loaded again and the entry written through it.
Store(t) ==
  /\ op[t].pc = "store"
  /\ LET c == <<buckets[Bucket(t)], BucketOff(Entry(t))>>
     IN  cells' = [x \in DOMAIN cells \cup {c} |->
                     IF x = c THEN op[t].start + op[t].i ELSE cells[x]]
  /\ op' = [op EXCEPT ![t] = LoopHead([op[t] EXCEPT !.i = op[t].i + 1])]
  /\ UNCHANGED <<kind, tail, read_tail, buckets, heap, pushed>>

\* Mutant: the tail moves by one entry, whatever the range.
PublishOne(t) ==
  /\ op[t].pc = "publish"
  /\ \/ /\ read_tail = op[t].idx
        /\ read_tail' = read_tail + 1
        /\ op' = [op EXCEPT ![t] = Idle]
     \/ /\ read_tail # op[t].idx
        /\ op' = [op EXCEPT ![t].idx = read_tail]
        /\ UNCHANGED read_tail
  /\ UNCHANGED <<kind, tail, buckets, heap, cells, pushed>>

\* The compare-and-swap loop on read_tail_: one that fails leaves the value it
\* found in idx, which the next attempt uses and push_back_range returns.
Publish(t) ==
  /\ op[t].pc = "publish"
  /\ \/ /\ read_tail = op[t].idx
        /\ read_tail' = read_tail + op[t].cnt
        /\ op' = [op EXCEPT ![t] = Idle]
     \/ /\ read_tail # op[t].idx
        /\ op' = [op EXCEPT ![t].idx = read_tail]
        /\ UNCHANGED read_tail
  /\ UNCHANGED <<kind, tail, buckets, heap, cells, pushed>>

Init ==
  /\ kind \in Kinds
  /\ tail = 0
  /\ read_tail = 0
  /\ buckets = [b \in 0..(NBuckets - 1) |-> IF b = 0 THEN FirstArray ELSE Null]
  /\ heap = {FirstArray}
  /\ cells = [x \in {} |-> Unset]
  /\ op = [t \in Threads |-> Idle]
  /\ pushed = [x \in {} |-> Unset]

Push(t) == Claim(t) \/ Load(t) \/ TryAllocate(t) \/ Store(t) \/ Publish(t)

Next == \E t \in Threads : Push(t)

Spec == Init /\ [][Next]_vars

-----------------------------------------------------------------------------
(* Properties                                                              *)

\* The entries a thread has claimed and not set yet.
Pending(t) ==
  IF op[t].pc \in {"set", "allocate", "store"}
    THEN Entry(t)..(op[t].idx + op[t].cnt - 1)
    ELSE {}

IsPending(x) == \E t \in Threads : x \in Pending(t)

Calls ==
  [pc : {"idle", "set", "allocate", "store", "publish"}, idx : 0..tail,
   cnt : 0..MaxRange, start : Nat, i : 0..MaxRange, place : 0..tail]

\* The type invariant: the table points to arrays that exist, never to one that
\* a thread has deleted, and nothing is written past the end of an array.
TypeOK ==
  /\ kind \in Kinds
  /\ tail \in Nat
  /\ read_tail \in 0..tail
  /\ buckets \in [0..(NBuckets - 1) -> heap \cup {Null}]
  /\ heap \subseteq (Threads \cup {Null}) \X (0..(NBuckets - 1))
  /\ DOMAIN cells \subseteq heap \X Nat
  /\ \A c \in DOMAIN cells : cells[c] \in Nat /\ c[2] < Shifted[c[1][2] + FbsHibit]
  /\ op \in [Threads -> Calls]
  /\ pushed \in [0..(tail - 1) -> Nat]

\* No entry is lost: whatever threads race for a bucket, an entry that has been
\* set is read back through the table at its own place with its own value.
EntriesKept ==
  \A x \in 0..(tail - 1) : ~IsPending(x) => Get(x) = pushed[x]

\* Every array allocated is in the table or still in the hands of the thread
\* that made it: the race for a bucket leaks nothing.
NoLeak ==
  \A a \in heap :
    \/ a \in {buckets[b] : b \in 0..(NBuckets - 1)}
    \/ \E t \in Threads : op[t].pc = "allocate" /\ a = Array(t, Bucket(t))

\* read_tail_ lags behind write_tail_ by the entries of the appends that have
\* not returned: with none in progress the whole log can be read.
TailsAgree ==
  kind = "linearizable" => tail - read_tail = MapThenSumSet(LAMBDA t : op[t].cnt, Threads)

\* "Read operations can only access data for completed writes" (the comment on
\* monolog_linearizable): every entry below size() has been set.
ReadsCompletedWrites ==
  kind = "linearizable" => \A x \in 0..(read_tail - 1) : ~IsPending(x)

\* What readers get for each place below the tail; memory that is not there
\* counts as not set.
Entries ==
  [x \in 1..tail |-> IF Get(x - 1) = Null THEN Unset ELSE Get(x - 1)]

List == INSTANCE EntryList WITH
          Values <- UNION {s..(s + MaxRange) : s \in Starts},
          MaxCount <- MaxRange,
          list <- Entries

\* The log implements EntryList, the list PacketStore works with: each step hands
\* out places at the end, sets one place once, or changes nothing a reader can
\* tell, however the arrays come and go.
ImplementsEntryList == List!Spec

=============================================================================
