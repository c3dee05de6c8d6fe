---------------------------- MODULE MonologProofs ----------------------------
(***************************************************************************)
(* Proofs about Monolog for every number of threads, table size, range     *)
(* length and number of entries: where an entry is kept, the inductive     *)
(* invariant, and the implementation of EntryList.                         *)
(***************************************************************************)
EXTENDS MonologInvariant, SetInduction, SequenceTheorems

-----------------------------------------------------------------------------
(* Where an entry is kept                                                  *)

\* How many bits there are.
LEMMA BitsType == Bits \in Nat /\ FbsHibit \in 0..Bits /\ Bits - 1 \in Nat
BY TableAssumption DEF Bits

\* IsShifted(g, m): g holds the powers of two up to the m-th.
IsShifted(g, m) == g = [b \in 0..m |-> IF b = 0 THEN 1 ELSE 2 * g[b - 1]]

\* There are such powers.
LEMMA ShiftedExists == \E g : IsShifted(g, Bits)
<1> DEFINE S == {m \in 0..Bits : \E g : IsShifted(g, m)}
<1>1. 0 \in S
  <2> DEFINE g == [b \in 0..0 |-> 1]
  <2>1. IsShifted(g, 0)
    BY DEF IsShifted
  <2>2. QED
    BY <2>1, BitsType
<1>2. ASSUME NEW m \in S, m < Bits
      PROVE  m + 1 \in S
  <2>1. PICK g : IsShifted(g, m)
    OBVIOUS
  <2> DEFINE h == [b \in 0..(m + 1) |-> IF b = m + 1 THEN 2 * g[m] ELSE g[b]]
  <2>2. m \in Nat
    BY BitsType
  <2>3. \A b \in 0..(m + 1) : h[b] = IF b = 0 THEN 1 ELSE 2 * h[b - 1]
    BY <2>1, <2>2 DEF IsShifted
  <2>4. IsShifted(h, m + 1)
    BY <2>3 DEF IsShifted
  <2>5. QED
    BY <1>2, <2>2, <2>4, BitsType
<1>3. Bits \in S
  <2>1. S \in SUBSET (0..Bits)
    OBVIOUS
  <2> HIDE DEF S
  <2> QED
    BY <1>1, <1>2, <2>1, BitsType, SegmentInduction
<1>4. QED
  BY <1>3

\* Shifted is what its recursion says.
LEMMA ShiftedDef ==
  /\ Shifted = [b \in 0..Bits |-> Shifted[b]]
  /\ Shifted[0] = 1
  /\ \A b \in 0..(Bits - 1) : Shifted[b + 1] = 2 * Shifted[b]
<1> DEFINE P(g) == g = [b \in 0..Bits |-> IF b = 0 THEN 1 ELSE 2 * g[b - 1]]
<1>1. Shifted = CHOOSE g : P(g)
  BY DEF Shifted
<1>2. \E g : P(g)
  BY ShiftedExists DEF IsShifted
<1>3. P(CHOOSE g : P(g))
  <2> HIDE DEF P
  <2> QED
    BY <1>2
<1>4. Shifted = [b \in 0..Bits |-> IF b = 0 THEN 1 ELSE 2 * Shifted[b - 1]]
  BY <1>1, <1>3
<1>5. QED
  BY <1>4, BitsType

\* Powers of two are positive.
LEMMA ShiftedType == \A b \in 0..Bits : Shifted[b] \in Nat \ {0}
<1> DEFINE S == {b \in 0..Bits : Shifted[b] \in Nat \ {0}}
<1>1. /\ S \in SUBSET (0..Bits)
      /\ 0 \in S
  BY BitsType, ShiftedDef
<1>2. ASSUME NEW b \in S, b < Bits
      PROVE  b + 1 \in S
  <2>1. b \in 0..(Bits - 1) /\ b + 1 \in 0..Bits
    BY <1>2, BitsType
  <2>2. Shifted[b + 1] = 2 * Shifted[b] /\ Shifted[b] \in Nat \ {0}
    BY <2>1, ShiftedDef
  <2>3. QED
    BY <2>1, <2>2
<1>3. S = 0..Bits
  <2> HIDE DEF S
  <2> QED
    BY <1>1, <1>2, BitsType, SegmentCovered
<1>4. QED
  BY <1>3

\* They grow.
LEMMA ShiftedGrows ==
  ASSUME NEW a \in 0..Bits, NEW b \in a..Bits
  PROVE  Shifted[a] <= Shifted[b]
<1> DEFINE S == {d \in 0..(b - a) : Shifted[a] <= Shifted[a + d]}
<1>1. b - a \in Nat /\ a \in Nat /\ b \in Nat
  BY BitsType
<1>2. /\ S \in SUBSET (0..(b - a))
      /\ 0 \in S
  BY <1>1, ShiftedType
<1>3. ASSUME NEW d \in S, d < b - a
      PROVE  d + 1 \in S
  <2>1. a + d \in 0..(Bits - 1) /\ a + d + 1 = a + (d + 1)
    BY <1>1, <1>3, BitsType
  <2>2. Shifted[a + d + 1] = 2 * Shifted[a + d]
    BY <2>1, ShiftedDef
  <2>3. Shifted[a + d] \in Nat /\ Shifted[a] \in Nat /\ Shifted[a] <= Shifted[a + d]
    BY <2>1, ShiftedType, BitsType
  <2>4. d + 1 \in 0..(b - a)
    BY <1>1, <1>3
  <2>5. QED
    BY <2>1, <2>2, <2>3, <2>4
<1>4. b - a \in S
  <2> HIDE DEF S
  <2> QED
    BY <1>1, <1>2, <1>3, SegmentInduction
<1>5. QED
  BY <1>1, <1>4

\* A number between FBS and the last power has a highest bit.
LEMMA HighestBit ==
  ASSUME NEW x \in Nat, FBS <= x, x < Shifted[Bits]
  PROVE  /\ highest_bit(x) \in FbsHibit..(Bits - 1)
         /\ Shifted[highest_bit(x)] <= x
         /\ x < Shifted[highest_bit(x) + 1]
<1> DEFINE H(b) == Shifted[b] <= x /\ x < Shifted[b + 1]
           S == {b \in 0..Bits : Shifted[b] <= x}
<1>1. \E b \in 0..(Bits - 1) : H(b)
  <2>1. SUFFICES ASSUME \A b \in 0..(Bits - 1) : ~H(b)
                 PROVE  FALSE
    OBVIOUS
  <2>2. /\ S \in SUBSET (0..Bits)
        /\ 0 \in S
    <3>1. Shifted[0] <= FBS /\ FBS \in Nat
      BY BitsType, ShiftedGrows, ShiftedType DEF FBS
    <3>2. Shifted[0] \in Nat
      BY BitsType, ShiftedType
    <3>3. QED
      BY <3>1, <3>2, BitsType
  <2>3. ASSUME NEW b \in S, b < Bits
        PROVE  b + 1 \in S
    <3>1. b \in 0..(Bits - 1) /\ b + 1 \in 0..Bits
      BY <2>3, BitsType
    <3>2. ~(x < Shifted[b + 1]) /\ Shifted[b + 1] \in Nat
      BY <2>1, <3>1, ShiftedType
    <3>3. QED
      BY <3>1, <3>2
  <2>4. Bits \in S
    <3> HIDE DEF S
    <3> QED
      BY <2>2, <2>3, BitsType, SegmentInduction
  <2>5. Shifted[Bits] \in Nat /\ Shifted[Bits] <= x
    BY <2>4, BitsType, ShiftedType
  <2>6. QED
    BY <2>5
<1> DEFINE hb == highest_bit(x)
<1>2. hb \in 0..(Bits - 1) /\ H(hb)
  <2>1. hb = CHOOSE b \in 0..(Bits - 1) : H(b)
    BY DEF highest_bit
  <2>2. QED
    <3> HIDE DEF H, hb
    <3> QED
      BY <1>1, <2>1
<1>3. FbsHibit <= hb
  <2> HIDE DEF hb
  <2>1. SUFFICES ASSUME hb + 1 <= FbsHibit
                 PROVE  FALSE
    BY <1>2, BitsType
  <2>2. Shifted[hb + 1] <= FBS
    BY <1>2, <2>1, BitsType, ShiftedGrows DEF FBS
  <2>3. FBS \in Nat /\ Shifted[hb + 1] \in Nat
    BY <1>2, BitsType, ShiftedType DEF FBS
  <2>4. QED
    BY <1>2, <2>2, <2>3
<1>4. QED
  <2> HIDE DEF hb
  <2>1. hb \in FbsHibit..(Bits - 1)
    BY <1>2, <1>3, BitsType
  <2>2. QED
    BY <1>2, <2>1 DEF hb

\* Every entry below MaxLen has a bucket of the table and a cell in it.
LEMMA PlaceType ==
  ASSUME NEW x \in 0..(MaxLen - 1)
  PROVE  /\ BucketIdx(x) \in 0..(NBuckets - 1)
         /\ BucketOff(x) \in Nat
         /\ BucketOff(x) < Shifted[BucketIdx(x) + FbsHibit]
<1> DEFINE hb == highest_bit(x + FBS)
<1>1. FBS \in Nat /\ Shifted[Bits] \in Nat
  BY BitsType, ShiftedType DEF FBS
<1>2. x + FBS \in Nat /\ FBS <= x + FBS /\ x + FBS < Shifted[Bits]
  BY <1>1, RoomAssumption, RangeAssumption
<1>3. /\ hb \in FbsHibit..(Bits - 1)
      /\ Shifted[hb] <= x + FBS
      /\ x + FBS < Shifted[hb + 1]
  BY <1>2, HighestBit
<1>4. BucketIdx(x) = hb - FbsHibit /\ BucketOff(x) = (x + FBS) - Shifted[hb]
  BY DEF BucketIdx, BucketOff
<1> HIDE DEF hb
<1>5. hb \in 0..(Bits - 1) /\ hb \in 0..Bits
  BY <1>3, BitsType
<1>6. Shifted[hb] \in Nat /\ Shifted[hb + 1] = 2 * Shifted[hb]
  BY <1>5, ShiftedType, ShiftedDef
<1>7. BucketIdx(x) \in 0..(NBuckets - 1) /\ BucketIdx(x) + FbsHibit = hb
  BY <1>3, <1>4, TableAssumption DEF Bits
<1>8. BucketOff(x) \in Nat /\ BucketOff(x) < Shifted[hb]
  BY <1>2, <1>3, <1>4, <1>6
<1>9. QED
  BY <1>7, <1>8

\* Different entries have different cells.
LEMMA PlaceInjective ==
  ASSUME NEW x \in 0..(MaxLen - 1), NEW y \in 0..(MaxLen - 1),
         BucketIdx(x) = BucketIdx(y), BucketOff(x) = BucketOff(y)
  PROVE  x = y
<1>1. FBS \in Nat /\ Shifted[Bits] \in Nat
  BY BitsType, ShiftedType DEF FBS
<1>2. /\ x + FBS \in Nat /\ FBS <= x + FBS /\ x + FBS < Shifted[Bits]
      /\ y + FBS \in Nat /\ FBS <= y + FBS /\ y + FBS < Shifted[Bits]
  BY <1>1, RoomAssumption, RangeAssumption
<1> DEFINE hx == highest_bit(x + FBS)
           hy == highest_bit(y + FBS)
<1>3. hx \in FbsHibit..(Bits - 1) /\ hy \in FbsHibit..(Bits - 1)
  BY <1>2, HighestBit
<1>4. /\ BucketIdx(x) = hx - FbsHibit /\ BucketOff(x) = (x + FBS) - Shifted[hx]
      /\ BucketIdx(y) = hy - FbsHibit /\ BucketOff(y) = (y + FBS) - Shifted[hy]
  BY DEF BucketIdx, BucketOff
<1> HIDE DEF hx, hy
<1>5. hx - FbsHibit = hy - FbsHibit /\ (x + FBS) - Shifted[hx] = (y + FBS) - Shifted[hy]
  BY <1>4
<1>6. hx \in 0..Bits /\ hy \in 0..Bits
  BY <1>3, BitsType
<1>7. hx = hy
  BY <1>5, <1>6, BitsType
<1>8. Shifted[hx] \in Nat
  BY <1>6, ShiftedType
<1>9. QED
  BY <1>1, <1>5, <1>7, <1>8

-----------------------------------------------------------------------------
(* What a step of one thread leaves alone                                  *)

\* The calls of the other threads do not change.
LEMMA Locality ==
  ASSUME TypeOK, NEW t \in Threads, Push(t)
  PROVE  /\ op' = [u \in Threads |-> op'[u]]
         /\ \A u \in Threads : u # t => op'[u] = op[u]
<1> USE DEF TypeOK
<1>1. CASE Claim(t)
  BY <1>1 DEF Claim
<1>2. CASE Load(t)
  BY <1>2 DEF Load
<1>3. CASE TryAllocate(t)
  BY <1>3 DEF TryAllocate
<1>4. CASE Store(t)
  BY <1>4 DEF Store
<1>5. CASE Publish(t)
  BY <1>5 DEF Publish
<1>6. QED
  BY <1>1, <1>2, <1>3, <1>4, <1>5 DEF Push

\* Entries already handed out keep their value in the history.
LEMMA HistoryStep ==
  ASSUME TypeOK, CallInv, NEW t \in Threads, Push(t)
  PROVE  /\ kind' = kind
         /\ tail' \in Nat /\ tail <= tail' /\ tail' <= MaxLen
         /\ pushed' \in [0..(tail' - 1) -> Nat]
         /\ \A x \in 0..(tail - 1) : pushed'[x] = pushed[x]
<1>0. tail \in Nat /\ pushed \in [0..(tail - 1) -> Nat] /\ tail <= MaxLen
  BY DEF TypeOK, CallInv
<1>1. CASE Claim(t)
  <2>1. PICK s \in Starts, c \in 0..MaxRange :
          /\ tail + c <= MaxLen
          /\ tail' = tail + c
          /\ pushed' = [x \in 0..(tail' - 1) |-> IF x < tail THEN pushed[x] ELSE s + (x - tail)]
    BY <1>1 DEF Claim
  <2>2. c \in Nat /\ s \in Nat /\ tail' \in Nat
    BY <1>0, <2>1, RangeAssumption
  <2>3. \A x \in 0..(tail' - 1) : (IF x < tail THEN pushed[x] ELSE s + (x - tail)) \in Nat
    BY <1>0, <2>2
  <2>4. kind' = kind
    BY <1>1 DEF Claim
  <2>5. QED
    BY <1>0, <2>1, <2>2, <2>3, <2>4
<1>2. CASE Load(t) \/ TryAllocate(t) \/ Store(t) \/ Publish(t)
  BY <1>0, <1>2 DEF Load, TryAllocate, Store, Publish
<1>3. QED
  BY <1>1, <1>2 DEF Push

\* An entry a thread is about has a place in the table.
LEMMA EntryPlace ==
  ASSUME TypeOK, CallInv, NEW t \in Threads, Setting(t)
  PROVE  /\ op[t].place \in Nat /\ op[t].i \in Nat /\ op[t].cnt \in 0..MaxRange
         /\ op[t].start \in Starts /\ op[t].i < op[t].cnt
         /\ Entry(t) = op[t].place + op[t].i
         /\ Pending(t) = (op[t].place + op[t].i)..(op[t].place + op[t].cnt - 1)
         /\ op[t].place + op[t].cnt <= tail
         /\ Entry(t) \in 0..(tail - 1)
         /\ Entry(t) \in 0..(MaxLen - 1)
         /\ Bucket(t) \in 0..(NBuckets - 1)
         /\ BucketOff(Entry(t)) \in Nat
         /\ BucketOff(Entry(t)) < Shifted[Bucket(t) + FbsHibit]
         /\ pushed[Entry(t)] = op[t].start + op[t].i
<1>1. op[t] \in Calls /\ tail \in Nat /\ tail <= MaxLen /\ CallOf(t)
  BY DEF TypeOK, CallInv
<1>2. /\ op[t].place \in Nat /\ op[t].i \in Nat /\ op[t].cnt \in 0..MaxRange
      /\ op[t].cnt \in Nat
  BY <1>1, RangeAssumption DEF Calls
<1>3. /\ op[t].idx = op[t].place
      /\ op[t].i < op[t].cnt
      /\ op[t].place + op[t].cnt <= tail
      /\ op[t].start \in Starts
      /\ pushed[op[t].place + op[t].i] = op[t].start + op[t].i
  BY <1>1, <1>2 DEF CallOf
<1>4. Entry(t) = op[t].place + op[t].i
  BY <1>3 DEF Entry
<1>5. Pending(t) = (op[t].place + op[t].i)..(op[t].place + op[t].cnt - 1)
  BY <1>3 DEF Pending, Setting, Entry
<1>6. Entry(t) \in 0..(tail - 1) /\ Entry(t) \in 0..(MaxLen - 1)
  BY <1>1, <1>2, <1>3, <1>4, RangeAssumption
<1>7. QED
  BY <1>2, <1>3, <1>4, <1>5, <1>6, PlaceType DEF Bucket

\* What a thread has claimed and not set lies below the tail, in its own range.
LEMMA PendingPlace ==
  ASSUME TypeOK, CallInv, NEW t \in Threads, NEW x \in Pending(t)
  PROVE  /\ Setting(t)
         /\ x \in 0..(tail - 1)
         /\ op[t].place + op[t].i <= x
         /\ x < op[t].place + op[t].cnt
<1>1. Setting(t)
  BY DEF Pending, Setting
<1>2. x \in (op[t].place + op[t].i)..(op[t].place + op[t].cnt - 1)
  BY <1>1, EntryPlace
<1>3. /\ op[t].place \in Nat /\ op[t].i \in Nat /\ op[t].cnt \in Nat
      /\ op[t].place + op[t].cnt <= tail /\ tail \in Nat
  BY <1>1, EntryPlace, RangeAssumption DEF TypeOK
<1>4. QED
  BY <1>1, <1>2, <1>3

\* The call a thread has after it claims its range: in the loop if the range is
\* not empty.
LEMMA ClaimCall ==
  ASSUME TypeOK, CallInv, NEW t \in Threads, Claim(t)
  PROVE  \E s \in Starts, c \in 0..MaxRange :
           /\ tail' = tail + c
           /\ pushed' = [x \in 0..(tail' - 1) |-> IF x < tail THEN pushed[x] ELSE s + (x - tail)]
           /\ \/ /\ 0 < c
                 /\ op'[t] = [pc |-> "set", idx |-> tail, cnt |-> c, start |-> s,
                              i |-> 0, place |-> tail]
              \/ c = 0 /\ kind = "relaxed" /\ op'[t] = Idle /\ op'[t].pc = "idle"
              \/ /\ c = 0 /\ kind = "linearizable" /\ op'[t].pc = "publish"
                 /\ op'[t] = [pc |-> "publish", idx |-> tail, cnt |-> c, start |-> s,
                              i |-> 0, place |-> tail]
<1> DEFINE R(s, c) == [pc |-> "set", idx |-> tail, cnt |-> c, start |-> s,
                       i |-> 0, place |-> tail]
<1>1. PICK s \in Starts, c \in 0..MaxRange :
        /\ tail' = tail + c
        /\ op' = [op EXCEPT ![t] = LoopHead(R(s, c))]
        /\ pushed' = [x \in 0..(tail' - 1) |-> IF x < tail THEN pushed[x] ELSE s + (x - tail)]
  BY DEF Claim
<1>2. op'[t] = LoopHead(R(s, c))
  BY <1>1 DEF TypeOK
<1>3. c \in Nat /\ kind \in {"relaxed", "linearizable"}
  BY <1>1, RangeAssumption, KindAssumption DEF TypeOK
<1>4. CASE 0 < c
  <2>1. op'[t] = R(s, c)
    BY <1>2, <1>3, <1>4 DEF LoopHead
  <2>2. QED
    BY <1>1, <1>4, <2>1
<1>5. CASE c = 0 /\ kind = "relaxed"
  <2>1. op'[t] = Idle /\ op'[t].pc = "idle"
    BY <1>2, <1>5 DEF LoopHead, Idle
  <2>2. QED
    BY <1>1, <1>5, <2>1
<1>6. CASE c = 0 /\ kind = "linearizable"
  <2>1. op'[t] = [pc |-> "publish", idx |-> tail, cnt |-> c, start |-> s,
                  i |-> 0, place |-> tail]
    BY <1>2, <1>6 DEF LoopHead
  <2>2. op'[t].pc = "publish"
    BY <2>1
  <2>3. QED
    BY <1>1, <1>6, <2>1, <2>2
<1>7. QED
  BY <1>3, <1>4, <1>5, <1>6

\* Where it is then.
LEMMA ClaimPc ==
  ASSUME TypeOK, CallInv, NEW t \in Threads, Claim(t)
  PROVE  \/ op'[t].pc = "set"
         \/ op'[t].pc = "idle" /\ op'[t] = Idle
         \/ op'[t].pc = "publish" /\ kind = "linearizable"
<1>1. PICK s \in Starts, c \in 0..MaxRange :
        \/ op'[t] = [pc |-> "set", idx |-> tail, cnt |-> c, start |-> s,
                     i |-> 0, place |-> tail]
        \/ op'[t].pc = "idle" /\ op'[t] = Idle
        \/ op'[t].pc = "publish" /\ kind = "linearizable"
  BY ClaimCall
<1>2. QED
  BY <1>1

\* Allocation moves a thread on and changes nothing else of its call.
LEMMA MoveCall ==
  ASSUME TypeOK, NEW t \in Threads, Load(t) \/ TryAllocate(t)
  PROVE  /\ op'[t] = [op[t] EXCEPT !.pc = op'[t].pc]
         /\ op[t].pc \in {"set", "allocate"}
         /\ op'[t].pc \in {"allocate", "store"}
         /\ tail' = tail /\ pushed' = pushed /\ cells' = cells /\ read_tail' = read_tail
<1>1. op \in [Threads -> Calls]
  BY DEF TypeOK
<1>2. \E p \in {"allocate", "store"} : op' = [op EXCEPT ![t].pc = p]
  BY DEF Load, TryAllocate
<1>3. PICK p \in {"allocate", "store"} : op'[t] = [op[t] EXCEPT !.pc = p]
  BY <1>1, <1>2
<1>4. op[t] \in Calls
  BY <1>1
<1>5. op'[t].pc = p
  BY <1>3, <1>4 DEF Calls
<1>6. /\ tail' = tail /\ pushed' = pushed /\ cells' = cells /\ read_tail' = read_tail
      /\ op[t].pc \in {"set", "allocate"}
  BY DEF Load, TryAllocate
<1>7. QED
  BY <1>3, <1>5, <1>6

\* The call a thread has after it writes an entry.
LEMMA StoreCall ==
  ASSUME TypeOK, CallInv, NEW t \in Threads, Store(t)
  PROVE  \/ /\ op[t].i + 1 < op[t].cnt /\ op'[t].pc = "set"
            /\ op'[t] = [op[t] EXCEPT !.i = op[t].i + 1, !.pc = "set"]
         \/ /\ op[t].i + 1 = op[t].cnt /\ kind = "relaxed" /\ op'[t].pc = "idle"
            /\ op'[t] = Idle
         \/ /\ op[t].i + 1 = op[t].cnt /\ kind = "linearizable" /\ op'[t].pc = "publish"
            /\ op'[t] = [op[t] EXCEPT !.i = op[t].i + 1, !.pc = "publish"]
<1> DEFINE r == [op[t] EXCEPT !.i = op[t].i + 1]
<1>1. op \in [Threads -> Calls] /\ op[t] \in Calls
  BY DEF TypeOK
<1>2. op'[t] = LoopHead(r)
  <2>1. op' = [op EXCEPT ![t] = LoopHead([op[t] EXCEPT !.i = op[t].i + 1])]
    BY DEF Store
  <2>2. QED
    BY <1>1, <2>1
<1>3. /\ op[t].i \in Nat /\ op[t].cnt \in Nat /\ op[t].i < op[t].cnt
      /\ kind \in {"relaxed", "linearizable"}
  <2>1. Setting(t)
    BY DEF Store, Setting
  <2>2. QED
    BY <2>1, EntryPlace, RangeAssumption, KindAssumption DEF TypeOK
<1>4. r.i = op[t].i + 1 /\ r.cnt = op[t].cnt
  BY <1>1 DEF Calls
<1>5. CASE op[t].i + 1 < op[t].cnt
  <2>1. op'[t] = [r EXCEPT !.pc = "set"]
    BY <1>2, <1>4, <1>5 DEF LoopHead
  <2>2. op'[t].pc = "set"
    BY <1>1, <2>1 DEF Calls
  <2>3. QED
    BY <1>5, <2>1, <2>2
<1>6. CASE op[t].i + 1 = op[t].cnt /\ kind = "relaxed"
  <2>1. op'[t] = Idle
    BY <1>2, <1>3, <1>4, <1>6 DEF LoopHead
  <2>2. op'[t].pc = "idle"
    BY <2>1 DEF Idle
  <2>3. QED
    BY <1>6, <2>1, <2>2
<1>7. CASE op[t].i + 1 = op[t].cnt /\ kind = "linearizable"
  <2>1. op'[t] = [r EXCEPT !.pc = "publish"]
    BY <1>2, <1>3, <1>4, <1>7 DEF LoopHead
  <2>2. op'[t].pc = "publish"
    BY <1>1, <2>1 DEF Calls
  <2>3. QED
    BY <1>7, <2>1, <2>2
<1>8. QED
  BY <1>3, <1>5, <1>6, <1>7

\* The compare-and-swap on read_tail_.
LEMMA PublishCall ==
  ASSUME TypeOK, NEW t \in Threads, Publish(t)
  PROVE  /\ op[t].pc = "publish"
         /\ \/ read_tail' = read_tail + op[t].cnt /\ op'[t] = Idle
            \/ read_tail' = read_tail /\ op'[t] = [op[t] EXCEPT !.idx = read_tail]
BY DEF Publish, TypeOK

-----------------------------------------------------------------------------
(* What is pending after a step                                            *)

\* What a thread has still to set changes only for the thread that takes the step.
LEMMA PendingOwn ==
  ASSUME TypeOK, CallInv, NEW t \in Threads, Push(t)
  PROVE  /\ \A u \in Threads : u # t => Pending(u)' = Pending(u)
         /\ Claim(t) => Pending(t) = {} /\ Pending(t)' = tail..(tail' - 1)
         /\ Load(t) \/ TryAllocate(t) \/ Publish(t) => Pending(t)' = Pending(t)
         /\ Store(t) => Pending(t)' = Pending(t) \ {Entry(t)}
<1>1. \A u \in Threads : u # t => Pending(u)' = Pending(u)
  BY Locality DEF Pending, Entry
<1>2. ASSUME Claim(t)
      PROVE  Pending(t) = {} /\ Pending(t)' = tail..(tail' - 1)
  <2>1. Pending(t) = {}
    BY <1>2 DEF Claim, Pending
  <2>2. PICK s \in Starts, c \in 0..MaxRange :
          /\ tail' = tail + c
          /\ \/ /\ 0 < c
                /\ op'[t] = [pc |-> "set", idx |-> tail, cnt |-> c, start |-> s,
                             i |-> 0, place |-> tail]
             \/ c = 0 /\ op'[t] = Idle
             \/ /\ c = 0
                /\ op'[t] = [pc |-> "publish", idx |-> tail, cnt |-> c, start |-> s,
                             i |-> 0, place |-> tail]
    BY <1>2, ClaimCall
  <2>3. tail \in Nat /\ c \in Nat
    BY <2>2, RangeAssumption DEF TypeOK
  <2>4. CASE /\ 0 < c
             /\ op'[t] = [pc |-> "set", idx |-> tail, cnt |-> c, start |-> s,
                          i |-> 0, place |-> tail]
    <3>1. Pending(t)' = (tail + 0)..(tail + c - 1)
      BY <2>4 DEF Pending, Entry
    <3>2. QED
      BY <2>1, <2>2, <2>3, <3>1
  <2>5. CASE /\ c = 0
             /\ \/ op'[t] = Idle
                \/ op'[t] = [pc |-> "publish", idx |-> tail, cnt |-> c, start |-> s,
                             i |-> 0, place |-> tail]
    <3>1. op'[t].pc \in {"idle", "publish"}
      BY <2>5 DEF Idle
    <3>2. Pending(t)' = {}
      BY <3>1 DEF Pending
    <3>3. tail' = tail /\ tail..(tail - 1) = {}
      BY <2>2, <2>3, <2>5
    <3>4. QED
      BY <2>1, <3>2, <3>3
  <2>6. QED
    BY <2>2, <2>4, <2>5
<1>3. ASSUME Load(t) \/ TryAllocate(t)
      PROVE  Pending(t)' = Pending(t)
  <2>1. op[t] \in Calls
    BY DEF TypeOK
  <2>2. /\ op'[t] = [op[t] EXCEPT !.pc = op'[t].pc]
        /\ op[t].pc \in {"set", "allocate"}
        /\ op'[t].pc \in {"allocate", "store"}
    BY <1>3, MoveCall
  <2>3. op'[t].idx = op[t].idx /\ op'[t].i = op[t].i /\ op'[t].cnt = op[t].cnt
    BY <2>1, <2>2 DEF Calls
  <2>4. QED
    BY <2>2, <2>3 DEF Pending, Entry
<1>4. ASSUME Publish(t)
      PROVE  Pending(t)' = Pending(t)
  <2>1. op[t] \in Calls
    BY DEF TypeOK
  <2>2. /\ op[t].pc = "publish"
        /\ op'[t] = Idle \/ op'[t] = [op[t] EXCEPT !.idx = read_tail]
    BY <1>4, PublishCall
  <2>3. op'[t].pc \in {"idle", "publish"}
    BY <2>1, <2>2 DEF Idle, Calls
  <2>4. QED
    BY <2>2, <2>3 DEF Pending
<1>5. ASSUME Store(t)
      PROVE  Pending(t)' = Pending(t) \ {Entry(t)}
  <2>1. op[t] \in Calls
    BY DEF TypeOK
  <2>2. Setting(t)
    BY <1>5 DEF Store, Setting
  <2>3. /\ Pending(t) = (op[t].place + op[t].i)..(op[t].place + op[t].cnt - 1)
        /\ Entry(t) = op[t].place + op[t].i
        /\ op[t].place \in Nat /\ op[t].i \in Nat /\ op[t].cnt \in Nat
    BY <2>2, EntryPlace, RangeAssumption
  <2>4. op[t].idx = op[t].place
    BY <2>2 DEF CallInv, CallOf
  <2>5. CASE /\ op[t].i + 1 < op[t].cnt
             /\ op'[t] = [op[t] EXCEPT !.i = op[t].i + 1, !.pc = "set"]
    <3>1. /\ op'[t].pc = "set" /\ op'[t].i = op[t].i + 1
          /\ op'[t].idx = op[t].idx /\ op'[t].cnt = op[t].cnt
      BY <2>1, <2>5 DEF Calls
    <3>2. Pending(t)' = (op[t].idx + (op[t].i + 1))..(op[t].idx + op[t].cnt - 1)
      BY <3>1 DEF Pending, Entry
    <3>3. QED
      BY <2>3, <2>4, <3>2
  <2>6. CASE op[t].i + 1 = op[t].cnt /\ op'[t].pc \in {"idle", "publish"}
    <3>1. Pending(t)' = {}
      BY <2>6 DEF Pending
    <3>2. (op[t].place + op[t].i)..(op[t].place + op[t].cnt - 1) = {op[t].place + op[t].i}
      BY <2>3, <2>6
    <3>3. QED
      BY <2>3, <3>1, <3>2
  <2>7. QED
    BY <1>5, <2>5, <2>6, StoreCall
<1>6. QED
  BY <1>1, <1>2, <1>3, <1>4, <1>5

\* The entries below a new tail: those below the old one and the others.
LEMMA Above == \A m, n \in Nat : \A x \in 0..(n - 1) : x \in m..(n - 1) <=> m <= x
OBVIOUS

LEMMA Below ==
  \A m, n \in Nat : m <= n => \A x \in 0..(m - 1) : x \in 0..(n - 1) /\ ~(m <= x)
OBVIOUS

\* Two threads never have the same entry to set.
LEMMA PendingDisjoint ==
  ASSUME TypeOK, CallInv, NEW t \in Threads, NEW u \in Threads, t # u,
         NEW x \in Pending(t)
  PROVE  x \notin Pending(u)
<1>1. SUFFICES ASSUME x \in Pending(u)
               PROVE  FALSE
  OBVIOUS
<1>2. /\ Setting(t) /\ op[t].place + op[t].i <= x /\ x < op[t].place + op[t].cnt
      /\ x \in Int
  BY PendingPlace
<1>3. Setting(u) /\ op[u].place + op[u].i <= x /\ x < op[u].place + op[u].cnt
  BY <1>1, PendingPlace
<1>4. DisjointRanges(t, u)
  BY DEF CallInv
<1>5. op[t].place \in Nat /\ op[t].i \in Nat /\ op[t].cnt \in Nat
  BY <1>2, EntryPlace, RangeAssumption
<1>6. op[u].place \in Nat /\ op[u].i \in Nat /\ op[u].cnt \in Nat
  BY <1>3, EntryPlace, RangeAssumption
<1>7. QED
  BY <1>2, <1>3, <1>4, <1>5, <1>6 DEF DisjointRanges

\* A step makes the entries it claims pending, and the one it writes not.
LEMMA PendingStep ==
  ASSUME TypeOK, CallInv, NEW t \in Threads, Push(t), NEW x, x \in 0..(tail' - 1)
  PROVE  IsPending(x)' <=> /\ IsPending(x) \/ tail <= x
                           /\ ~(Store(t) /\ x = Entry(t))
<1>0. tail \in Nat /\ tail' \in Nat /\ tail <= tail'
  BY HistoryStep DEF TypeOK
<1>1. \A u \in Threads : u # t => Pending(u)' = Pending(u)
  BY PendingOwn
<1>2. IsPending(x)' <=> \E u \in Threads : x \in Pending(u)'
  BY DEF IsPending
<1>3. CASE Claim(t)
  <2>1. Pending(t) = {} /\ Pending(t)' = tail..(tail' - 1) /\ ~Store(t)
    BY <1>3, PendingOwn DEF Claim, Store
  <2>2. x \in Pending(t)' <=> tail <= x
    BY <1>0, <2>1, Above, Zenon
  <2>3. x \notin Pending(t)
    BY <2>1
  <2>4. QED
    BY <1>1, <1>2, <2>1, <2>2, <2>3, Zenon DEF IsPending
<1>4. CASE Load(t) \/ TryAllocate(t) \/ Publish(t)
  <2>1. Pending(t)' = Pending(t) /\ ~Store(t) /\ tail' = tail
    BY <1>4, PendingOwn DEF Load, TryAllocate, Publish, Store
  <2>2. QED
    BY <1>0, <1>1, <1>2, <2>1 DEF IsPending
<1>5. CASE Store(t)
  <2>1. Pending(t)' = Pending(t) \ {Entry(t)} /\ tail' = tail
    BY <1>5, PendingOwn DEF Store
  <2>2. Entry(t) \in Pending(t)
    <3>1. Setting(t)
      BY <1>5 DEF Store, Setting
    <3>2. /\ Entry(t) = op[t].place + op[t].i /\ op[t].i < op[t].cnt
          /\ Pending(t) = (op[t].place + op[t].i)..(op[t].place + op[t].cnt - 1)
          /\ op[t].place \in Nat /\ op[t].i \in Nat /\ op[t].cnt \in Nat
      BY <3>1, EntryPlace, RangeAssumption
    <3>3. QED
      BY <3>2
  <2>3. \A u \in Threads : u # t => Entry(t) \notin Pending(u)
    BY <2>2, PendingDisjoint
  <2>4. QED
    BY <1>0, <1>1, <1>2, <1>5, <2>1, <2>3 DEF IsPending
<1>6. QED
  BY <1>3, <1>4, <1>5 DEF Push

-----------------------------------------------------------------------------
(* Calls                                                                   *)

\* The range of a thread that is in the loop after a step: the one it had, or one
\* that starts at the old tail.
LEMMA RangeStep ==
  ASSUME TypeOK, CallInv, NEW t \in Threads, Push(t), Setting(t)'
  PROVE  /\ op'[t].idx = op'[t].place /\ op'[t].i < op'[t].cnt
         /\ op'[t].place \in Nat /\ op'[t].i \in Nat /\ op'[t].cnt \in 0..MaxRange
         /\ op'[t].place + op'[t].cnt <= tail'
         /\ op'[t].start \in Starts
         /\ \/ /\ Setting(t) /\ op'[t].place = op[t].place
               /\ op'[t].cnt = op[t].cnt /\ op'[t].start = op[t].start
            \/ /\ op'[t].place = tail
               /\ \A j \in 0..(op'[t].cnt - 1) : pushed'[tail + j] = op'[t].start + j
<1>0. op[t] \in Calls /\ tail \in Nat
  BY DEF TypeOK
<1>1. op'[t].pc \in {"set", "allocate", "store"}
  BY DEF Setting
<1>2. CASE Claim(t)
  <2>1. PICK s \in Starts, c \in 0..MaxRange :
          /\ tail' = tail + c
          /\ pushed' = [x \in 0..(tail' - 1) |-> IF x < tail THEN pushed[x] ELSE s + (x - tail)]
          /\ \/ /\ 0 < c
                /\ op'[t] = [pc |-> "set", idx |-> tail, cnt |-> c, start |-> s,
                             i |-> 0, place |-> tail]
             \/ op'[t] = Idle
             \/ op'[t] = [pc |-> "publish", idx |-> tail, cnt |-> c, start |-> s,
                          i |-> 0, place |-> tail]
    BY <1>2, ClaimCall
  <2>2. 0 < c /\ op'[t] = [pc |-> "set", idx |-> tail, cnt |-> c, start |-> s,
                           i |-> 0, place |-> tail]
    BY <1>1, <2>1 DEF Idle
  <2>3. /\ op'[t].idx = tail /\ op'[t].place = tail /\ op'[t].i = 0
        /\ op'[t].cnt = c /\ op'[t].start = s /\ c \in Nat /\ s \in Nat
    BY <2>2, RangeAssumption
  <2>4. ASSUME NEW j \in 0..(c - 1)
        PROVE  pushed'[tail + j] = s + j
    <3>1. tail + j \in 0..(tail' - 1) /\ ~(tail + j < tail) /\ (tail + j) - tail = j
      BY <1>0, <2>1, <2>3
    <3>2. QED
      BY <2>1, <3>1
  <2>5. QED
    BY <1>0, <2>1, <2>2, <2>3, <2>4
<1>3. CASE Load(t) \/ TryAllocate(t)
  <2>1. /\ op'[t] = [op[t] EXCEPT !.pc = op'[t].pc]
        /\ op[t].pc \in {"set", "allocate"}
        /\ tail' = tail
    BY <1>3, MoveCall
  <2>2. Setting(t)
    BY <2>1 DEF Setting
  <2>3. /\ op'[t].idx = op[t].idx /\ op'[t].i = op[t].i /\ op'[t].cnt = op[t].cnt
        /\ op'[t].place = op[t].place /\ op'[t].start = op[t].start
    BY <1>0, <2>1 DEF Calls
  <2>4. op[t].idx = op[t].place
    BY <2>2 DEF CallInv, CallOf
  <2>5. /\ op[t].place \in Nat /\ op[t].i \in Nat /\ op[t].cnt \in 0..MaxRange
        /\ op[t].start \in Starts /\ op[t].i < op[t].cnt
        /\ op[t].place + op[t].cnt <= tail
    BY <2>2, EntryPlace
  <2>6. QED
    BY <2>1, <2>2, <2>3, <2>4, <2>5
<1>4. CASE Store(t)
  <2>1. Setting(t) /\ tail' = tail
    BY <1>4 DEF Store, Setting
  <2>2. \/ op'[t].pc \in {"idle", "publish"}
        \/ /\ op[t].i + 1 < op[t].cnt
           /\ op'[t] = [op[t] EXCEPT !.i = op[t].i + 1, !.pc = "set"]
    BY <1>4, StoreCall
  <2>3. /\ op[t].i + 1 < op[t].cnt
        /\ op'[t] = [op[t] EXCEPT !.i = op[t].i + 1, !.pc = "set"]
    BY <1>1, <2>2
  <2>4. /\ op'[t].idx = op[t].idx /\ op'[t].i = op[t].i + 1 /\ op'[t].cnt = op[t].cnt
        /\ op'[t].place = op[t].place /\ op'[t].start = op[t].start
    BY <1>0, <2>3 DEF Calls
  <2>5. op[t].idx = op[t].place
    BY <2>1 DEF CallInv, CallOf
  <2>6. /\ op[t].place \in Nat /\ op[t].i \in Nat /\ op[t].cnt \in 0..MaxRange
        /\ op[t].start \in Starts
        /\ op[t].place + op[t].cnt <= tail
    BY <2>1, EntryPlace
  <2>7. QED
    BY <2>1, <2>3, <2>4, <2>5, <2>6
<1>5. CASE Publish(t)
  <2>1. op[t].pc = "publish" /\ (op'[t] = Idle \/ op'[t] = [op[t] EXCEPT !.idx = read_tail])
    BY <1>5, PublishCall
  <2>2. op'[t].pc \in {"idle", "publish"}
    BY <1>0, <2>1 DEF Idle, Calls
  <2>3. QED
    BY <1>1, <2>2
<1>6. QED
  BY <1>2, <1>3, <1>4, <1>5 DEF Push

\* Calls keep their shape: CallInv is inductive.
LEMMA CallStep ==
  ASSUME TypeOK, CallInv, NEW t \in Threads, Push(t)
  PROVE  CallInv'
<1>0. op[t] \in Calls /\ tail \in Nat
  BY DEF TypeOK
<1>1. /\ kind' = kind /\ tail' \in Nat /\ tail <= tail' /\ tail' <= MaxLen
      /\ \A x \in 0..(tail - 1) : pushed'[x] = pushed[x]
  BY HistoryStep
<1>2. kind = "relaxed" => read_tail' = 0
  <2>1. CASE Publish(t)
    BY <2>1, PublishCall DEF CallInv, CallOf
  <2>2. CASE Claim(t) \/ Load(t) \/ TryAllocate(t) \/ Store(t)
    BY <2>2 DEF Claim, Load, TryAllocate, Store, CallInv
  <2>3. QED
    BY <2>1, <2>2 DEF Push
<1>3. ASSUME NEW u \in Threads, Setting(u)
      PROVE  /\ op[u].place \in Nat /\ op[u].cnt \in Nat
             /\ op[u].place + op[u].cnt <= tail
             /\ \A j \in 0..(op[u].cnt - 1) :
                  pushed'[op[u].place + j] = op[u].start + j
  <2>1. /\ op[u].place \in Nat /\ op[u].cnt \in Nat
        /\ op[u].place + op[u].cnt <= tail
    BY <1>3, EntryPlace, RangeAssumption
  <2>2. \A j \in 0..(op[u].cnt - 1) : pushed[op[u].place + j] = op[u].start + j
    BY <1>3 DEF CallInv, CallOf
  <2>3. \A j \in 0..(op[u].cnt - 1) : op[u].place + j \in 0..(tail - 1)
    BY <1>0, <2>1
  <2>4. QED
    BY <1>1, <2>1, <2>2, <2>3
<1>4. ASSUME NEW u \in Threads, u # t
      PROVE  CallOf(u)'
  <2>1. op'[u] = op[u]
    BY <1>4, Locality
  <2>2. Setting(u)' <=> Setting(u)
    BY <2>1 DEF Setting
  <2>3. CallOf(u)
    BY DEF CallInv
  <2>4. Setting(u) => op[u].place + op[u].cnt <= tail'
    BY <1>0, <1>1, <1>3
  <2>5. QED
    BY <1>1, <1>3, <2>1, <2>2, <2>3, <2>4 DEF CallOf
<1>5. CallOf(t)'
  <2>1. op'[t].pc = "idle" => op'[t] = Idle
    <3>1. CASE Claim(t)
      BY <3>1, ClaimPc
    <3>2. CASE Load(t) \/ TryAllocate(t)
      BY <3>2, MoveCall
    <3>3. CASE Store(t)
      BY <3>3, StoreCall
    <3>4. CASE Publish(t)
      BY <1>0, <3>4, PublishCall DEF Calls
    <3>5. QED
      BY <3>1, <3>2, <3>3, <3>4 DEF Push
  <2>2. op'[t].pc = "publish" => kind' = "linearizable"
    <3>1. CASE Claim(t)
      BY <1>1, <3>1, ClaimPc
    <3>2. CASE Load(t) \/ TryAllocate(t)
      BY <3>2, MoveCall
    <3>3. CASE Store(t)
      BY <1>1, <3>3, StoreCall
    <3>4. CASE Publish(t)
      BY <1>1, <3>4, PublishCall DEF CallInv, CallOf
    <3>5. QED
      BY <3>1, <3>2, <3>3, <3>4 DEF Push
  <2>3. ASSUME Setting(t)'
        PROVE  \A j \in 0..(op'[t].cnt - 1) :
                 pushed'[op'[t].place + j] = op'[t].start + j
    BY <1>3, <2>3, RangeStep
  <2>4. Setting(t)' => /\ op'[t].idx = op'[t].place
                       /\ op'[t].i < op'[t].cnt
                       /\ op'[t].place + op'[t].cnt <= tail'
                       /\ op'[t].start \in Starts
    BY RangeStep
  <2>5. QED
    BY <2>1, <2>2, <2>3, <2>4 DEF CallOf
<1>6. ASSUME NEW u \in Threads, u # t
      PROVE  DisjointRanges(t, u)' /\ DisjointRanges(u, t)'
  <2>1. op'[u] = op[u]
    BY <1>6, Locality
  <2>2. Setting(u)' <=> Setting(u)
    BY <2>1 DEF Setting
  <2>3. DisjointRanges(t, u)
    BY <1>6 DEF CallInv
  <2>4. SUFFICES ASSUME Setting(t)', Setting(u)
                 PROVE  \/ op'[t].place + op'[t].cnt <= op[u].place
                        \/ op[u].place + op[u].cnt <= op'[t].place
    BY <2>1, <2>2 DEF DisjointRanges
  <2>5. CASE Setting(t) /\ op'[t].place = op[t].place /\ op'[t].cnt = op[t].cnt
    BY <2>3, <2>4, <2>5 DEF DisjointRanges
  <2>6. CASE op'[t].place = tail
    BY <1>3, <2>4, <2>6
  <2>7. QED
    BY <2>4, <2>5, <2>6, RangeStep
<1>7. ASSUME NEW u \in Threads, NEW v \in Threads, u # v
      PROVE  DisjointRanges(u, v)'
  <2>1. CASE u = t \/ v = t
    BY <1>6, <1>7, <2>1
  <2>2. CASE u # t /\ v # t
    <3>1. op'[u] = op[u] /\ op'[v] = op[v]
      BY <2>2, Locality
    <3>2. DisjointRanges(u, v)
      BY <1>7 DEF CallInv
    <3>3. QED
      BY <3>1, <3>2 DEF DisjointRanges, Setting
  <2>3. QED
    BY <2>1, <2>2
<1>8. \A u \in Threads : CallOf(u)'
  BY <1>4, <1>5
<1>9. QED
  BY <1>1, <1>2, <1>7, <1>8 DEF CallInv

-----------------------------------------------------------------------------
(* The tails                                                               *)

Cnts == [t \in Threads |-> op[t].cnt]

\* The entries of the appends that have not returned.
Outstanding == MapThenSumSet(LAMBDA t : op[t].cnt, Threads)

\* They are a sum over the threads.
LEMMA OutstandingSum ==
  \E g : IsSum(g, Cnts, Threads) /\ Outstanding = g[Threads]
<1> DEFINE P(g) == g = [s \in SUBSET Threads |->
                         IF s = {} THEN 0
                         ELSE op[Chosen(s)].cnt + g[s \ {Chosen(s)}]]
           it == CHOOSE g : P(g)
<1>1. Outstanding = it[Threads]
  BY DEF Outstanding, MapThenSumSet, MapThenFoldSet, Chosen
<1>2. \A s \in SUBSET Threads : s # {} => Cnts[Chosen(s)] = op[Chosen(s)].cnt
  BY DEF Cnts, Chosen
<1>3. \A g : P(g) <=> IsSum(g, Cnts, Threads)
  <2>1. TAKE g
  <2>2. QED
    BY <1>2, SumEquations DEF IsSum, Chosen
<1>4. \E g : P(g)
  BY <1>3, SumExists, ThreadAssumption
<1>5. P(it)
  <2> HIDE DEF P
  <2> QED
    BY <1>4
<1>6. QED
  BY <1>1, <1>3, <1>5

\* Also after a step.
LEMMA OutstandingNext ==
  (\E g : IsSum(g, Cnts, Threads) /\ Outstanding = g[Threads])'
BY OutstandingSum, PTL

\* A thread's own entries are among them.
LEMMA OutstandingBound ==
  ASSUME TypeOK, NEW t \in Threads
  PROVE  Outstanding \in Nat /\ op[t].cnt <= Outstanding
<1>1. PICK g : IsSum(g, Cnts, Threads) /\ Outstanding = g[Threads]
  BY OutstandingSum
<1>2. Cnts \in [Threads -> Nat]
  BY RangeAssumption DEF TypeOK, Calls, Cnts
<1>3. g[Threads] \in Nat /\ \A x \in Threads : Cnts[x] <= g[Threads]
  BY <1>1, <1>2, SumBound, ThreadAssumption
<1>4. QED
  BY <1>1, <1>3 DEF Cnts

\* A step changes them by what it changes of the thread's own.
LEMMA OutstandingStep ==
  ASSUME TypeOK, NEW t \in Threads, Push(t), op'[t].cnt \in Nat
  PROVE  Outstanding' = Outstanding - op[t].cnt + op'[t].cnt
<1>1. (\E g : IsSum(g, Cnts, Threads) /\ Outstanding = g[Threads])'
  BY OutstandingNext
<1>2. PICK g : IsSum(g, Cnts, Threads) /\ Outstanding = g[Threads]
  BY OutstandingSum
<1>3. PICK h : IsSum(h, Cnts', Threads) /\ Outstanding' = h[Threads]
  BY <1>1 DEF IsSum
<1>4. \A u \in Threads : op[u].cnt \in Int
  BY RangeAssumption DEF TypeOK, Calls
<1>5. \A u \in Threads : u # t => op'[u] = op[u]
  BY Locality
<1>6. \A u \in Threads : op'[u].cnt \in Int
  BY <1>4, <1>5
<1>7. Cnts' = [u \in Threads |-> op'[u].cnt]
  BY DEF Cnts
<1>8. Cnts \in [Threads -> Int] /\ Cnts' \in [Threads -> Int]
  BY <1>4, <1>6, <1>7 DEF Cnts
<1>9. \A u \in Threads \ {t} : Cnts'[u] = Cnts[u]
  BY <1>5, <1>7 DEF Cnts
<1>10. Cnts[t] = op[t].cnt /\ Cnts'[t] = op'[t].cnt
  BY <1>7 DEF Cnts
<1>11. h[Threads] = g[Threads] - Cnts[t] + Cnts'[t]
  BY <1>2, <1>3, <1>8, <1>9, SumUpdate, ThreadAssumption
<1>12. QED
  BY <1>2, <1>3, <1>10, <1>11

\* At first there are none.
LEMMA OutstandingInit ==
  ASSUME op = [t \in Threads |-> Idle]
  PROVE  Outstanding = 0
<1>1. PICK g : IsSum(g, Cnts, Threads) /\ Outstanding = g[Threads]
  BY OutstandingSum
<1>2. Cnts = [t \in Threads |-> 0]
  BY DEF Cnts, Idle
<1>3. Cnts \in [Threads -> Int] /\ \A t \in Threads : Cnts[t] = 0
  BY <1>2
<1>4. QED
  BY <1>1, <1>3, SumZero, ThreadAssumption

\* TailsAgree is inductive: an append adds its entries to both sides when it
\* claims them, and takes them from both when it publishes.
LEMMA TailsStep ==
  ASSUME TypeOK, CallInv, TailsAgree, NEW t \in Threads, Push(t)
  PROVE  TailsAgree'
<1>0. op[t] \in Calls /\ tail \in Nat /\ read_tail \in Nat /\ op[t].cnt \in Nat
  BY RangeAssumption DEF TypeOK, Calls
<1>1. kind' = kind
  BY HistoryStep
<1>2. SUFFICES ASSUME kind = "linearizable"
               PROVE  tail' - read_tail' = Outstanding'
  BY <1>1 DEF TailsAgree, Outstanding
<1>3. tail - read_tail = Outstanding /\ Outstanding \in Nat
  BY <1>2, OutstandingBound DEF TailsAgree, Outstanding
<1>4. CASE Claim(t)
  <2>1. op[t].cnt = 0
    BY <1>4 DEF Claim, CallInv, CallOf, Idle
  <2>2. PICK s \in Starts, c \in 0..MaxRange :
          /\ tail' = tail + c
          /\ \/ op'[t] = [pc |-> "set", idx |-> tail, cnt |-> c, start |-> s,
                          i |-> 0, place |-> tail]
             \/ op'[t] = [pc |-> "publish", idx |-> tail, cnt |-> c, start |-> s,
                          i |-> 0, place |-> tail]
    BY <1>2, <1>4, ClaimCall
  <2>3. op'[t].cnt = c /\ c \in Nat
    BY <2>2, RangeAssumption
  <2>4. Outstanding' = Outstanding - 0 + c
    BY <2>1, <2>3, OutstandingStep
  <2>5. read_tail' = read_tail
    BY <1>4 DEF Claim
  <2>6. QED
    BY <1>0, <1>3, <2>2, <2>3, <2>4, <2>5
<1>5. CASE Load(t) \/ TryAllocate(t) \/ Store(t)
  <2>1. op'[t].cnt = op[t].cnt
    <3>1. CASE Load(t) \/ TryAllocate(t)
      <4>1. op'[t] = [op[t] EXCEPT !.pc = op'[t].pc]
        BY <3>1, MoveCall
      <4>2. QED
        BY <1>0, <4>1 DEF Calls
    <3>2. CASE Store(t)
      <4>1. \/ op'[t] = [op[t] EXCEPT !.i = op[t].i + 1, !.pc = "set"]
            \/ op'[t] = [op[t] EXCEPT !.i = op[t].i + 1, !.pc = "publish"]
        BY <1>2, <3>2, StoreCall
      <4>2. QED
        BY <1>0, <4>1 DEF Calls
    <3>3. QED
      BY <1>5, <3>1, <3>2
  <2>2. Outstanding' = Outstanding - op[t].cnt + op[t].cnt
    BY <1>0, <2>1, OutstandingStep
  <2>3. tail' = tail /\ read_tail' = read_tail
    BY <1>5 DEF Load, TryAllocate, Store
  <2>4. QED
    BY <1>0, <1>3, <2>2, <2>3
<1>6. CASE Publish(t)
  <2>1. tail' = tail
    BY <1>6 DEF Publish
  <2>2. CASE read_tail' = read_tail + op[t].cnt /\ op'[t] = Idle
    <3>1. op'[t].cnt = 0
      BY <2>2 DEF Idle
    <3>2. Outstanding' = Outstanding - op[t].cnt + 0
      BY <3>1, OutstandingStep
    <3>3. QED
      BY <1>0, <1>3, <2>1, <2>2, <3>2
  <2>3. CASE read_tail' = read_tail /\ op'[t] = [op[t] EXCEPT !.idx = read_tail]
    <3>1. op'[t].cnt = op[t].cnt
      BY <1>0, <2>3 DEF Calls
    <3>2. Outstanding' = Outstanding - op[t].cnt + op[t].cnt
      BY <1>0, <3>1, OutstandingStep
    <3>3. QED
      BY <1>0, <1>3, <2>1, <2>3, <3>2
  <2>4. QED
    BY <1>6, <2>2, <2>3, PublishCall
<1>7. QED
  BY <1>4, <1>5, <1>6 DEF Push

-----------------------------------------------------------------------------
(* Arrays, the table and the cells                                         *)

\* The array a thread is about to offer is nowhere in the table.
LEMMA OfferedArray ==
  ASSUME TypeOK, CallInv, TableInv, NEW t \in Threads, op[t].pc = "allocate"
  PROVE  /\ Array(t, Bucket(t)) \in heap
         /\ \A b \in 0..(NBuckets - 1) : buckets[b] # Array(t, Bucket(t))
<1>1. /\ Array(t, Bucket(t)) \in heap
      /\ buckets[Bucket(t)] # Array(t, Bucket(t))
  BY DEF TableInv
<1>2. Array(t, Bucket(t)) # Null /\ Array(t, Bucket(t))[2] = Bucket(t)
  <2>1. Setting(t)
    BY DEF Setting
  <2>2. Bucket(t) \in 0..(NBuckets - 1)
    BY <2>1, EntryPlace
  <2>3. Bucket(t) \in Nat
    BY <2>2, TableAssumption
  <2>4. QED
    BY <2>3, NullAssumption DEF Array
<1>3. \A b \in 0..(NBuckets - 1) : buckets[b] # Null => buckets[b][2] = b
  BY DEF TableInv
<1>4. QED
  BY <1>1, <1>2, <1>3

\* Nor has a cell of it been written.
LEMMA OfferedCells ==
  ASSUME TypeOK, CallInv, TableInv, CellInv, NEW t \in Threads, op[t].pc = "allocate",
         NEW c \in DOMAIN cells
  PROVE  c[1] # Array(t, Bucket(t))
<1>1. PICK x \in 0..(tail - 1) : c = Cell(x)
  BY DEF CellInv
<1>2. x \in 0..(MaxLen - 1)
  BY <1>1, RangeAssumption DEF TypeOK, CallInv
<1>3. c[1] = buckets[BucketIdx(x)] /\ BucketIdx(x) \in 0..(NBuckets - 1)
  BY <1>1, <1>2, PlaceType DEF Cell
<1>4. QED
  BY <1>3, OfferedArray

\* The locals of a call keep their type.
LEMMA CallTypeStep ==
  ASSUME TypeOK, CallInv, NEW t \in Threads, Push(t)
  PROVE  op' \in [Threads -> Calls']
<1>0. /\ op[t] \in Calls /\ tail \in Nat /\ read_tail \in 0..tail
      /\ tail' \in Nat /\ tail <= tail'
  BY HistoryStep DEF TypeOK
<1> DEFINE C == [pc : {"idle", "set", "allocate", "store", "publish"}, idx : 0..tail',
                 cnt : 0..MaxRange, start : Nat, i : 0..MaxRange, place : 0..tail']
<1>1. Calls' = C
  BY DEF Calls
<1>2. \A n \in 0..tail : n \in 0..tail'
  BY <1>0
<1>3. Idle \in C
  BY <1>0, RangeAssumption DEF Idle
<1>4. ASSUME NEW u \in Threads, u # t
      PROVE  op'[u] \in C
  <2>1. op'[u] = op[u] /\ op[u] \in Calls
    BY <1>4, Locality DEF TypeOK
  <2>2. QED
    BY <1>2, <2>1 DEF Calls
<1>5. op'[t] \in C
  <2>1. CASE Claim(t)
    <3>1. PICK s \in Starts, c \in 0..MaxRange :
            \/ op'[t] = [pc |-> "set", idx |-> tail, cnt |-> c, start |-> s,
                         i |-> 0, place |-> tail]
            \/ op'[t] = Idle
            \/ op'[t] = [pc |-> "publish", idx |-> tail, cnt |-> c, start |-> s,
                         i |-> 0, place |-> tail]
      BY <2>1, ClaimCall
    <3>2. tail \in 0..tail' /\ 0 \in 0..MaxRange /\ s \in Nat
      BY <1>0, RangeAssumption
    <3>3. QED
      BY <1>3, <3>1, <3>2
  <2>2. CASE Load(t) \/ TryAllocate(t)
    <3>1. /\ op'[t] = [op[t] EXCEPT !.pc = op'[t].pc]
          /\ op'[t].pc \in {"allocate", "store"}
      BY <2>2, MoveCall
    <3>2. QED
      BY <1>0, <1>2, <3>1 DEF Calls
  <2>3. CASE Store(t)
    <3>1. op[t].i + 1 \in 0..MaxRange
      <4>1. Setting(t)
        BY <2>3 DEF Store, Setting
      <4>2. op[t].i \in Nat /\ op[t].cnt \in 0..MaxRange /\ op[t].i < op[t].cnt
        BY <4>1, EntryPlace
      <4>3. QED
        BY <4>2, RangeAssumption
    <3>2. \/ op'[t] = [op[t] EXCEPT !.i = op[t].i + 1, !.pc = "set"]
          \/ op'[t] = Idle
          \/ op'[t] = [op[t] EXCEPT !.i = op[t].i + 1, !.pc = "publish"]
      BY <2>3, StoreCall
    <3>3. QED
      BY <1>0, <1>2, <1>3, <3>1, <3>2 DEF Calls
  <2>4. CASE Publish(t)
    <3>1. op'[t] = Idle \/ op'[t] = [op[t] EXCEPT !.idx = read_tail]
      BY <2>4, PublishCall
    <3>2. read_tail \in 0..tail'
      BY <1>0
    <3>3. QED
      BY <1>0, <1>2, <1>3, <3>1, <3>2 DEF Calls
  <2>5. QED
    BY <2>1, <2>2, <2>3, <2>4 DEF Push
<1>6. op' = [u \in Threads |-> op'[u]]
  BY Locality
<1>7. QED
  BY <1>1, <1>4, <1>5, <1>6

\* read_tail_ does not overtake write_tail_.
LEMMA ReadTailStep ==
  ASSUME TypeOK, CallInv, TailsAgree, NEW t \in Threads, Push(t)
  PROVE  read_tail' \in 0..tail'
<1>0. /\ tail \in Nat /\ read_tail \in 0..tail /\ tail' \in Nat /\ tail <= tail'
      /\ op[t].cnt \in Nat
  BY HistoryStep, RangeAssumption DEF TypeOK, Calls
<1>1. CASE read_tail' = read_tail
  BY <1>0, <1>1
<1>2. CASE Publish(t) /\ read_tail' = read_tail + op[t].cnt
  <2>1. tail' = tail /\ kind = "linearizable"
    BY <1>2 DEF Publish, CallInv, CallOf
  <2>2. Outstanding = tail - read_tail /\ op[t].cnt <= Outstanding
    BY <2>1, OutstandingBound DEF TailsAgree, Outstanding
  <2>3. QED
    BY <1>0, <1>2, <2>1, <2>2
<1>3. QED
  BY <1>1, <1>2, PublishCall DEF Push, Claim, Load, TryAllocate, Store

\* The table points to arrays that exist, and what has been written is in them:
\* only a thread that has lost the race for a bucket deletes an array, its own,
\* which is not in the table and of which nothing has been written.
LEMMA ArrayTypeStep ==
  ASSUME TypeOK, CallInv, TableInv, CellInv, NEW t \in Threads, Push(t)
  PROVE  /\ buckets' \in [0..(NBuckets - 1) -> heap' \cup {Null}]
         /\ heap' \subseteq (Threads \cup {Null}) \X (0..(NBuckets - 1))
         /\ DOMAIN cells' \subseteq heap' \X Nat
         /\ \A c \in DOMAIN cells' :
              cells'[c] \in Nat /\ c[2] < Shifted[c[1][2] + FbsHibit]
<1>0. /\ buckets \in [0..(NBuckets - 1) -> heap \cup {Null}]
      /\ heap \subseteq (Threads \cup {Null}) \X (0..(NBuckets - 1))
      /\ DOMAIN cells \subseteq heap \X Nat
      /\ \A c \in DOMAIN cells : cells[c] \in Nat /\ c[2] < Shifted[c[1][2] + FbsHibit]
  BY DEF TypeOK
<1> DEFINE a == Array(t, Bucket(t))
<1>1. CASE Claim(t) \/ Publish(t)
  <2>1. buckets' = buckets /\ heap' = heap /\ cells' = cells
    BY <1>1 DEF Claim, Publish
  <2>2. QED
    BY <1>0, <2>1
<1>2. CASE Load(t)
  <2>1. /\ buckets' = buckets /\ cells' = cells
        /\ heap' = heap \/ heap' = heap \cup {a}
    BY <1>2 DEF Load
  <2>2. Bucket(t) \in 0..(NBuckets - 1)
    BY <1>2, EntryPlace DEF Load, Setting
  <2>3. a \in (Threads \cup {Null}) \X (0..(NBuckets - 1))
    BY <2>2 DEF Array
  <2> HIDE DEF a
  <2>4. heap \subseteq heap' /\ heap' \subseteq (Threads \cup {Null}) \X (0..(NBuckets - 1))
    BY <1>0, <2>1, <2>3
  <2>5. QED
    BY <1>0, <2>1, <2>4
<1>3. CASE TryAllocate(t)
  <2>1. /\ a \in heap /\ \A b \in 0..(NBuckets - 1) : buckets[b] # a
        /\ \A c \in DOMAIN cells : c[1] # a
    BY <1>3, OfferedArray, OfferedCells DEF TryAllocate
  <2>2. /\ cells' = cells
        /\ \/ heap' = heap /\ buckets' = [buckets EXCEPT ![Bucket(t)] = a]
           \/ heap' = heap \ {a} /\ buckets' = buckets
    BY <1>3 DEF TryAllocate
  <2> HIDE DEF a
  <2>3. CASE heap' = heap /\ buckets' = [buckets EXCEPT ![Bucket(t)] = a]
    BY <1>0, <2>1, <2>2, <2>3
  <2>4. CASE heap' = heap \ {a} /\ buckets' = buckets
    <3>1. \A b \in 0..(NBuckets - 1) : buckets[b] \in heap' \cup {Null}
      BY <1>0, <2>1, <2>4
    <3>2. DOMAIN cells \subseteq heap' \X Nat
      BY <1>0, <2>1, <2>4
    <3>3. QED
      BY <1>0, <2>2, <2>4, <3>1, <3>2
  <2>5. QED
    BY <2>2, <2>3, <2>4
<1>4. CASE Store(t)
  <2> DEFINE c == <<buckets[Bucket(t)], BucketOff(Entry(t))>>
             v == op[t].start + op[t].i
  <2>1. /\ buckets' = buckets /\ heap' = heap
        /\ cells' = [x \in DOMAIN cells \cup {c} |-> IF x = c THEN v ELSE cells[x]]
    BY <1>4 DEF Store
  <2>2. Setting(t)
    BY <1>4 DEF Store, Setting
  <2>3. /\ Bucket(t) \in 0..(NBuckets - 1) /\ BucketOff(Entry(t)) \in Nat
        /\ BucketOff(Entry(t)) < Shifted[Bucket(t) + FbsHibit]
        /\ v \in Nat
    <3>1. /\ Bucket(t) \in 0..(NBuckets - 1) /\ BucketOff(Entry(t)) \in Nat
          /\ BucketOff(Entry(t)) < Shifted[Bucket(t) + FbsHibit]
          /\ op[t].start \in Starts /\ op[t].i \in Nat
      BY <2>2, EntryPlace
    <3>2. op[t].start \in Nat
      BY <3>1, RangeAssumption
    <3>3. v \in Nat
      BY <3>1, <3>2
    <3>4. QED
      BY <3>1, <3>3
  <2>4. buckets[Bucket(t)] # Null /\ buckets[Bucket(t)][2] = Bucket(t)
    BY <1>4, <2>3 DEF Store, TableInv
  <2>5. c \in heap \X Nat /\ c[2] < Shifted[c[1][2] + FbsHibit]
    BY <1>0, <2>3, <2>4
  <2> HIDE DEF c, v
  <2>6. DOMAIN cells' \subseteq heap' \X Nat
    BY <1>0, <2>1, <2>5
  <2>7. \A x \in DOMAIN cells' : cells'[x] \in Nat /\ x[2] < Shifted[x[1][2] + FbsHibit]
    BY <1>0, <2>1, <2>3, <2>5
  <2>8. QED
    BY <1>0, <2>1, <2>6, <2>7
<1>5. QED
  BY <1>1, <1>2, <1>3, <1>4 DEF Push

\* TypeOK is inductive.
LEMMA TypeStep ==
  ASSUME TypeOK, CallInv, TableInv, CellInv, TailsAgree, NEW t \in Threads, Push(t)
  PROVE  TypeOK'
<1>1. kind' \in Kinds
  BY HistoryStep DEF TypeOK
<1>2. tail' \in Nat /\ pushed' \in [0..(tail' - 1) -> Nat]
  BY HistoryStep
<1>3. QED
  BY <1>1, <1>2, CallTypeStep, ReadTailStep, ArrayTypeStep DEF TypeOK

\* What the table looks like after a step: an entry of it changes once, from null
\* to the array of the thread that wins the race.
LEMMA BucketStep ==
  ASSUME TypeOK, CallInv, TableInv, NEW t \in Threads, Push(t)
  PROVE  \/ buckets' = buckets
         \/ /\ TryAllocate(t) /\ buckets[Bucket(t)] = Null
            /\ buckets' = [buckets EXCEPT ![Bucket(t)] = Array(t, Bucket(t))]
BY DEF Push, Claim, Load, TryAllocate, Store, Publish

\* An array in the table stays there.
LEMMA BucketKept ==
  ASSUME TypeOK, CallInv, TableInv, NEW t \in Threads, Push(t),
         NEW b \in 0..(NBuckets - 1), buckets[b] # Null
  PROVE  buckets'[b] = buckets[b]
<1>1. buckets \in [0..(NBuckets - 1) -> heap \cup {Null}]
  BY DEF TypeOK
<1>2. QED
  BY <1>1, BucketStep

\* The bucket of another thread's entry is the same after a step.
LEMMA OtherBucket ==
  ASSUME TypeOK, NEW t \in Threads, Push(t), NEW u \in Threads, u # t
  PROVE  Bucket(u)' = Bucket(u) /\ op'[u].pc = op[u].pc
<1>1. op'[u] = op[u]
  BY Locality
<1>2. QED
  BY <1>1 DEF Bucket, Entry, BucketIdx

\* So is that of a thread that allocates.
LEMMA OwnBucket ==
  ASSUME TypeOK, NEW t \in Threads, Load(t) \/ TryAllocate(t)
  PROVE  Bucket(t)' = Bucket(t)
<1>1. op[t] \in Calls
  BY DEF TypeOK
<1>2. op'[t] = [op[t] EXCEPT !.pc = op'[t].pc]
  BY MoveCall
<1>3. op'[t].idx = op[t].idx /\ op'[t].i = op[t].i
  BY <1>1, <1>2 DEF Calls
<1>4. QED
  BY <1>3 DEF Bucket, Entry, BucketIdx

\* Only Load puts a thread where it offers an array, and only Load and
\* TryAllocate where it writes.
LEMMA PcStep ==
  ASSUME TypeOK, CallInv, NEW t \in Threads, Push(t)
  PROVE  /\ op'[t].pc = "allocate" => Load(t) /\ buckets[Bucket(t)] = Null
         /\ op'[t].pc = "store" => \/ Load(t) /\ buckets[Bucket(t)] # Null
                                   \/ TryAllocate(t)
<1>0. op \in [Threads -> Calls] /\ op[t] \in Calls
  BY DEF TypeOK
<1>1. CASE Claim(t)
  BY <1>1, ClaimPc
<1>2. CASE Load(t)
  <2>1. \/ /\ buckets[Bucket(t)] # Null
           /\ op' = [op EXCEPT ![t].pc = "store"]
        \/ /\ buckets[Bucket(t)] = Null
           /\ op' = [op EXCEPT ![t].pc = "allocate"]
    BY <1>2 DEF Load
  <2>2. \/ buckets[Bucket(t)] # Null /\ op'[t] = [op[t] EXCEPT !.pc = "store"]
        \/ buckets[Bucket(t)] = Null /\ op'[t] = [op[t] EXCEPT !.pc = "allocate"]
    BY <1>0, <2>1
  <2>3. QED
    BY <1>0, <1>2, <2>2 DEF Calls
<1>3. CASE TryAllocate(t)
  <2>1. op' = [op EXCEPT ![t].pc = "store"]
    BY <1>3 DEF TryAllocate
  <2>2. op'[t] = [op[t] EXCEPT !.pc = "store"]
    BY <1>0, <2>1
  <2>3. QED
    BY <1>0, <1>3, <2>2 DEF Calls
<1>4. CASE Store(t)
  BY <1>4, StoreCall
<1>5. CASE Publish(t)
  <2>1. op[t].pc = "publish" /\ (op'[t] = Idle \/ op'[t] = [op[t] EXCEPT !.idx = read_tail])
    BY <1>5, PublishCall
  <2>2. op'[t].pc \in {"idle", "publish"}
    BY <1>0, <2>1 DEF Idle, Calls
  <2>3. QED
    BY <2>2
<1>6. QED
  BY <1>1, <1>2, <1>3, <1>4, <1>5 DEF Push

\* TableInv is inductive.
LEMMA TableStep ==
  ASSUME TypeOK, CallInv, TableInv, NEW t \in Threads, Push(t)
  PROVE  TableInv'
<1>0. /\ buckets \in [0..(NBuckets - 1) -> heap \cup {Null}]
      /\ heap \subseteq (Threads \cup {Null}) \X (0..(NBuckets - 1))
  BY DEF TypeOK
<1>1. ASSUME NEW u \in Threads, Setting(u)
      PROVE  Bucket(u) \in 0..(NBuckets - 1)
  BY <1>1, EntryPlace
<1>2. ASSUME NEW b \in 0..(NBuckets - 1), buckets'[b] # Null
      PROVE  buckets'[b][2] = b
  <2>1. CASE buckets'[b] = buckets[b]
    BY <1>2, <2>1 DEF TableInv
  <2>2. CASE b = Bucket(t) /\ buckets'[b] = Array(t, Bucket(t))
    BY <2>2 DEF Array
  <2>3. QED
    BY <1>0, <2>1, <2>2, BucketStep
<1>3. ASSUME NEW u \in Threads, op'[u].pc = "store"
      PROVE  buckets'[Bucket(u)'] # Null
  <2>1. CASE u # t
    <3>1. Bucket(u)' = Bucket(u) /\ op[u].pc = "store"
      BY <1>3, <2>1, OtherBucket
    <3>2. buckets[Bucket(u)] # Null /\ Bucket(u) \in 0..(NBuckets - 1)
      BY <1>1, <3>1 DEF TableInv, Setting
    <3>3. QED
      BY <3>1, <3>2, BucketKept
  <2>2. CASE u = t
    <3>1. CASE Load(t) /\ buckets[Bucket(t)] # Null
      <4>1. Bucket(t)' = Bucket(t) /\ buckets' = buckets
        BY <3>1, OwnBucket DEF Load
      <4>2. QED
        BY <2>2, <3>1, <4>1
    <3>2. CASE TryAllocate(t)
      <4>1. Bucket(t)' = Bucket(t)
        BY <3>2, OwnBucket
      <4>2. Bucket(t) \in 0..(NBuckets - 1)
        BY <1>1, <3>2 DEF TryAllocate, Setting
      <4>3. CASE buckets[Bucket(t)] # Null
        BY <2>2, <4>1, <4>2, <4>3, BucketKept
      <4>4. CASE buckets[Bucket(t)] = Null
        <5>1. buckets' = [buckets EXCEPT ![Bucket(t)] = Array(t, Bucket(t))]
          BY <3>2, <4>4 DEF TryAllocate
        <5>2. buckets'[Bucket(t)] = Array(t, Bucket(t))
          BY <1>0, <4>2, <5>1
        <5>3. Array(t, Bucket(t)) # Null
          <6>1. Bucket(t) \in Nat
            BY <4>2, TableAssumption
          <6>2. QED
            BY <6>1, NullAssumption DEF Array
        <5>4. QED
          BY <2>2, <4>1, <5>2, <5>3
      <4>5. QED
        BY <4>3, <4>4
    <3>3. QED
      BY <1>3, <2>2, <3>1, <3>2, PcStep
  <2>3. QED
    BY <2>1, <2>2
<1>4. ASSUME NEW u \in Threads, op'[u].pc = "allocate"
      PROVE  /\ Array(u, Bucket(u)') \in heap'
             /\ buckets'[Bucket(u)'] # Array(u, Bucket(u)')
  <2>1. CASE u # t
    <3>1. Bucket(u)' = Bucket(u) /\ op[u].pc = "allocate"
      BY <1>4, <2>1, OtherBucket
    <3>2. /\ Array(u, Bucket(u)) \in heap
          /\ buckets[Bucket(u)] # Array(u, Bucket(u))
          /\ Bucket(u) \in 0..(NBuckets - 1)
      BY <1>1, <3>1 DEF TableInv, Setting
    <3>3. Array(u, Bucket(u)) # Array(t, Bucket(t))
      BY <2>1 DEF Array
    <3>4. heap' = heap \/ heap' = heap \cup {Array(t, Bucket(t))}
                       \/ heap' = heap \ {Array(t, Bucket(t))}
      BY DEF Push, Claim, Load, TryAllocate, Store, Publish
    <3>5. Array(u, Bucket(u)) \in heap'
      BY <3>2, <3>3, <3>4
    <3>6. \/ buckets'[Bucket(u)] = buckets[Bucket(u)]
          \/ buckets'[Bucket(u)] = Array(t, Bucket(t))
      BY <1>0, <3>2, BucketStep
    <3>7. QED
      BY <3>1, <3>2, <3>3, <3>5, <3>6
  <2>2. CASE u = t
    <3>1. Load(t) /\ buckets[Bucket(t)] = Null
      BY <1>4, <2>2, PcStep
    <3>2. Bucket(t)' = Bucket(t) /\ buckets' = buckets /\ Array(t, Bucket(t)) \in heap'
      BY <3>1, OwnBucket DEF Load
    <3>3. Bucket(t) \in Nat
      BY <1>1, <3>1, TableAssumption DEF Load, Setting
    <3>4. Array(t, Bucket(t)) # Null
      BY <3>3, NullAssumption DEF Array
    <3>5. QED
      BY <2>2, <3>1, <3>2, <3>4
  <2>3. QED
    BY <2>1, <2>2
<1>5. QED
  BY <1>2, <1>3, <1>4 DEF TableInv, Array

\* NoLeak is inductive.
LEMMA NoLeakStep ==
  ASSUME TypeOK, CallInv, TableInv, NoLeak, NEW t \in Threads, Push(t)
  PROVE  NoLeak'
<1>0. buckets \in [0..(NBuckets - 1) -> heap \cup {Null}]
  BY DEF TypeOK
<1>1. Setting(t) => Bucket(t) \in 0..(NBuckets - 1)
  BY EntryPlace
<1>2. SUFFICES ASSUME NEW a \in heap'
               PROVE  \/ \E b \in 0..(NBuckets - 1) : a = buckets'[b]
                      \/ \E u \in Threads : op'[u].pc = "allocate" /\ a = Array(u, Bucket(u)')
  BY DEF NoLeak, Array
<1>3. CASE a \notin heap
  <2>1. Load(t) /\ a = Array(t, Bucket(t)) /\ op' = [op EXCEPT ![t].pc = "allocate"]
    BY <1>2, <1>3 DEF Push, Claim, Load, TryAllocate, Store, Publish
  <2>2. Bucket(t)' = Bucket(t)
    BY <2>1, OwnBucket
  <2>3. op'[t].pc = "allocate"
    <3>1. op \in [Threads -> Calls] /\ op[t] \in Calls
      BY DEF TypeOK
    <3>2. op'[t] = [op[t] EXCEPT !.pc = "allocate"]
      BY <2>1, <3>1
    <3>3. QED
      BY <3>1, <3>2 DEF Calls
  <2>4. QED
    BY <2>1, <2>2, <2>3
<1>4. CASE \E b \in 0..(NBuckets - 1) : a = buckets[b] /\ a # Null
  BY <1>4, BucketKept
<1>5. CASE \E u \in Threads : u # t /\ op[u].pc = "allocate" /\ a = Array(u, Bucket(u))
  BY <1>5, OtherBucket
<1>6. CASE a \in heap /\ op[t].pc = "allocate" /\ a = Array(t, Bucket(t))
  <2>1. TryAllocate(t)
    BY <1>6 DEF Push, Claim, Load, Store, Publish
  <2>2. buckets' = [buckets EXCEPT ![Bucket(t)] = a]
    BY <1>2, <1>6, <2>1 DEF TryAllocate
  <2>3. Bucket(t) \in 0..(NBuckets - 1)
    BY <1>1, <1>6 DEF Setting
  <2>4. buckets'[Bucket(t)] = a
    BY <1>0, <2>2, <2>3
  <2>5. QED
    BY <2>3, <2>4
<1>7. a # Null
  <2>1. CASE a \in heap
    <3>1. heap \subseteq (Threads \cup {Null}) \X (0..(NBuckets - 1))
      BY DEF TypeOK
    <3>2. a \in (Threads \cup {Null}) \X Nat
      BY <2>1, <3>1, TableAssumption
    <3>3. QED
      BY <3>2, NullAssumption
  <2>2. CASE a \notin heap
    <3>1. Load(t) /\ a = Array(t, Bucket(t))
      BY <1>2, <2>2 DEF Push, Claim, Load, TryAllocate, Store, Publish
    <3>2. Bucket(t) \in Nat
      BY <1>1, <3>1, TableAssumption DEF Load, Setting
    <3>3. QED
      BY <3>1, <3>2, NullAssumption DEF Array
  <2>3. QED
    BY <2>1, <2>2
<1>8. QED
  BY <1>3, <1>4, <1>5, <1>6, <1>7 DEF NoLeak

-----------------------------------------------------------------------------
(* Entries                                                                 *)

\* Different entries are kept in different cells of the arrays.
LEMMA CellInjective ==
  ASSUME TypeOK, CallInv, TableInv,
         NEW x \in 0..(tail - 1), NEW y \in 0..(tail - 1),
         buckets[BucketIdx(x)] # Null, Cell(x) = Cell(y)
  PROVE  x = y
<1>1. x \in 0..(MaxLen - 1) /\ y \in 0..(MaxLen - 1)
  BY RangeAssumption DEF TypeOK, CallInv
<1>2. BucketIdx(x) \in 0..(NBuckets - 1) /\ BucketIdx(y) \in 0..(NBuckets - 1)
  BY <1>1, PlaceType
<1>3. buckets[BucketIdx(x)] = buckets[BucketIdx(y)] /\ BucketOff(x) = BucketOff(y)
  BY DEF Cell
<1>4. BucketIdx(x) = BucketIdx(y)
  BY <1>2, <1>3 DEF TableInv
<1>5. QED
  BY <1>1, <1>3, <1>4, PlaceInjective

\* The cell of an entry that a step does not write is what it was.
LEMMA CellKept ==
  ASSUME TypeOK, CallInv, TableInv, NEW t \in Threads, Push(t),
         NEW x \in 0..(tail - 1), buckets[BucketIdx(x)] # Null
  PROVE  BucketIdx(x) \in 0..(NBuckets - 1) /\ Cell(x)' = Cell(x)
<1>1. x \in 0..(MaxLen - 1)
  BY RangeAssumption DEF TypeOK, CallInv
<1>2. BucketIdx(x) \in 0..(NBuckets - 1)
  BY <1>1, PlaceType
<1>3. buckets'[BucketIdx(x)] = buckets[BucketIdx(x)]
  BY <1>2, BucketKept
<1>4. QED
  BY <1>2, <1>3 DEF Cell, BucketIdx, BucketOff

\* CellInv is inductive.
LEMMA CellStep ==
  ASSUME TypeOK, CallInv, TableInv, CellInv, NEW t \in Threads, Push(t)
  PROVE  CellInv'
<1>0. tail \in Nat /\ tail' \in Nat /\ tail <= tail'
  BY HistoryStep DEF TypeOK
<1>1. SUFFICES ASSUME NEW c \in DOMAIN cells'
               PROVE  \E x \in 0..(tail' - 1) : ~IsPending(x)' /\ c = Cell(x)'
  BY DEF CellInv
<1>2. CASE c \in DOMAIN cells
  <2>1. PICK x \in 0..(tail - 1) : ~IsPending(x) /\ c = Cell(x)
    BY <1>2 DEF CellInv
  <2>2. buckets[BucketIdx(x)] # Null
    <3>1. c[1] \in heap /\ c[1] = buckets[BucketIdx(x)]
      BY <1>2, <2>1 DEF TypeOK, Cell
    <3>2. c[1] \in (Threads \cup {Null}) \X Nat
      BY <3>1, TableAssumption DEF TypeOK
    <3>3. QED
      BY <3>1, <3>2, NullAssumption
  <2>3. Cell(x)' = Cell(x)
    BY <2>2, CellKept
  <2>4. x \in 0..(tail' - 1) /\ ~(tail <= x)
    BY <1>0, <2>1, Below, Zenon
  <2>5. ~IsPending(x)'
    BY <2>1, <2>4, PendingStep
  <2>6. QED
    BY <2>1, <2>3, <2>4, <2>5
<1>3. CASE c \notin DOMAIN cells
  <2>1. Store(t) /\ c = <<buckets[Bucket(t)], BucketOff(Entry(t))>>
    BY <1>1, <1>3 DEF Push, Claim, Load, TryAllocate, Store, Publish
  <2>2. buckets' = buckets /\ tail' = tail
    BY <2>1 DEF Store
  <2>3. c = <<buckets'[BucketIdx(Entry(t))], BucketOff(Entry(t))>>
    BY <2>1, <2>2 DEF Bucket
  <2>4. PICK e : e = Entry(t)
    OBVIOUS
  <2>5. e \in 0..(tail' - 1)
    BY <2>1, <2>2, <2>4, EntryPlace DEF Store, Setting
  <2>6. ~IsPending(e)'
    BY <2>1, <2>4, <2>5, PendingStep
  <2>7. c = Cell(e)'
    BY <2>3, <2>4 DEF Cell, BucketIdx, BucketOff
  <2>8. QED
    BY <2>5, <2>6, <2>7
<1>4. QED
  BY <1>2, <1>3

\* An entry that can be read is in a cell of an array of the table.
LEMMA Readable ==
  ASSUME NEW x, Get(x) \in Nat
  PROVE  /\ buckets[BucketIdx(x)] # Null
         /\ Cell(x) \in DOMAIN cells
         /\ Get(x) = cells[Cell(x)]
BY NullAssumption DEF Get, Cell

\* EntriesKept is inductive: a write goes to the cell of its own entry only, and
\* an array that holds entries is never replaced in the table.
LEMMA EntriesStep ==
  ASSUME TypeOK, CallInv, TableInv, EntriesKept, NEW t \in Threads, Push(t)
  PROVE  EntriesKept'
<1>0. /\ tail \in Nat /\ tail' \in Nat /\ tail <= tail'
      /\ pushed \in [0..(tail - 1) -> Nat]
      /\ \A x \in 0..(tail - 1) : pushed'[x] = pushed[x]
  BY HistoryStep DEF TypeOK
<1>1. SUFFICES ASSUME NEW x, x \in 0..(tail' - 1), ~IsPending(x)'
               PROVE  Get(x)' = pushed'[x]
  BY DEF EntriesKept
<1>2. CASE Store(t) /\ x = Entry(t)
  <2>1. Setting(t) /\ buckets' = buckets /\ pushed' = pushed
    BY <1>2 DEF Store, Setting
  <2>2. buckets[BucketIdx(x)] # Null /\ pushed[x] = op[t].start + op[t].i
    BY <1>2, <2>1, EntryPlace DEF Store, TableInv, Bucket
  <2> DEFINE c == <<buckets[BucketIdx(x)], BucketOff(x)>>
  <2>3. cells' = [y \in DOMAIN cells \cup {c} |->
                    IF y = c THEN op[t].start + op[t].i ELSE cells[y]]
    BY <1>2 DEF Store, Bucket
  <2>4. c \in DOMAIN cells' /\ cells'[c] = op[t].start + op[t].i
    BY <2>3
  <2>5. Get(x)' = cells'[c]
    BY <2>1, <2>2, <2>4 DEF Get, BucketIdx, BucketOff
  <2>6. QED
    BY <2>1, <2>2, <2>4, <2>5
<1>3. CASE ~(Store(t) /\ x = Entry(t))
  <2>1. ~IsPending(x) /\ ~(tail <= x)
    BY <1>1, <1>3, PendingStep
  <2>2. x \in 0..(tail - 1)
    <3>1. \A m, n \in Nat : \A y \in 0..(n - 1) : ~(m <= y) => y \in 0..(m - 1)
      OBVIOUS
    <3>2. QED
      BY <1>0, <1>1, <2>1, <3>1, Zenon
  <2>3. Get(x) = pushed[x] /\ pushed[x] \in Nat
    BY <1>0, <2>1, <2>2 DEF EntriesKept
  <2>4. /\ buckets[BucketIdx(x)] # Null
        /\ Cell(x) \in DOMAIN cells
        /\ pushed[x] = cells[Cell(x)]
    BY <2>3, Readable
  <2>5. BucketIdx(x) \in 0..(NBuckets - 1) /\ Cell(x)' = Cell(x)
    BY <2>2, <2>4, CellKept
  <2>6. Cell(x) \in DOMAIN cells' /\ cells'[Cell(x)] = cells[Cell(x)]
    <3>1. CASE Store(t)
      <4>1. PICK e : e = Entry(t)
        OBVIOUS
      <4>2. e \in 0..(tail - 1) /\ x # e
        BY <1>3, <3>1, <4>1, EntryPlace DEF Store, Setting
      <4>3. Cell(x) # Cell(e)
        BY <2>2, <2>4, <4>2, CellInjective
      <4>4. Cell(e) = <<buckets[Bucket(t)], BucketOff(Entry(t))>>
        BY <4>1 DEF Cell, Bucket
      <4>5. cells' = [y \in DOMAIN cells \cup {Cell(e)} |->
                        IF y = Cell(e) THEN op[t].start + op[t].i ELSE cells[y]]
        BY <3>1, <4>4 DEF Store
      <4>6. QED
        BY <2>4, <4>3, <4>5
    <3>2. CASE ~Store(t)
      <4>1. cells' = cells
        BY <3>2 DEF Push, Claim, Load, TryAllocate, Publish
      <4>2. QED
        BY <2>4, <4>1
    <3>3. QED
      BY <3>1, <3>2
  <2>7. Cell(x)' = <<buckets'[BucketIdx(x)], BucketOff(x)>>
    BY DEF Cell, BucketIdx, BucketOff
  <2>8. buckets'[BucketIdx(x)] # Null
    BY <2>4, <2>5, BucketKept
  <2>9. Get(x)' = cells'[Cell(x)]
    BY <2>5, <2>6, <2>7, <2>8 DEF Get, BucketIdx, BucketOff
  <2>10. QED
    BY <1>0, <2>2, <2>4, <2>6, <2>9
<1>4. QED
  BY <1>2, <1>3

-----------------------------------------------------------------------------
(* The invariant                                                           *)

\* It holds at first.
LEMMA MonologInit == Init => MonologInv
<1> SUFFICES ASSUME Init
             PROVE  MonologInv
  OBVIOUS
<1>0. /\ kind \in Kinds /\ tail = 0 /\ read_tail = 0
      /\ buckets = [b \in 0..(NBuckets - 1) |-> IF b = 0 THEN FirstArray ELSE Null]
      /\ heap = {FirstArray}
      /\ DOMAIN cells = {} /\ DOMAIN pushed = {}
      /\ op = [t \in Threads |-> Idle]
      /\ pushed = [x \in {} |-> Unset]
  BY DEF Init
<1>1. \A t \in Threads : op[t] = Idle /\ op[t].pc = "idle"
  BY <1>0 DEF Idle
<1>2. FirstArray = <<Null, 0>> /\ FirstArray # Null
  BY NullAssumption DEF FirstArray, Array
<1>3. 0 \in 0..(NBuckets - 1) /\ 0..(tail - 1) = {}
  BY <1>0, TableAssumption
<1>4. TypeOK
  <2>1. op \in [Threads -> Calls]
    <3>1. Idle \in Calls
      BY <1>0, RangeAssumption DEF Idle, Calls
    <3>2. QED
      BY <1>0, <3>1
  <2>2. buckets \in [0..(NBuckets - 1) -> heap \cup {Null}]
    BY <1>0
  <2>3. heap \subseteq (Threads \cup {Null}) \X (0..(NBuckets - 1))
    BY <1>0, <1>2, <1>3
  <2>4. pushed \in [0..(tail - 1) -> Nat]
    BY <1>0, <1>3
  <2>5. tail \in Nat /\ read_tail \in 0..tail
    BY <1>0
  <2>6. QED
    BY <1>0, <2>1, <2>2, <2>3, <2>4, <2>5 DEF TypeOK
<1>5. CallInv
  <2>1. \A t \in Threads : ~Setting(t)
    BY <1>1 DEF Setting
  <2>2. \A t \in Threads : CallOf(t)
    BY <1>1, <2>1 DEF CallOf
  <2>3. \A t, u \in Threads : DisjointRanges(t, u)
    BY <2>1 DEF DisjointRanges
  <2>4. tail <= MaxLen
    BY <1>0, RangeAssumption
  <2>5. QED
    BY <1>0, <2>2, <2>3, <2>4 DEF CallInv
<1>6. TableInv
  <2>1. \A b \in 0..(NBuckets - 1) : buckets[b] # Null => buckets[b][2] = b
    BY <1>0, <1>2
  <2>2. QED
    BY <1>1, <2>1 DEF TableInv
<1>7. NoLeak
  <2>1. buckets[0] = FirstArray
    BY <1>0, <1>3
  <2>2. QED
    BY <1>0, <1>3, <2>1 DEF NoLeak
<1>8. CellInv /\ EntriesKept
  BY <1>0, <1>3 DEF CellInv, EntriesKept
<1>9. TailsAgree
  <2>1. Outstanding = 0
    BY <1>0, OutstandingInit
  <2>2. QED
    BY <1>0, <2>1 DEF TailsAgree, Outstanding
<1>10. QED
  BY <1>4, <1>5, <1>6, <1>7, <1>8, <1>9 DEF MonologInv

\* Every step keeps it.
LEMMA MonologStep == MonologInv /\ [Next]_vars => MonologInv'
<1> SUFFICES ASSUME MonologInv, [Next]_vars
             PROVE  MonologInv'
  OBVIOUS
<1>1. CASE Next
  <2>1. PICK t \in Threads : Push(t)
    BY <1>1 DEF Next
  <2>2. /\ TypeOK /\ CallInv /\ TableInv /\ NoLeak /\ CellInv
        /\ EntriesKept /\ TailsAgree
    BY DEF MonologInv
  <2>3. TypeOK' /\ CallInv' /\ TableInv'
    BY <2>1, <2>2, TypeStep, CallStep, TableStep
  <2>4. NoLeak' /\ CellInv'
    BY <2>1, <2>2, NoLeakStep, CellStep
  <2>5. EntriesKept' /\ TailsAgree'
    BY <2>1, <2>2, EntriesStep, TailsStep
  <2>6. QED
    BY <2>3, <2>4, <2>5 DEF MonologInv
<1>2. CASE UNCHANGED vars
  <2>1. /\ kind' = kind /\ tail' = tail /\ read_tail' = read_tail
        /\ buckets' = buckets /\ heap' = heap /\ cells' = cells
        /\ op' = op /\ pushed' = pushed
    BY <1>2 DEF vars
  <2>2. TypeOK' /\ CallInv'
    BY <2>1 DEF MonologInv, TypeOK, Calls, CallInv, CallOf, Setting, DisjointRanges
  <2>3. TableInv' /\ NoLeak'
    BY <2>1 DEF MonologInv, TableInv, NoLeak, Bucket, Entry, BucketIdx, Array
  <2>4. CellInv' /\ EntriesKept'
    BY <2>1 DEF MonologInv, CellInv, EntriesKept, IsPending, Pending, Entry, Cell, Get,
                BucketIdx, BucketOff
  <2>5. TailsAgree'
    BY <2>1 DEF MonologInv, TailsAgree, MapThenSumSet, MapThenFoldSet
  <2>6. QED
    BY <2>2, <2>3, <2>4, <2>5 DEF MonologInv
<1>3. QED
  BY <1>1, <1>2

\* push_back_range of both monologs keeps MonologInv, whatever threads append and
\* however their steps interleave.
THEOREM MonologCorrect == Spec => []MonologInv
<1>1. QED
  BY MonologInit, MonologStep, PTL DEF Spec

\* The table points to arrays that exist and nothing is written past the end of
\* one: no thread deletes an array that another one can reach.
THEOREM MonologTypeCorrect == Spec => []TypeOK
<1>1. MonologInv => TypeOK
  BY DEF MonologInv
<1>2. QED
  BY <1>1, MonologCorrect, PTL

\* set and get: no entry is lost in the race for a bucket.
THEOREM EntriesKeptCorrect == Spec => []EntriesKept
<1>1. MonologInv => EntriesKept
  BY DEF MonologInv
<1>2. QED
  BY <1>1, MonologCorrect, PTL

\* try_allocate_bucket: the arrays of the threads that lose the race are deleted.
THEOREM NoLeakCorrect == Spec => []NoLeak
<1>1. MonologInv => NoLeak
  BY DEF MonologInv
<1>2. QED
  BY <1>1, MonologCorrect, PTL

\* The two tails of monolog_linearizable differ by the appends in progress.
THEOREM TailsAgreeCorrect == Spec => []TailsAgree
<1>1. MonologInv => TailsAgree
  BY DEF MonologInv
<1>2. QED
  BY <1>1, MonologCorrect, PTL

-----------------------------------------------------------------------------
(* The implementation of EntryList                                         *)

\* What a reader gets: nothing for an entry that is pending, its own value for
\* another.
Expected(x) == IF IsPending(x - 1) THEN Unset ELSE pushed[x - 1]

LEMMA EntriesExpected == MonologInv => Entries = [x \in 1..tail |-> Expected(x)]
<1> SUFFICES ASSUME MonologInv
             PROVE  Entries = [x \in 1..tail |-> Expected(x)]
  OBVIOUS
<1>0. /\ TypeOK /\ CallInv /\ TableInv /\ CellInv /\ EntriesKept
      /\ tail \in Nat /\ pushed \in [0..(tail - 1) -> Nat]
  BY DEF MonologInv, TypeOK
<1>1. SUFFICES ASSUME NEW x \in 1..tail
               PROVE  (IF Get(x - 1) = Null THEN Unset ELSE Get(x - 1)) = Expected(x)
  BY DEF Entries
<1>2. PICK y \in 0..(tail - 1) : y = x - 1
  BY <1>0
<1>3. CASE ~IsPending(y)
  <2>1. Get(y) = pushed[y] /\ pushed[y] \in Nat
    BY <1>0, <1>3 DEF EntriesKept
  <2>2. Get(y) # Null
    BY <2>1, NullAssumption
  <2>3. QED
    BY <1>2, <1>3, <2>1, <2>2 DEF Expected
<1>4. CASE IsPending(y)
  <2>1. CASE buckets[BucketIdx(y)] = Null
    <3>1. Get(y) = Null
      BY <2>1 DEF Get
    <3>2. QED
      BY <1>2, <1>4, <3>1 DEF Expected
  <2>2. CASE buckets[BucketIdx(y)] # Null
    <3>1. Cell(y) \notin DOMAIN cells
      <4>1. SUFFICES ASSUME Cell(y) \in DOMAIN cells
                     PROVE  FALSE
        OBVIOUS
      <4>2. PICK z \in 0..(tail - 1) : ~IsPending(z) /\ Cell(y) = Cell(z)
        BY <1>0, <4>1 DEF CellInv
      <4>3. y = z
        BY <1>0, <2>2, <4>2, CellInjective
      <4>4. QED
        BY <1>4, <4>2, <4>3
    <3>2. Get(y) = Unset
      BY <2>2, <3>1 DEF Get, Cell
    <3>3. QED
      BY <1>2, <1>4, <3>2 DEF Expected
  <2>3. QED
    BY <2>1, <2>2
<1>5. QED
  BY <1>3, <1>4

\* Also after a step.
LEMMA EntriesExpectedNext ==
  (MonologInv => Entries = [x \in 1..tail |-> Expected(x)])'
BY EntriesExpected, PTL

\* The list has numbers and places that are not set.
LEMMA EntriesType == MonologInv => Entries \in [1..tail -> Nat \cup {Unset}]
<1> SUFFICES ASSUME MonologInv
             PROVE  Entries \in [1..tail -> Nat \cup {Unset}]
  OBVIOUS
<1>1. Entries = [x \in 1..tail |-> Expected(x)]
  BY EntriesExpected
<1>2. ASSUME NEW x \in 1..tail
      PROVE  Expected(x) \in Nat \cup {Unset}
  <2>1. x - 1 \in 0..(tail - 1) /\ pushed \in [0..(tail - 1) -> Nat]
    BY DEF MonologInv, TypeOK
  <2>2. QED
    BY <2>1 DEF Expected
<1>3. QED
  BY <1>1, <1>2

LEMMA EntriesTypeNext == (MonologInv => Entries \in [1..tail -> Nat \cup {Unset}])'
BY EntriesType, PTL

\* What is expected of an entry after a step.
LEMMA ExpectedStep ==
  ASSUME TypeOK, CallInv, NEW t \in Threads, Push(t), NEW x, x \in 1..tail'
  PROVE  Expected(x)' = IF Store(t) /\ x = Entry(t) + 1 THEN op[t].start + op[t].i
                        ELSE IF tail < x THEN Unset
                        ELSE Expected(x)
<1>0. /\ tail \in Nat /\ tail' \in Nat /\ tail <= tail'
      /\ \A y \in 0..(tail - 1) : pushed'[y] = pushed[y]
  BY HistoryStep DEF TypeOK
<1>1. PICK y : y = x - 1
  OBVIOUS
<1>2. \A n \in Nat : \A z \in 1..n : z - 1 \in 0..(n - 1)
  OBVIOUS
<1>3. y \in 0..(tail' - 1)
  BY <1>0, <1>1, <1>2, Zenon
<1>4. IsPending(y)' <=> (IsPending(y) \/ tail <= y) /\ ~(Store(t) /\ y = Entry(t))
  BY <1>3, PendingStep
<1>5. Expected(x)' = IF IsPending(y)' THEN Unset ELSE pushed'[y]
  BY <1>1 DEF Expected
<1>6. Expected(x) = IF IsPending(y) THEN Unset ELSE pushed[y]
  BY <1>1 DEF Expected
<1>7. x \in Int
  BY <1>0
<1>8. CASE Store(t) /\ y = Entry(t)
  <2>1. pushed' = pushed /\ pushed[y] = op[t].start + op[t].i /\ Entry(t) \in Int
    BY <1>8, EntryPlace DEF Store, Setting
  <2>2. x = Entry(t) + 1
    BY <1>1, <1>7, <1>8, <2>1
  <2>3. QED
    BY <1>4, <1>5, <1>8, <2>1, <2>2
<1>9. CASE ~(Store(t) /\ y = Entry(t))
  <2>1. ~(Store(t) /\ x = Entry(t) + 1)
    <3>1. Store(t) => Entry(t) \in Int
      BY EntryPlace DEF Store, Setting
    <3>2. QED
      BY <1>1, <1>7, <1>9, <3>1
  <2>2. tail < x <=> tail <= y
    BY <1>0, <1>1, <1>7
  <2>3. ~(tail <= y) => pushed'[y] = pushed[y]
    <3>1. \A m, n \in Nat : \A z \in 0..(n - 1) : ~(m <= z) => z \in 0..(m - 1)
      OBVIOUS
    <3>2. QED
      BY <1>0, <1>3, <3>1, Zenon
  <2>4. QED
    BY <1>4, <1>5, <1>6, <1>9, <2>1, <2>2, <2>3
<1>10. QED
  BY <1>8, <1>9

\* A function on an interval from 1 is a sequence.
LEMMA FunctionIsSeq ==
  ASSUME NEW S, NEW n \in Nat, NEW f \in [1..n -> S]
  PROVE  f \in Seq(S) /\ Len(f) = n
OBVIOUS

\* A list followed by a number of entries that are not set, as a function.
LEMMA Appended ==
  ASSUME NEW m \in Nat, NEW c \in Nat, NEW s, s = [x \in 1..m |-> s[x]], NEW r,
         r = [x \in 1..(m + c) |-> IF m < x THEN Unset ELSE s[x]]
  PROVE  r = s \o [j \in 1..c |-> Unset]
<1> DEFINE S == {s[x] : x \in 1..m} \cup {Unset}
           e == [j \in 1..c |-> Unset]
<1>1. s \in [1..m -> S] /\ e \in [1..c -> S] /\ r \in [1..(m + c) -> S] /\ m + c \in Nat
  OBVIOUS
<1>2. ASSUME NEW x \in 1..(m + c)
      PROVE  r[x] = IF x <= m THEN s[x] ELSE e[x - m]
  BY <1>2
<1> HIDE DEF S, e
<1>3. s \in Seq(S) /\ Len(s) = m /\ e \in Seq(S) /\ Len(e) = c
  BY <1>1, FunctionIsSeq
<1>4. r \in Seq(S) /\ Len(r) = m + c
  BY <1>1, FunctionIsSeq
<1>5. /\ s \o e \in Seq(S)
      /\ Len(s \o e) = m + c
      /\ \A x \in 1..(m + c) : (s \o e)[x] = IF x <= m THEN s[x] ELSE e[x - m]
  BY <1>3, ConcatProperties
<1>6. r = s \o e
  BY <1>2, <1>4, <1>5, SeqEqual
<1>7. QED
  BY <1>6 DEF e

\* A list with one entry set.
LEMMA SetEntry ==
  ASSUME NEW m, NEW V, NEW s \in [1..m -> V], NEW r \in [1..m -> V], NEW j \in 1..m, NEW v,
         \A x \in 1..m : r[x] = IF x = j THEN v ELSE s[x]
  PROVE  r = [s EXCEPT ![j] = v]
OBVIOUS

\* fetch_add hands out places at the end of the list.
LEMMA ClaimReserves ==
  ASSUME MonologInv, MonologInv', NEW t \in Threads, Claim(t)
  PROVE  List!Reserve
<1>0. TypeOK /\ CallInv /\ Push(t) /\ tail \in Nat
  BY DEF MonologInv, TypeOK, Push
<1>1. PICK c \in 0..MaxRange : tail' = tail + c
  BY DEF Claim
<1>2. c \in Nat /\ tail' \in Nat
  BY <1>0, <1>1, RangeAssumption
<1>3. Entries = [x \in 1..tail |-> Expected(x)]
  BY EntriesExpected
<1>4. Entries' = [x \in 1..tail' |-> Expected(x)']
  BY EntriesExpectedNext
<1>5. ~Store(t)
  BY DEF Claim, Store
<1>6. \A x \in 1..tail' : Expected(x)' = IF tail < x THEN Unset ELSE Expected(x)
  BY <1>0, <1>5, ExpectedStep
<1>7. \A x \in 1..tail : Entries[x] = Expected(x)
  BY <1>3
<1>8. Entries' = [x \in 1..(tail + c) |-> IF tail < x THEN Unset ELSE Entries[x]]
  <2>1. ASSUME NEW x \in 1..(tail + c)
        PROVE  Expected(x)' = IF tail < x THEN Unset ELSE Entries[x]
    <3>1. ~(tail < x) => x \in 1..tail
      BY <1>0, <1>2
    <3>2. QED
      BY <1>1, <1>6, <1>7, <3>1
  <2>2. QED
    BY <1>1, <1>4, <2>1
<1>9. Entries = [x \in 1..tail |-> Entries[x]]
  BY <1>3
<1>10. Entries' = Entries \o [j \in 1..c |-> Unset]
  BY <1>0, <1>2, <1>8, <1>9, Appended
<1>11. QED
  BY <1>10 DEF List!Reserve

\* A write sets one place, which was not set.
LEMMA StoreSets ==
  ASSUME MonologInv, MonologInv', NEW t \in Threads, Store(t)
  PROVE  List!Set
<1>0. TypeOK /\ CallInv /\ Push(t) /\ tail \in Nat /\ Setting(t) /\ tail' = tail
  BY DEF MonologInv, TypeOK, Push, Store, Setting
<1>1. PICK e : e = Entry(t)
  OBVIOUS
<1>2. /\ e \in 0..(tail - 1) /\ op[t].start \in Starts /\ op[t].i \in Nat
      /\ op[t].cnt \in 0..MaxRange /\ op[t].i < op[t].cnt
      /\ e = op[t].place + op[t].i /\ op[t].place \in Nat
      /\ Pending(t) = (op[t].place + op[t].i)..(op[t].place + op[t].cnt - 1)
  BY <1>0, <1>1, EntryPlace
<1>3. IsPending(e)
  <2>1. op[t].cnt \in Nat
    BY <1>2, RangeAssumption
  <2>2. e \in (op[t].place + op[t].i)..(op[t].place + op[t].cnt - 1)
    BY <1>2, <2>1
  <2>3. QED
    BY <1>2, <2>2 DEF IsPending
<1>4. PICK j \in 1..tail : j = e + 1 /\ j - 1 = e
  BY <1>0, <1>2
<1>5. PICK v : v = op[t].start + op[t].i
  OBVIOUS
<1>6. Entries = [x \in 1..tail |-> Expected(x)]
  BY EntriesExpected
<1>7. Entries' = [x \in 1..tail |-> Expected(x)']
  BY <1>0, EntriesExpectedNext
<1>8. Entries[j] = Unset
  <2>1. Expected(j) = Unset
    BY <1>3, <1>4 DEF Expected
  <2>2. QED
    BY <1>4, <1>6, <2>1
<1>9. \A x \in 1..tail : Expected(x)' = IF x = j THEN v ELSE Expected(x)
  <2>1. SUFFICES ASSUME NEW x \in 1..tail
                 PROVE  Expected(x)' = IF x = j THEN v ELSE Expected(x)
    OBVIOUS
  <2>2. ~(tail < x)
    BY <1>0
  <2>3. QED
    BY <1>0, <1>1, <1>4, <1>5, <2>2, ExpectedStep
<1>10. \A x \in 1..tail : Entries'[x] = IF x = j THEN v ELSE Entries[x]
  BY <1>6, <1>7, <1>9
<1>11. Entries \in [1..tail -> Nat \cup {Unset}] /\ Entries' \in [1..tail -> Nat \cup {Unset}]
  BY <1>0, EntriesType, EntriesTypeNext
<1>12. Entries' = [Entries EXCEPT ![j] = v]
  BY <1>4, <1>10, <1>11, SetEntry
<1>13. j \in DOMAIN Entries
  BY <1>4, <1>11
<1>14. v \in UNION {s..(s + MaxRange) : s \in Starts}
  <2>1. op[t].start \in Nat
    BY <1>2, RangeAssumption
  <2>2. op[t].i \in 0..MaxRange
    BY <1>2, RangeAssumption
  <2>3. v \in op[t].start..(op[t].start + MaxRange)
    BY <1>5, <2>1, <2>2, RangeAssumption
  <2>4. QED
    BY <1>2, <2>3
<1>15. QED
  BY <1>8, <1>12, <1>13, <1>14 DEF List!Set

\* The other steps change nothing a reader can tell.
LEMMA OthersStutter ==
  ASSUME MonologInv, MonologInv', NEW t \in Threads,
         Load(t) \/ TryAllocate(t) \/ Publish(t)
  PROVE  Entries' = Entries
<1>0. TypeOK /\ CallInv /\ Push(t) /\ tail \in Nat /\ tail' = tail /\ ~Store(t)
  BY DEF MonologInv, TypeOK, Push, Load, TryAllocate, Publish, Store
<1>1. Entries = [x \in 1..tail |-> Expected(x)]
  BY EntriesExpected
<1>2. Entries' = [x \in 1..tail |-> Expected(x)']
  BY <1>0, EntriesExpectedNext
<1>3. \A x \in 1..tail : Expected(x)' = Expected(x)
  <2>1. SUFFICES ASSUME NEW x \in 1..tail
                 PROVE  Expected(x)' = Expected(x)
    OBVIOUS
  <2>2. ~(tail < x)
    BY <1>0
  <2>3. QED
    BY <1>0, <2>2, ExpectedStep
<1>4. QED
  BY <1>1, <1>2, <1>3

\* The monologs implement EntryList, the list the index of a packet store is made
\* of: places are handed out once, at the end, and each is set once, with the
\* value the append gave it.
THEOREM MonologRefinement == Spec => ImplementsEntryList
<1>1. Init => List!Init
  <2>1. SUFFICES ASSUME Init
                 PROVE  Entries = <<>>
    BY DEF List!Init
  <2>2. tail = 0
    BY <2>1 DEF Init
  <2>3. 1..tail = {}
    BY <2>2
  <2>4. QED
    BY <2>3 DEF Entries
<1>2. MonologInv /\ MonologInv' /\ [Next]_vars => [List!Next]_Entries
  <2>1. SUFFICES ASSUME MonologInv, MonologInv', [Next]_vars
                 PROVE  [List!Next]_Entries
    OBVIOUS
  <2>2. CASE Next
    <3>1. PICK t \in Threads : Push(t)
      BY <2>2 DEF Next
    <3>2. CASE Claim(t)
      BY <2>1, <3>2, ClaimReserves DEF List!Next
    <3>3. CASE Store(t)
      BY <2>1, <3>3, StoreSets DEF List!Next
    <3>4. CASE Load(t) \/ TryAllocate(t) \/ Publish(t)
      BY <2>1, <3>4, OthersStutter
    <3>5. QED
      BY <3>1, <3>2, <3>3, <3>4 DEF Push
  <2>3. CASE UNCHANGED vars
    BY <2>3 DEF vars, Entries, Get, BucketIdx, BucketOff
  <2>4. QED
    BY <2>1, <2>2, <2>3
<1>3. QED
  BY <1>1, <1>2, MonologCorrect, PTL DEF Spec, List!Spec, ImplementsEntryList

=============================================================================
