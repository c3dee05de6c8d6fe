-------------------------- MODULE PacketStoreProofs --------------------------
(***************************************************************************)
(* Proofs about PacketStore for every number of writers, packets, ids and  *)
(* bytes: the layout of a burst, the types, the control of a writer and    *)
(* the ownership of ids; the ownership of the data log's bytes, the        *)
(* contents of stored packets, the buckets, and the theorems about what    *)
(* readers see.                                                            *)
(***************************************************************************)
EXTENDS PacketStoreInvariant, SetInduction, LinearLogProofs

-----------------------------------------------------------------------------
(* The layout of a burst                                                   *)

\* A packet takes at least one byte of the data log: its time stamp.
LEMMA PktBytesType ==
  ASSUME NEW p \in Packets
  PROVE  /\ p.len \in Nat
         /\ PktBytes(p) \in Nat
         /\ PktBytes(p) > 0
BY SizeAssumption, PacketAssumption DEF PktBytes

\* IsLayout(g, ps, m): g holds the running sums of the first m packets of ps.
IsLayout(g, ps, m) ==
  g = [i \in 0..m |-> IF i = 0 THEN 0 ELSE g[i - 1] + PktBytes(ps[i])]

\* Running sums exist for every prefix of a burst.
LEMMA LayoutExists ==
  ASSUME NEW ps \in Seq(Packets)
  PROVE  \E g : IsLayout(g, ps, Len(ps))
<1> DEFINE L == Len(ps)
           S == {m \in 0..L : \E g : IsLayout(g, ps, m)}
<1>1. L \in Nat
  OBVIOUS
<1>2. 0 \in S
  <2> DEFINE g == [i \in 0..0 |-> 0]
  <2>1. IsLayout(g, ps, 0)
    BY DEF IsLayout
  <2>2. QED
    BY <1>1, <2>1
<1>3. ASSUME NEW m \in S, m < L
      PROVE  m + 1 \in S
  <2>1. PICK g : IsLayout(g, ps, m)
    OBVIOUS
  <2> DEFINE h == [i \in 0..(m + 1) |->
                     IF i = m + 1 THEN g[m] + PktBytes(ps[m + 1]) ELSE g[i]]
  <2>2. m \in Nat
    BY <1>1
  <2>3. \A i \in 0..(m + 1) :
           h[i] = IF i = 0 THEN 0 ELSE h[i - 1] + PktBytes(ps[i])
    BY <2>1, <2>2 DEF IsLayout
  <2>4. IsLayout(h, ps, m + 1)
    BY <2>3 DEF IsLayout
  <2>5. QED
    BY <1>1, <1>3, <2>2, <2>4
<1>4. L \in S
  <2> HIDE DEF S, L
  <2>1. S \in SUBSET (0..L)
    BY DEF S
  <2>2. QED
    BY <1>1, <1>2, <1>3, <2>1, SegmentInduction
<1>5. QED
  BY <1>4

\* Layout is the running sum it is defined to be.
LEMMA LayoutDef ==
  ASSUME NEW ps \in Seq(Packets)
  PROVE  IsLayout(Layout(ps), ps, Len(ps))
<1> DEFINE P(g) == g = [i \in 0..Len(ps) |->
                          IF i = 0 THEN 0 ELSE g[i - 1] + PktBytes(ps[i])]
<1>1. Layout(ps) = CHOOSE g : P(g)
  BY DEF Layout
<1>2. \E g : P(g)
  BY LayoutExists DEF IsLayout
<1>3. P(CHOOSE g : P(g))
  <2> HIDE DEF P
  <2> QED
    BY <1>2
<1>4. QED
  BY <1>1, <1>3 DEF IsLayout

\* Its values are natural numbers that start at zero and grow by each packet.
LEMMA LayoutType ==
  ASSUME NEW ps \in Seq(Packets)
  PROVE  /\ Layout(ps) \in [0..Len(ps) -> Nat]
         /\ Layout(ps)[0] = 0
         /\ \A m \in 1..Len(ps) : Layout(ps)[m] = Layout(ps)[m - 1] + PktBytes(ps[m])
<1> DEFINE L == Len(ps)
           lay == Layout(ps)
           S == {m \in 0..L : lay[m] \in Nat}
<1>1. L \in Nat
  OBVIOUS
<1>2. lay = [i \in 0..L |-> IF i = 0 THEN 0 ELSE lay[i - 1] + PktBytes(ps[i])]
  BY LayoutDef DEF IsLayout
<1>3. lay[0] = 0
  BY <1>1, <1>2
<1>4. \A m \in 1..L : lay[m] = lay[m - 1] + PktBytes(ps[m])
  BY <1>1, <1>2
<1>5. \A m \in 1..L : PktBytes(ps[m]) \in Nat
  BY PktBytesType
<1>6. S = 0..L
  <2>1. /\ S \in SUBSET (0..L)
        /\ 0 \in S
    BY <1>1, <1>3
  <2>2. ASSUME NEW j \in S, j < L
        PROVE  j + 1 \in S
    <3>1. j + 1 \in 1..L /\ j + 1 - 1 = j
      BY <1>1, <2>2
    <3>2. lay[j + 1] = lay[j] + PktBytes(ps[j + 1])
      BY <1>4, <3>1
    <3>3. QED
      BY <1>5, <3>1, <3>2
  <2> HIDE DEF S, L
  <2>3. QED
    BY <1>1, <2>1, <2>2, SegmentCovered
<1>7. lay \in [0..L -> Nat]
  <2> HIDE DEF lay, L
  <2>1. lay = [i \in 0..L |-> lay[i]]
    BY <1>2
  <2>2. QED
    BY <1>6, <2>1
<1>8. QED
  BY <1>3, <1>4, <1>7

\* A function that does not decrease from one index to the next is monotone.
LEMMA StepwiseMonotone ==
  ASSUME NEW L \in Nat, NEW g \in [0..L -> Nat],
         \A m \in 0..(L - 1) : g[m] <= g[m + 1],
         NEW a \in 0..L, NEW b \in a..L
  PROVE  g[a] <= g[b]
<1> DEFINE S == {d \in 0..(b - a) : g[a] <= g[a + d]}
<1>1. b - a \in Nat
  OBVIOUS
<1>2. S \in SUBSET (0..(b - a))
  OBVIOUS
<1>3. 0 \in S
  <2>1. a + 0 = a
    OBVIOUS
  <2>2. QED
    BY <1>1, <2>1
<1>4. ASSUME NEW d \in S, d < b - a
      PROVE  d + 1 \in S
  <2>1. a + d \in 0..(L - 1) /\ a + (d + 1) = (a + d) + 1
    BY <1>4
  <2>2. g[a + d] <= g[a + (d + 1)]
    BY <2>1
  <2>3. g[a] \in Nat /\ g[a + d] \in Nat /\ g[a + (d + 1)] \in Nat
    BY <2>1
  <2>4. g[a] <= g[a + (d + 1)]
    BY <2>2, <2>3
  <2>5. QED
    BY <1>4, <2>4
<1>5. b - a \in S
  <2> HIDE DEF S
  <2> QED
    BY <1>1, <1>2, <1>3, <1>4, SegmentInduction
<1>6. g[a] <= g[a + (b - a)] /\ a + (b - a) = b
  BY <1>5
<1>7. QED
  BY <1>6

\* The bytes before a packet never exceed the bytes before a later one.
LEMMA LayoutMonotone ==
  ASSUME NEW ps \in Seq(Packets), NEW a \in 0..Len(ps), NEW b \in a..Len(ps)
  PROVE  Layout(ps)[a] <= Layout(ps)[b]
<1>1. Layout(ps) \in [0..Len(ps) -> Nat] /\ Len(ps) \in Nat
  BY LayoutType
<1>2. ASSUME NEW m \in 0..(Len(ps) - 1)
      PROVE  Layout(ps)[m] <= Layout(ps)[m + 1]
  <2>1. m + 1 \in 1..Len(ps) /\ (m + 1) - 1 = m
    OBVIOUS
  <2>2. Layout(ps)[m + 1] = Layout(ps)[m] + PktBytes(ps[m + 1])
    BY <2>1, LayoutType
  <2>3. ps[m + 1] \in Packets
    BY <2>1
  <2>4. PktBytes(ps[m + 1]) \in Nat /\ Layout(ps)[m] \in Nat
    BY <1>1, <2>3, PktBytesType
  <2>5. QED
    BY <2>2, <2>4
<1>3. QED
  BY <1>1, <1>2, StepwiseMonotone

-----------------------------------------------------------------------------
(* Types                                                                   *)

\* Every burst a poll can return is a sequence of packets.
LEMMA BurstsType == Bursts \subseteq Seq(Packets)
BY BurstAssumption DEF Bursts

\* Every move of the control of insert_pktburst keeps its type.
LEMMA MoveType ==
  ASSUME ControlType, NEW w \in Writers
  PROVE  /\ \A c \in Nat : ToChar(w, c) \/ ToKey(w, c) => ControlType'
         /\ \A l \in Pcs : ToLabel(w, l) => ControlType'
<1>1. ASSUME NEW c \in Nat, ToChar(w, c) PROVE ControlType'
  BY <1>1 DEF ToChar, ControlType, Pcs
<1>2. ASSUME NEW c \in Nat, ToKey(w, c) PROVE ControlType'
  BY <1>2 DEF ToKey, ControlType, Pcs
<1>3. ASSUME NEW l \in Pcs, ToLabel(w, l) PROVE ControlType'
  BY <1>3 DEF ToLabel, ControlType
<1>4. QED
  BY <1>1, <1>2, <1>3

\* The heads of the loops over characters and packets keep the control type.
LEMMA NextCharType ==
  ASSUME ControlType, NEW w \in Writers, NEW c \in Nat, NEW m
  PROVE  NextChar(w, c, m) \/ NextPkt(w, m) => ControlType'
<1>1. "end" \in Pcs /\ 1 \in Nat
  BY DEF Pcs
<1>2. QED
  BY <1>1, MoveType DEF NextChar, NextPkt

\* So does the move a writer makes once a push on a list is done.
LEMMA AfterPushType ==
  ASSUME ControlType, NEW w \in Writers, AfterPush(w)
  PROVE  ControlType'
<1>1. "set_offlen" \in Pcs
  BY DEF Pcs
<1>2. k[w] + 1 \in Nat
  BY DEF ControlType
<1>3. QED
  BY <1>1, <1>2, MoveType, NextCharType DEF AfterPush

\* A burst asks request_bytes for a natural number of bytes.
LEMMA NumBytesType ==
  ASSUME BurstType, NEW w \in Writers
  PROVE  NumBytes(pkts[w]) \in Nat
<1>1. pkts[w] \in Seq(Packets)
  BY DEF BurstType
<1>2. QED
  BY <1>1, LayoutType DEF NumBytes

\* The empty store has its type.
LEMMA TypeInit ==
  ASSUME Init
  PROVE  TypeOK
<1>1. ControlType /\ IdType /\ OfflenType /\ DataType /\ ListType
  BY DEF Init, ControlType, IdType, OfflenType, DataType, ListType, Pcs
<1>2. BurstType
  BY BoundAssumption DEF Init, BurstType
<1>3. CharType
  BY BoundAssumption DEF Init, CharType, Idle, NoChar
<1>4. QED
  BY <1>1, <1>2, <1>3 DEF TypeOK

\* The packet and id a writer is about to write.
LEMMA CurrentPacket ==
  ASSUME TypeOK, ControlInv, NEW w \in Writers, pc[w] \in {"set_offlen", "append"}
  PROVE  /\ Cur(w) = n[w] + 1
         /\ Cur(w) \in 1..Len(pkts[w])
         /\ CurPkt(w) = pkts[w][n[w] + 1]
         /\ CurPkt(w) \in Packets
         /\ CurPkt(w).len \in Nat
         /\ PktBytes(CurPkt(w)) \in Nat
         /\ CurId(w) = start_id[w] + n[w]
         /\ CurId(w) \in Nat
<1>1. phase[w] = "key" /\ n[w] < Len(pkts[w])
  BY DEF ControlInv, ControlOf
<1>2. n[w] \in Nat /\ start_id[w] \in Nat /\ pkts[w] \in Seq(Packets)
  BY DEF TypeOK, BurstType
<1>3. Cur(w) = n[w] + 1 /\ Cur(w) \in 1..Len(pkts[w])
  BY <1>1, <1>2 DEF Cur
<1>4. CurPkt(w) = pkts[w][n[w] + 1] /\ CurPkt(w) \in Packets
  BY <1>2, <1>3 DEF CurPkt
<1>5. CurPkt(w).len \in Nat /\ PktBytes(CurPkt(w)) \in Nat
  BY <1>4, PktBytesType
<1>6. CurId(w) = start_id[w] + n[w] /\ CurId(w) \in Nat
  BY <1>2, <1>3 DEF CurId
<1>7. QED
  BY <1>3, <1>4, <1>5, <1>6

\* Reserving entries of a list and setting one keep the lists' type.
LEMMA ReserveType ==
  ASSUME ListType, NEW key, NEW count \in Nat, reserve(key, count)
  PROVE  ListType'
<1> DEFINE S == Nat \cup {Unset}
           fresh == [j \in 1..count |-> Unset]
<1>1. fresh \in Seq(S)
  OBVIOUS
<1>2. DOMAIN lists' = DOMAIN lists /\ lists' = [x \in DOMAIN lists' |-> lists'[x]]
  BY DEF reserve
<1>3. ASSUME NEW x \in DOMAIN lists
      PROVE  lists'[x] \in Seq(S)
  <2>1. lists[x] \in Seq(S)
    BY DEF ListType
  <2>2. lists[x] \o fresh \in Seq(S)
    BY <1>1, <2>1
  <2>3. lists'[x] = IF x = key THEN lists[x] \o fresh ELSE lists[x]
    BY DEF reserve
  <2>4. QED
    BY <2>1, <2>2, <2>3
<1>4. QED
  BY <1>2, <1>3 DEF ListType

\* Setting one reserved entry of a list keeps the type of the lists.
LEMMA SetEntryType ==
  ASSUME ListType, NEW key, NEW idx \in Nat, NEW val \in Nat, set_entry(key, idx, val)
  PROVE  ListType'
<1> DEFINE S == Nat \cup {Unset}
<1>1. DOMAIN lists' = DOMAIN lists /\ lists' = [x \in DOMAIN lists' |-> lists'[x]]
  BY DEF set_entry
<1>2. ASSUME NEW x \in DOMAIN lists
      PROVE  lists'[x] \in Seq(S)
  <2>1. lists[x] \in Seq(S)
    BY DEF ListType
  <2>2. [lists[x] EXCEPT ![idx + 1] = val] \in Seq(S)
    <3> DEFINE s == lists[x]
               t == [s EXCEPT ![idx + 1] = val]
    <3>1. s \in [1..Len(s) -> S] /\ Len(s) \in Nat
      BY <2>1
    <3>2. t \in [1..Len(s) -> S]
      BY <3>1
    <3>3. QED
      BY <3>1, <3>2
  <2>3. lists'[x] = IF x = key THEN [lists[x] EXCEPT ![idx + 1] = val] ELSE lists[x]
    BY DEF set_entry
  <2>4. QED
    BY <2>1, <2>2, <2>3
<1>3. QED
  BY <1>1, <1>2 DEF ListType

\* The cells a memcpy touches are addresses.
LEMMA RunType ==
  ASSUME NEW offset \in Nat, NEW len \in Nat
  PROVE  Run(offset, len, BlockSize) \subseteq Nat \X Nat
<1>1. offset \div BlockSize \in Nat /\ offset % BlockSize \in Nat
  BY SizeAssumption
<1>2. QED
  BY <1>1 DEF Run, Addr, BucketIdx, BucketOff

\* append_pkt writes only cells with an address.
LEMMA AppendType ==
  ASSUME DataType, NEW offset \in Nat, NEW t, NEW p, PktBytes(p) \in Nat,
         append_pkt(offset, t, p), UNCHANGED <<dtail, data_buckets>>
  PROVE  DataType'
BY RunType DEF append_pkt, DataType

\* The id a push puts on a list is a natural number.
LEMMA FirstValType ==
  ASSUME TypeOK, ControlInv, NEW w \in Writers, pc[w] \in {"get", "reserve", "fill"}
  PROVE  FirstVal(w) \in Nat
<1>1. n[w] \in Nat /\ start_id[w] \in Nat /\ Len(pkts[w]) \in Nat
  BY DEF TypeOK, BurstType
<1>2. phase[w] = "char" => n[w] \in 1..Len(pkts[w])
  BY DEF ControlInv, ControlOf
<1>3. QED
  BY <1>1, <1>2 DEF FirstVal, CurId, Cur

\* The buckets ensure_alloc visits have natural numbers.
LEMMA BucketsType ==
  ASSUME NEW i \in Nat, NEW j \in Nat, NEW size \in Nat \ {0}
  PROVE  Buckets(i, j, size) \subseteq Nat
<1>1. i \div size \in Nat /\ j \div size \in Nat
  OBVIOUS
<1>2. QED
  BY <1>1 DEF Buckets, BucketIdx

\* Every step of writers, adders and clock keeps the type invariant.
LEMMA TypeStep ==
  ASSUME TypeOK, IdInv, ControlInv, [Next]_vars
  PROVE  TypeOK'
<1>1. ASSUME NEW w \in Writers, Poll(w)
      PROVE  TypeOK'
  <2>1. ControlType'
    BY <1>1 DEF Poll, Goto, TypeOK, ControlType, Pcs
  <2>2. BurstType'
    BY <1>1, BurstsType DEF Poll, TypeOK, BurstType, CharType
  <2>3. QED
    BY <1>1, <2>1, <2>2
    DEF Poll, shared, TypeOK,
        IdType, OfflenType, DataType, ListType, CharType
<1>2. ASSUME NEW w \in Writers, ClaimIds(w)
      PROVE  TypeOK'
  <2>1. ControlType'
    BY <1>2 DEF ClaimIds, Goto, TypeOK, ControlType, Pcs
  <2>2. BurstType'
    BY <1>2 DEF ClaimIds, TypeOK, BurstType, IdType
  <2>3. IdType'
    <3>1. Len(pkts[w]) \in Nat /\ pkts[w] \in Seq(Packets) /\ now[w] \in Nat
          /\ known[w] \in SUBSET Nat
      BY DEF TypeOK, BurstType
    <3>2. /\ current_write_id' = current_write_id + Len(pkts[w])
          /\ UNCHANGED <<current_read_id, id_buckets>>
      BY <1>2 DEF ClaimIds, claim_ids
    <3> DEFINE new(id) == [ts |-> now[w], chars |-> known[w],
                           pkt |-> pkts[w][id - current_write_id + 1]]
    <3>3. accepted' = [id \in 0..(current_write_id' - 1) |->
                         IF id < current_write_id THEN accepted[id] ELSE new(id)]
      BY <1>2, <3>2 DEF ClaimIds
    <3>4. ASSUME NEW id \in 0..(current_write_id' - 1)
          PROVE  (IF id < current_write_id THEN accepted[id] ELSE new(id)) \in Accepted
      <4>1. CASE id < current_write_id
        BY <4>1 DEF TypeOK, IdType
      <4>2. CASE ~(id < current_write_id)
        <5>1. id - current_write_id + 1 \in 1..Len(pkts[w])
          BY <3>1, <3>2, <4>2 DEF TypeOK, IdType
        <5>2. pkts[w][id - current_write_id + 1] \in Packets
          BY <3>1, <5>1
        <5>3. new(id) \in Accepted
          BY <3>1, <5>2 DEF Accepted
        <5>4. QED
          BY <4>2, <5>3
      <4>3. QED
        BY <4>1, <4>2
    <3> HIDE DEF new
    <3>5. QED
      BY <3>1, <3>2, <3>3, <3>4 DEF TypeOK, IdType
  <2>4. QED
    BY <1>2, <2>1, <2>2, <2>3
    DEF ClaimIds, TypeOK,
        OfflenType, DataType, ListType, CharType
<1>3. ASSUME NEW w \in Writers, AllocIds(w)
      PROVE  TypeOK'
  <2>1. ControlType'
    BY <1>3 DEF AllocIds, Goto, TypeOK, ControlType, Pcs
  <2>2. IdType'
    <3>1. start_id[w] \in Nat /\ Len(pkts[w]) \in Nat
      BY DEF TypeOK, BurstType
    <3>2. id_buckets' \subseteq Nat
      <4>1. Buckets(start_id[w], start_id[w] + Len(pkts[w]), IdBlockSize) \subseteq Nat
        BY <3>1, SizeAssumption, BucketsType
      <4>2. QED
        BY <1>3, <4>1 DEF AllocIds, ensure_alloc_ids, TypeOK, IdType
    <3>3. QED
      BY <1>3, <3>2 DEF AllocIds, TypeOK, IdType
  <2>3. QED
    BY <1>3, <2>1, <2>2
    DEF AllocIds, TypeOK,
        BurstType, OfflenType, DataType, ListType, CharType
<1>4. ASSUME NEW w \in Writers, ClaimBytes(w)
      PROVE  TypeOK'
  <2>1. ControlType'
    BY <1>4 DEF ClaimBytes, Goto, TypeOK, ControlType, Pcs
  <2>2. BurstType'
    BY <1>4 DEF ClaimBytes, TypeOK, BurstType, DataType
  <2>3. DataType'
    <3>1. NumBytes(pkts[w]) \in Nat
      BY NumBytesType DEF TypeOK
    <3>2. QED
      BY <1>4, <3>1 DEF ClaimBytes, claim_bytes, TypeOK, DataType
  <2>4. QED
    BY <1>4, <2>1, <2>2, <2>3
    DEF ClaimBytes, TypeOK,
        IdType, OfflenType, ListType, CharType
<1>5. ASSUME NEW w \in Writers, AllocBytes(w)
      PROVE  TypeOK'
  <2>1. ControlType'
    BY <1>5 DEF AllocBytes, Goto, TypeOK, ControlType, Pcs
  <2>2. DataType'
    <3>1. NumBytes(pkts[w]) \in Nat /\ off[w] \in Nat
      BY NumBytesType DEF TypeOK, BurstType
    <3>2. data_buckets' \subseteq Nat
      <4>1. Buckets(off[w], off[w] + NumBytes(pkts[w]), BlockSize) \subseteq Nat
        BY <3>1, SizeAssumption, BucketsType
      <4>2. QED
        BY <1>5, <4>1 DEF AllocBytes, ensure_alloc_bytes, TypeOK, DataType
    <3>3. QED
      BY <1>5, <3>2 DEF AllocBytes, TypeOK, DataType
  <2>3. QED
    BY <1>5, <2>1, <2>2
    DEF AllocBytes, TypeOK,
        BurstType, IdType, OfflenType, ListType, CharType
<1>6. ASSUME NEW w \in Writers, LoadFilters(w)
      PROVE  TypeOK'
  <2>1. ControlType'
    BY <1>6 DEF LoadFilters, Goto, TypeOK, ControlType, Pcs
  <2>2. BurstType'
    BY <1>6 DEF LoadFilters, TypeOK, BurstType, CharType
  <2>3. QED
    BY <1>6, <2>1, <2>2
    DEF LoadFilters, shared, TypeOK,
        IdType, OfflenType, DataType, ListType, CharType
<1>7. ASSUME NEW w \in Writers, GetList(w)
      PROVE  TypeOK'
  <2>1. ControlType'
    BY <1>7 DEF GetList, Goto, TypeOK, ControlType, Pcs
  <2>2. ListType'
    BY <1>7 DEF GetList, get_list, TypeOK, ListType
  <2>3. QED
    BY <1>7, <2>1, <2>2
    DEF GetList, TypeOK,
        BurstType, IdType, OfflenType, DataType, CharType
<1>8. ASSUME NEW w \in Writers, Reserve(w)
      PROVE  TypeOK'
  <2>1. ControlType'
    BY <1>8, AfterPushType, MoveType DEF Reserve, TypeOK, Pcs
  <2>2. BurstType'
    BY <1>8 DEF Reserve, TypeOK, BurstType, ListType
  <2>3. ListType'
    BY <1>8, ReserveType DEF Reserve, Count, TypeOK, BurstType
  <2>4. QED
    BY <1>8, <2>1, <2>2, <2>3
    DEF Reserve, TypeOK,
        IdType, OfflenType, DataType, CharType
<1>9. ASSUME NEW w \in Writers, Fill(w)
      PROVE  TypeOK'
  <2>1. ControlType'
    BY <1>9, AfterPushType, MoveType DEF Fill, TypeOK, Pcs
  <2>2. BurstType'
    BY <1>9 DEF Fill, TypeOK, BurstType
  <2>3. ListType'
    <3>1. slot[w] + f[w] \in Nat
      BY DEF TypeOK, BurstType
    <3>2. FirstVal(w) + f[w] \in Nat
      <4>1. FirstVal(w) \in Nat
        BY <1>9, FirstValType DEF Fill
      <4>2. f[w] \in Nat
        BY DEF TypeOK, BurstType
      <4>3. QED
        BY <4>1, <4>2
    <3>3. QED
      BY <1>9, <3>1, <3>2, SetEntryType DEF Fill, TypeOK
  <2>4. QED
    BY <1>9, <2>1, <2>2, <2>3
    DEF Fill, TypeOK,
        IdType, OfflenType, DataType, CharType
<1>10. ASSUME NEW w \in Writers, SetOffLen(w)
      PROVE  TypeOK'
  <2>1. ControlType'
    BY <1>10 DEF SetOffLen, Goto, TypeOK, ControlType, Pcs
  <2>2. OfflenType'
    BY <1>10, CurrentPacket
    DEF SetOffLen, Goto, set_without_alloc, TypeOK, OfflenType, BurstType
  <2>3. QED
    BY <1>10, <2>1, <2>2
    DEF SetOffLen, TypeOK,
        BurstType, IdType, DataType, ListType, CharType
<1>11. ASSUME NEW w \in Writers, AppendPkt(w)
      PROVE  TypeOK'
  <2>1. ControlType'
    BY <1>11, NextCharType DEF AppendPkt, TypeOK
  <2>2. BurstType'
    <3>1. PktBytes(CurPkt(w)) \in Nat
      BY <1>11, CurrentPacket DEF AppendPkt
    <3>2. off' \in [Writers -> Nat] /\ n' \in [Writers -> Nat]
      BY <1>11, <3>1 DEF AppendPkt, TypeOK, BurstType
    <3>3. QED
      BY <1>11, <3>2 DEF AppendPkt, TypeOK, BurstType
  <2>3. DataType'
    BY <1>11, AppendType, CurrentPacket DEF AppendPkt, TypeOK, BurstType
  <2>4. QED
    BY <1>11, <2>1, <2>2, <2>3
    DEF AppendPkt, TypeOK,
        IdType, OfflenType, ListType, CharType
<1>12. ASSUME NEW w \in Writers, Apply(w)
      PROVE  TypeOK'
  <2>1. ControlType'
    BY <1>12, NextCharType, MoveType DEF Apply, TypeOK, ControlType, Pcs
  <2>2. QED
    BY <1>12, <2>1
    DEF Apply, shared, TypeOK,
        BurstType, IdType, OfflenType, DataType, ListType, CharType
<1>13. ASSUME NEW w \in Writers, End(w)
      PROVE  TypeOK'
  <2>1. ControlType'
    BY <1>13 DEF End, Goto, TypeOK, ControlType, Pcs
  <2>2. BurstType'
    BY <1>13, BoundAssumption DEF End, TypeOK, BurstType
  <2>3. IdType'
    <3>1. start_id[w] \in Nat /\ Len(pkts[w]) \in Nat
      BY DEF TypeOK, BurstType
    <3>2. HasIds(w)
      BY <1>13 DEF End, Goto, HasIds
    <3>3. start_id[w] + Len(pkts[w]) <= current_write_id
      BY <3>2 DEF IdInv, IdsOf
    <3>4. QED
      BY <1>13, <3>1, <3>3 DEF End, end, TypeOK, IdType
  <2>4. QED
    BY <1>13, <2>1, <2>2, <2>3
    DEF End, TypeOK,
        OfflenType, DataType, ListType, CharType
<1>14. ASSUME NEW a \in Adders, ClaimChar(a)
      PROVE  TypeOK'
  <2>1. CharType'
    BY <1>14, FilterAssumption, BoundAssumption DEF ClaimChar, TypeOK, CharType, NoChar
  <2>2. QED
    BY <1>14, <2>1
    DEF ClaimChar, locals, TypeOK,
        ControlType, BurstType, IdType, OfflenType, DataType, ListType
<1>15. ASSUME NEW a \in Adders, AssignChar(a)
      PROVE  TypeOK'
  <2>1. CharType'
    BY <1>15 DEF AssignChar, TypeOK, CharType, Idle, NoChar
  <2>2. QED
    BY <1>15, <2>1
    DEF AssignChar, locals, TypeOK,
        ControlType, BurstType, IdType, OfflenType, DataType, ListType
<1>16. CASE Tick
  BY <1>16 DEF Tick, locals, TypeOK, ControlType, BurstType, IdType, OfflenType,
               DataType, ListType, CharType
<1>17. CASE UNCHANGED vars
  BY <1>17 DEF vars, shared, locals, TypeOK, ControlType, BurstType, IdType,
               OfflenType, DataType, ListType, CharType
<1>18. QED
  BY <1>1, <1>2, <1>3, <1>4, <1>5, <1>6, <1>7, <1>8, <1>9, <1>10, <1>11, <1>12,
     <1>13, <1>14, <1>15, <1>16, <1>17 DEF Next, Writer

-----------------------------------------------------------------------------
(* A writer's step leaves the locals of the other writers alone            *)

SameLocals(v) ==
  /\ pc'[v] = pc[v] /\ phase'[v] = phase[v] /\ pkts'[v] = pkts[v]
  /\ now'[v] = now[v] /\ start_id'[v] = start_id[v] /\ off'[v] = off[v]
  /\ n'[v] = n[v] /\ known'[v] = known[v]

\* A move of the control of one writer leaves the other writers where they are.
LEMMA MoveLocality ==
  ASSUME ControlType, NEW w \in Writers, NEW v \in Writers, v # w
  PROVE  /\ \A l : ToLabel(w, l) => pc'[v] = pc[v] /\ phase'[v] = phase[v]
         /\ \A c, m : NextChar(w, c, m) => pc'[v] = pc[v] /\ phase'[v] = phase[v]
         /\ AfterPush(w) => pc'[v] = pc[v] /\ phase'[v] = phase[v]
<1>1. \A l : ToLabel(w, l) => pc'[v] = pc[v] /\ phase'[v] = phase[v]
  BY DEF ToLabel, ControlType
<1>2. \A c : ToChar(w, c) \/ ToKey(w, c) => pc'[v] = pc[v] /\ phase'[v] = phase[v]
  BY DEF ToChar, ToKey, ControlType
<1>3. \A m : NextPkt(w, m) => pc'[v] = pc[v] /\ phase'[v] = phase[v]
  BY <1>1, <1>2 DEF NextPkt
<1>4. \A c, m : NextChar(w, c, m) => pc'[v] = pc[v] /\ phase'[v] = phase[v]
  BY <1>2, <1>3 DEF NextChar
<1>5. QED
  BY <1>1, <1>2, <1>3, <1>4 DEF AfterPush

\* A step of one writer changes no local of another.
LEMMA Locality ==
  ASSUME TypeOK, NEW w \in Writers, Writer(w), NEW v \in Writers, v # w
  PROVE  SameLocals(v)
<1>1. CASE Poll(w)
  BY <1>1 DEF Poll, Goto, shared, TypeOK, ControlType, BurstType, SameLocals
<1>2. CASE ClaimIds(w)
  BY <1>2 DEF ClaimIds, Goto, TypeOK, ControlType, BurstType, SameLocals
<1>3. CASE AllocIds(w)
  BY <1>3 DEF AllocIds, Goto, TypeOK, ControlType, BurstType, SameLocals
<1>4. CASE ClaimBytes(w)
  BY <1>4 DEF ClaimBytes, Goto, TypeOK, ControlType, BurstType, SameLocals
<1>5. CASE AllocBytes(w)
  BY <1>5 DEF AllocBytes, Goto, TypeOK, ControlType, BurstType, SameLocals
<1>6. CASE LoadFilters(w)
  BY <1>6 DEF LoadFilters, Goto, shared, TypeOK, ControlType, BurstType, SameLocals
<1>7. CASE GetList(w)
  BY <1>7 DEF GetList, Goto, TypeOK, ControlType, BurstType, SameLocals
<1>8. CASE Reserve(w)
  BY <1>8, MoveLocality DEF Reserve, TypeOK, ControlType, BurstType, SameLocals
<1>9. CASE Fill(w)
  BY <1>9, MoveLocality DEF Fill, TypeOK, ControlType, BurstType, SameLocals
<1>10. CASE SetOffLen(w)
  BY <1>10 DEF SetOffLen, Goto, TypeOK, ControlType, BurstType, SameLocals
<1>11. CASE AppendPkt(w)
  BY <1>11, MoveLocality DEF AppendPkt, TypeOK, ControlType, BurstType, SameLocals
<1>12. CASE Apply(w)
  BY <1>12, MoveLocality DEF Apply, shared, TypeOK, ControlType, BurstType, SameLocals
<1>13. CASE End(w)
  BY <1>13 DEF End, Goto, TypeOK, ControlType, BurstType, SameLocals
<1>14. QED
  BY <1>1, <1>2, <1>3, <1>4, <1>5, <1>6, <1>7, <1>8, <1>9, <1>10, <1>11, <1>12, <1>13 DEF Writer

-----------------------------------------------------------------------------
(* Control                                                                 *)

\* Where the moves of the control leave the writer that makes them.
LEMMA MoveSelf ==
  ASSUME ControlType, NEW w \in Writers
  PROVE  /\ \A l : ToLabel(w, l) => pc'[w] = l /\ phase'[w] = phase[w]
         /\ \A c : ToChar(w, c) => pc'[w] = "apply" /\ phase'[w] = "char"
         /\ \A c : ToKey(w, c) => pc'[w] = "get" /\ phase'[w] = "key"
BY DEF ToLabel, ToChar, ToKey, ControlType

\* Once m packets are done the control is consistent with n' = m.
LEMMA NextCharControl ==
  ASSUME TypeOK, NEW w \in Writers, NEW c, NEW m \in 0..Len(pkts[w]),
         NextPkt(w, m) \/ (NextChar(w, c, m) /\ m > 0),
         n'[w] = m, pkts'[w] = pkts[w]
  PROVE  ControlOf(w)'
<1>1. Len(pkts[w]) \in Nat
  BY DEF TypeOK, BurstType
<1>2. CASE m < Len(pkts[w]) /\ ToKey(w, 1)
  BY <1>1, <1>2, MoveSelf DEF TypeOK, ControlOf
<1>3. CASE m = Len(pkts[w]) /\ ToLabel(w, "end")
  BY <1>1, <1>3, MoveSelf DEF TypeOK, ControlOf
<1>4. CASE m > 0 /\ ToChar(w, c)
  BY <1>1, <1>4, MoveSelf DEF TypeOK, ControlOf
<1>5. QED
  BY <1>2, <1>3, <1>4 DEF NextPkt, NextChar

\* After a push the program counter agrees with the packets done.
LEMMA AfterPushControl ==
  ASSUME TypeOK, ControlInv, NEW w \in Writers, AfterPush(w),
         pc[w] \in {"reserve", "fill"}, n'[w] = n[w], pkts'[w] = pkts[w]
  PROVE  ControlOf(w)'
<1>1. Len(pkts[w]) \in Nat /\ n[w] \in Nat
  BY DEF TypeOK, BurstType
<1>2. \/ phase[w] = "time" /\ n[w] = 0
      \/ phase[w] = "key" /\ n[w] < Len(pkts[w])
      \/ phase[w] = "char" /\ n[w] \in 1..Len(pkts[w])
  BY DEF ControlInv, ControlOf
<1>3. CASE phase[w] = "time" /\ NextPkt(w, 0)
  BY <1>1, <1>2, <1>3, NextCharControl
<1>4. CASE phase[w] = "key" /\ ToKey(w, k[w] + 1)
  BY <1>1, <1>2, <1>4, MoveSelf DEF TypeOK, ControlOf
<1>5. CASE phase[w] = "key" /\ ToLabel(w, "set_offlen")
  BY <1>1, <1>2, <1>5, MoveSelf DEF TypeOK, ControlOf
<1>6. CASE phase[w] = "char" /\ NextChar(w, k[w] + 1, n[w])
  BY <1>1, <1>2, <1>6, NextCharControl
<1>7. QED
  BY <1>3, <1>4, <1>5, <1>6 DEF AfterPush

\* Every step keeps program counters and loop variables in agreement.
LEMMA ControlStep ==
  ASSUME TypeOK, ControlInv, [Next]_vars
  PROVE  ControlInv'
<1>1. ASSUME NEW w \in Writers, Writer(w)
      PROVE  ControlOf(w)'
  <2>1. /\ pc[w] \in Pcs /\ pc \in [Writers -> Pcs] /\ n[w] \in Nat
        /\ n \in [Writers -> Nat] /\ phase \in [Writers -> {"time", "key", "char"}]
        /\ pkts \in [Writers -> Seq(Packets)] /\ Len(pkts[w]) \in Nat
    BY DEF TypeOK, ControlType, BurstType
  <2>2. ControlOf(w)
    BY DEF ControlInv
  <2>3. CASE Poll(w) \/ ClaimIds(w) \/ AllocIds(w)
    BY <2>1, <2>3 DEF Poll, ClaimIds, AllocIds, Goto, ControlOf
  <2>4. CASE ClaimBytes(w) \/ AllocBytes(w)
    BY <2>1, <2>2, <2>4 DEF ClaimBytes, AllocBytes, Goto, ControlOf
  <2>5. CASE LoadFilters(w) \/ GetList(w)
    BY <2>1, <2>2, <2>5 DEF LoadFilters, GetList, Goto, ControlOf
  <2>6. CASE Reserve(w)
    <3>1. n' = n /\ pkts' = pkts /\ pc[w] = "reserve"
      BY <2>6 DEF Reserve
    <3>2. CASE AfterPush(w)
      BY <3>1, <3>2, AfterPushControl
    <3>3. CASE ToLabel(w, "fill")
      BY <2>2, <3>1, <3>3, MoveSelf DEF TypeOK, ControlOf
    <3>4. QED
      BY <2>6, <3>2, <3>3 DEF Reserve
  <2>7. CASE Fill(w)
    <3>1. n' = n /\ pkts' = pkts /\ pc[w] = "fill"
      BY <2>7 DEF Fill
    <3>2. CASE AfterPush(w)
      BY <3>1, <3>2, AfterPushControl
    <3>3. CASE ToLabel(w, "fill")
      BY <2>2, <3>1, <3>3, MoveSelf DEF TypeOK, ControlOf
    <3>4. QED
      BY <2>7, <3>2, <3>3 DEF Fill
  <2>8. CASE SetOffLen(w)
    BY <2>1, <2>2, <2>8 DEF SetOffLen, Goto, ControlOf
  <2>9. CASE AppendPkt(w)
    <3>1. n'[w] = n[w] + 1 /\ pkts' = pkts /\ n[w] + 1 \in 1..Len(pkts[w])
      BY <2>1, <2>2, <2>9 DEF AppendPkt, ControlOf
    <3>2. QED
      BY <2>1, <2>9, <3>1, NextCharControl DEF AppendPkt
  <2>10. CASE Apply(w)
    <3>1. /\ n' = n /\ pkts' = pkts /\ pc[w] = "apply"
          /\ phase[w] = "char" /\ n[w] \in 1..Len(pkts[w])
      BY <2>2, <2>10 DEF Apply, ControlOf
    <3>2. CASE ToLabel(w, "get")
      BY <2>1, <3>1, <3>2, MoveSelf DEF TypeOK, ControlOf
    <3>3. CASE NextChar(w, k[w] + 1, n[w])
      BY <2>1, <3>1, <3>3, NextCharControl
    <3>4. QED
      BY <2>10, <3>2, <3>3 DEF Apply
  <2>11. CASE End(w)
    BY <2>1, <2>11 DEF End, Goto, ControlOf
  <2>12. QED
    BY <1>1, <2>3, <2>4, <2>5, <2>6, <2>7, <2>8, <2>9, <2>10, <2>11 DEF Writer
<1>2. ASSUME NEW w \in Writers, Writer(w)
      PROVE  ControlInv'
  <2>1. ASSUME NEW v \in Writers, v # w
        PROVE  ControlOf(v)'
    BY <1>2, <2>1, Locality DEF SameLocals, ControlInv, ControlOf
  <2>2. QED
    BY <1>1, <1>2, <2>1 DEF ControlInv
<1>3. CASE UNCHANGED locals
  BY <1>3 DEF locals, ControlInv, ControlOf
<1>4. QED
  BY <1>2, <1>3 DEF Next, ClaimChar, AssignChar, Tick, vars

-----------------------------------------------------------------------------
(* Ids                                                                     *)

\* After a push or a packet the writer is in one of the loops or at their end.
LEMMA MovePc ==
  ASSUME ControlType, NEW w \in Writers
  PROVE  /\ \A c, m : NextChar(w, c, m) => pc'[w] \in {"apply", "get", "end"}
         /\ AfterPush(w) => pc'[w] \in {"apply", "get", "end", "set_offlen"}
<1>1. \A m : NextPkt(w, m) => pc'[w] \in {"get", "end"}
  BY MoveSelf DEF NextPkt
<1>2. \A c, m : NextChar(w, c, m) => pc'[w] \in {"apply", "get", "end"}
  BY <1>1, MoveSelf DEF NextChar
<1>3. QED
  BY <1>1, <1>2, MoveSelf DEF AfterPush

\* The steps of insert_pktburst between the claim of the bytes and end().
Middle(w) ==
  \/ AllocBytes(w) \/ LoadFilters(w) \/ GetList(w) \/ Reserve(w) \/ Fill(w)
  \/ SetOffLen(w) \/ AppendPkt(w) \/ Apply(w)

\* They keep the ids and bytes of the writer, and what is published.
LEMMA MiddleStep ==
  ASSUME TypeOK, NEW w \in Writers, Middle(w)
  PROVE  /\ HasIds(w) /\ HasIds(w)'
         /\ HasBytes(w) /\ HasBytes(w)'
         /\ UNCHANGED <<current_write_id, current_read_id, accepted, dtail,
                        pkts, now, start_id, known>>
<1>1. pc \in [Writers -> Pcs]
  BY DEF TypeOK, ControlType
<1>2. CASE AllocBytes(w) \/ LoadFilters(w) \/ GetList(w) \/ SetOffLen(w)
  BY <1>1, <1>2 DEF AllocBytes, LoadFilters, GetList, SetOffLen, Goto, shared,
                    HasIds, HasBytes
<1>3. CASE Reserve(w)
  BY <1>3, MovePc, MoveSelf DEF Reserve, TypeOK, HasIds, HasBytes
<1>4. CASE Fill(w)
  BY <1>4, MovePc, MoveSelf DEF Fill, TypeOK, HasIds, HasBytes
<1>5. CASE AppendPkt(w)
  BY <1>5, MovePc DEF AppendPkt, TypeOK, HasIds, HasBytes
<1>6. CASE Apply(w)
  BY <1>6, MovePc, MoveSelf DEF Apply, TypeOK, shared, HasIds, HasBytes
<1>7. QED
  BY <1>2, <1>3, <1>4, <1>5, <1>6 DEF Middle

\* No writer of the empty store holds ids.
LEMMA IdInit ==
  ASSUME Init
  PROVE  IdInv /\ ControlInv
BY DEF Init, IdInv, IdsOf, DisjointIds, HasIds, ControlInv, ControlOf

\* Every step keeps the ids of the writers disjoint, unpublished and recorded.
LEMMA IdStep ==
  ASSUME TypeOK, IdInv, [Next]_vars
  PROVE  IdInv'
<1> DEFINE len(v) == Len(pkts[v])
<1>1. /\ current_write_id \in Nat /\ current_read_id \in Nat
      /\ current_read_id <= current_write_id
      /\ \A v \in Writers : len(v) \in Nat /\ start_id[v] \in Nat
  BY DEF TypeOK, IdType, BurstType
<1>2. ASSUME NEW w \in Writers, Writer(w), NEW v \in Writers, v # w
      PROVE  /\ HasIds(v)' = HasIds(v)
             /\ start_id'[v] = start_id[v] /\ pkts'[v] = pkts[v]
             /\ now'[v] = now[v] /\ known'[v] = known[v]
  BY <1>2, Locality DEF SameLocals, HasIds
<1>3. ASSUME NEW w \in Writers, Poll(w)
      PROVE  IdInv'
  <2>1. /\ ~HasIds(w)'
        /\ UNCHANGED <<current_write_id, current_read_id, accepted>>
    BY <1>3 DEF Poll, Goto, shared, HasIds, TypeOK, ControlType
  <2>2. Writer(w)
    BY <1>3 DEF Writer
  <2>3. QED
    BY <1>2, <2>1, <2>2 DEF IdInv, IdsOf, DisjointIds
<1>4. ASSUME NEW w \in Writers, ClaimIds(w)
      PROVE  IdInv'
  <2>1. /\ start_id'[w] = current_write_id
        /\ current_write_id' = current_write_id + len(w)
        /\ UNCHANGED <<current_read_id, pkts, now, known>>
    BY <1>4 DEF ClaimIds, claim_ids, TypeOK, BurstType
  <2>2. ASSUME NEW id \in 0..(current_write_id - 1)
        PROVE  accepted'[id] = accepted[id]
    BY <1>1, <1>4, <2>1 DEF ClaimIds
  <2>3. ASSUME NEW m \in 1..len(w)
        PROVE  accepted'[current_write_id + m - 1] =
                 [ts |-> now[w], chars |-> known[w], pkt |-> pkts[w][m]]
    <3>1. /\ current_write_id + m - 1 \in 0..(current_write_id' - 1)
          /\ ~(current_write_id + m - 1 < current_write_id)
          /\ (current_write_id + m - 1) - current_write_id + 1 = m
      BY <1>1, <2>1
    <3>2. QED
      BY <1>4, <3>1 DEF ClaimIds
  <2>4. Writer(w)
    BY <1>4 DEF Writer
  <2>5. IdsOf(w)'
    <3>1. start_id'[w] + Len(pkts'[w]) <= current_write_id'
      BY <1>1, <2>1
    <3>2. current_read_id' <= start_id'[w]
      BY <1>1, <2>1
    <3>3. ASSUME NEW m \in 1..Len(pkts'[w])
          PROVE  accepted'[start_id'[w] + m - 1] =
                   [ts |-> now'[w], chars |-> known'[w], pkt |-> pkts'[w][m]]
      BY <2>1, <2>3
    <3>4. QED
      BY <3>1, <3>2, <3>3 DEF IdsOf
  <2>6. ASSUME NEW v \in Writers, v # w
        PROVE  IdsOf(v)' /\ DisjointIds(w, v)' /\ DisjointIds(v, w)'
    <3>1. SUFFICES ASSUME HasIds(v)
                   PROVE  IdsOf(v)' /\ DisjointIds(w, v)' /\ DisjointIds(v, w)'
      BY <1>2, <2>4, <2>6 DEF IdsOf, DisjointIds
    <3>2. start_id[v] + len(v) <= current_write_id
      BY <3>1 DEF IdInv, IdsOf
    <3>3. ASSUME NEW m \in 1..len(v)
          PROVE  accepted'[start_id[v] + m - 1] = accepted[start_id[v] + m - 1]
      BY <1>1, <2>2, <3>2
    <3>4. IdsOf(v)'
      <4>1. /\ start_id'[v] = start_id[v] /\ pkts'[v] = pkts[v]
            /\ now'[v] = now[v] /\ known'[v] = known[v]
        BY <1>2, <2>4, <2>6
      <4>2. start_id'[v] + Len(pkts'[v]) <= current_write_id'
        BY <1>1, <2>1, <3>2, <4>1
      <4>3. Len(pkts'[v]) > 0 => current_read_id' <= start_id'[v]
        BY <2>1, <3>1, <4>1 DEF IdInv, IdsOf
      <4>4. ASSUME NEW m \in 1..Len(pkts'[v])
            PROVE  accepted'[start_id'[v] + m - 1] =
                     [ts |-> now'[v], chars |-> known'[v], pkt |-> pkts'[v][m]]
        <5>1. accepted[start_id[v] + m - 1] =
                [ts |-> now[v], chars |-> known[v], pkt |-> pkts[v][m]]
          BY <3>1, <4>1 DEF IdInv, IdsOf
        <5>2. QED
          BY <3>3, <4>1, <5>1
      <4>5. QED
        BY <4>2, <4>3, <4>4 DEF IdsOf
    <3>5. DisjointIds(w, v)' /\ DisjointIds(v, w)'
      BY <1>1, <1>2, <2>1, <2>4, <2>6, <3>2 DEF DisjointIds
    <3>6. QED
      BY <3>4, <3>5
  <2>7. ASSUME NEW u \in Writers, NEW v \in Writers, u # v, u # w, v # w
        PROVE  DisjointIds(u, v)'
    BY <1>2, <2>4, <2>7 DEF IdInv, DisjointIds
  <2>8. QED
    BY <2>5, <2>6, <2>7 DEF IdInv
<1>5. ASSUME NEW w \in Writers, AllocIds(w) \/ ClaimBytes(w) \/ Middle(w)
      PROVE  IdInv'
  <2>1. /\ HasIds(w) /\ HasIds(w)'
        /\ UNCHANGED <<current_write_id, current_read_id, accepted,
                       pkts, now, start_id, known>>
    BY <1>5, MiddleStep DEF AllocIds, ClaimBytes, Goto, HasIds, TypeOK, ControlType
  <2>2. Writer(w)
    BY <1>5 DEF Writer, Middle
  <2>3. ASSUME NEW v \in Writers
        PROVE  HasIds(v)' = HasIds(v)
    BY <1>2, <2>1, <2>2 DEF HasIds
  <2>4. QED
    BY <2>1, <2>3 DEF IdInv, IdsOf, DisjointIds
<1>6. ASSUME NEW w \in Writers, End(w)
      PROVE  IdInv'
  <2>1. /\ HasIds(w) /\ ~HasIds(w)'
        /\ current_read_id = start_id[w]
        /\ current_read_id' = start_id[w] + len(w)
        /\ UNCHANGED <<current_write_id, accepted>>
    BY <1>6 DEF End, end, Goto, HasIds, TypeOK, ControlType
  <2>2. Writer(w)
    BY <1>6 DEF Writer
  <2>3. ASSUME NEW v \in Writers, v # w, HasIds(v), len(v) > 0
        PROVE  current_read_id' <= start_id[v]
    <3>1. current_read_id <= start_id[v]
      BY <2>3 DEF IdInv, IdsOf
    <3>2. start_id[w] + len(w) <= start_id[v] \/ start_id[v] + len(v) <= start_id[w]
      BY <2>1, <2>3 DEF IdInv, DisjointIds
    <3>3. QED
      BY <1>1, <2>1, <2>3, <3>1, <3>2
  <2>4. ASSUME NEW v \in Writers
        PROVE  IdsOf(v)'
    <3>1. CASE v = w
      BY <2>1, <3>1 DEF IdsOf
    <3>2. CASE v # w
      BY <1>2, <2>1, <2>2, <2>3, <3>2 DEF IdInv, IdsOf
    <3>3. QED
      BY <3>1, <3>2
  <2>5. ASSUME NEW u \in Writers, NEW v \in Writers, u # v
        PROVE  DisjointIds(u, v)'
    BY <1>2, <2>1, <2>2, <2>5 DEF IdInv, DisjointIds
  <2>6. QED
    BY <2>4, <2>5 DEF IdInv
<1>7. CASE UNCHANGED <<current_write_id, current_read_id, accepted, known, locals>>
  BY <1>7 DEF locals, IdInv, IdsOf, DisjointIds, HasIds
<1>8. QED
  BY <1>3, <1>4, <1>5, <1>6, <1>7
  DEF Next, Writer, Middle, ClaimChar, AssignChar, Tick, vars, shared

-----------------------------------------------------------------------------

\* Every reachable state is well typed, each writer is where the loops of
\* insert_pktburst allow, and no two writers hold the same id.
THEOREM TypeCorrect == Spec => [](TypeOK /\ ControlInv /\ IdInv)
<1>1. Init => TypeOK /\ ControlInv /\ IdInv
  BY TypeInit, IdInit
<1>2. TypeOK /\ ControlInv /\ IdInv /\ [Next]_vars => (TypeOK /\ ControlInv /\ IdInv)'
  BY TypeStep, ControlStep, IdStep
<1>3. QED
  BY <1>1, <1>2, PTL DEF Spec

-----------------------------------------------------------------------------
(* Addresses                                                               *)

\* Runs over disjoint intervals of offsets share no cell.
LEMMA DisjointRuns ==
  ASSUME NEW a \in Nat, NEW la \in Nat, NEW b \in Nat, NEW lb \in Nat, a + la <= b
  PROVE  Run(a, la, BlockSize) \cap Run(b, lb, BlockSize) = {}
<1>1. BlockSize \in Nat \ {0}
  BY SizeAssumption
<1>2. QED
  BY <1>1, RunsApart

-----------------------------------------------------------------------------
(* Bytes                                                                   *)

\* A writer that holds bytes has appended n of its packets, and what it has
\* still to write lies between off and EndOff.
LEMMA EndOffType ==
  ASSUME TypeOK, ControlInv, NEW w \in Writers, HasBytes(w)
  PROVE  /\ HasIds(w)
         /\ pkts[w] \in Seq(Packets)
         /\ Len(pkts[w]) \in Nat
         /\ n[w] \in 0..Len(pkts[w])
         /\ off[w] \in Nat
         /\ Layout(pkts[w]) \in [0..Len(pkts[w]) -> Nat]
         /\ EndOff(w) \in Nat
         /\ off[w] <= EndOff(w)
<1>1. /\ pkts[w] \in Seq(Packets) /\ Len(pkts[w]) \in Nat
      /\ n[w] \in Nat /\ off[w] \in Nat /\ pc[w] \in Pcs
  BY DEF TypeOK, BurstType, ControlType
<1>2. n[w] \in 0..Len(pkts[w])
  BY <1>1 DEF HasBytes, Pcs, ControlInv, ControlOf
<1>3. Layout(pkts[w]) \in [0..Len(pkts[w]) -> Nat]
  BY <1>1, LayoutType
<1>4. Layout(pkts[w])[n[w]] <= NumBytes(pkts[w])
  BY <1>1, <1>2, LayoutMonotone DEF NumBytes
<1>5. Layout(pkts[w])[n[w]] \in Nat /\ NumBytes(pkts[w]) \in Nat
  BY <1>1, <1>2, <1>3 DEF NumBytes
<1>6. EndOff(w) \in Nat /\ off[w] <= EndOff(w)
  BY <1>1, <1>4, <1>5 DEF EndOff
<1>7. QED
  BY <1>1, <1>2, <1>3, <1>6 DEF HasBytes, HasIds

\* The place of the packet about to be appended, inside what is still to be written.
LEMMA CurrentPlace ==
  ASSUME TypeOK, ControlInv, NEW w \in Writers, pc[w] = "append"
  PROVE  /\ HasBytes(w)
         /\ PktBytes(CurPkt(w)) \in Nat
         /\ Layout(pkts[w])[n[w] + 1] = Layout(pkts[w])[n[w]] + PktBytes(CurPkt(w))
         /\ off[w] + PktBytes(CurPkt(w)) <= EndOff(w)
<1>1. HasBytes(w)
  BY DEF HasBytes
<1>2. /\ n[w] + 1 \in 1..Len(pkts[w]) /\ CurPkt(w) = pkts[w][n[w] + 1]
      /\ PktBytes(CurPkt(w)) \in Nat
  BY CurrentPacket
<1>3. /\ pkts[w] \in Seq(Packets) /\ Len(pkts[w]) \in Nat /\ n[w] \in 0..Len(pkts[w])
      /\ off[w] \in Nat /\ Layout(pkts[w]) \in [0..Len(pkts[w]) -> Nat]
  BY <1>1, EndOffType
<1>4. Layout(pkts[w])[n[w] + 1] = Layout(pkts[w])[n[w]] + PktBytes(CurPkt(w))
  <2>1. (n[w] + 1) - 1 = n[w]
    BY <1>3
  <2>2. QED
    BY <1>2, <1>3, <2>1, LayoutType
<1>5. Layout(pkts[w])[n[w] + 1] <= NumBytes(pkts[w])
  BY <1>2, <1>3, LayoutMonotone DEF NumBytes
<1>6. Layout(pkts[w])[n[w]] \in Nat /\ NumBytes(pkts[w]) \in Nat
  BY <1>3 DEF NumBytes
<1>7. QED
  BY <1>1, <1>2, <1>3, <1>4, <1>5, <1>6 DEF EndOff

\* A step between the claim of the bytes and end() never moves EndOff, and moves
\* off and n only when it appends a packet.
LEMMA MiddleBytes ==
  ASSUME TypeOK, ControlInv, NEW w \in Writers, Middle(w)
  PROVE  /\ EndOff(w)' = EndOff(w)
         /\ off'[w] \in Nat
         /\ off[w] <= off'[w]
         /\ AppendPkt(w) \/ (off' = off /\ n' = n /\ dlog' = dlog)
<1>1. pkts' = pkts /\ HasBytes(w)
  BY MiddleStep
<1>2. off[w] \in Nat /\ off \in [Writers -> Nat] /\ n \in [Writers -> Nat] /\ n[w] \in Nat
  BY DEF TypeOK, BurstType
<1>3. CASE AppendPkt(w)
  <2>1. pc[w] = "append" /\ n'[w] = n[w] + 1 /\ off'[w] = off[w] + PktBytes(CurPkt(w))
    BY <1>2, <1>3 DEF AppendPkt
  <2>2. /\ PktBytes(CurPkt(w)) \in Nat
        /\ Layout(pkts[w])[n[w] + 1] = Layout(pkts[w])[n[w]] + PktBytes(CurPkt(w))
    BY <2>1, CurrentPlace
  <2>3. Layout(pkts[w])[n[w]] \in Nat /\ NumBytes(pkts[w]) \in Nat
    BY <1>1, EndOffType DEF NumBytes
  <2>4. EndOff(w)' = off'[w] + NumBytes(pkts[w]) - Layout(pkts[w])[n'[w]]
    BY <1>1 DEF EndOff
  <2>5. EndOff(w)' = EndOff(w)
    BY <1>2, <2>1, <2>2, <2>3, <2>4 DEF EndOff
  <2>6. QED
    BY <1>2, <1>3, <2>1, <2>2, <2>5
<1>4. CASE ~AppendPkt(w)
  <2>1. off' = off /\ n' = n /\ dlog' = dlog
    BY <1>4 DEF Middle, AllocBytes, LoadFilters, GetList, Reserve, Fill, SetOffLen,
               Apply, shared
  <2>2. EndOff(w)' = EndOff(w)
    BY <1>1, <2>1 DEF EndOff
  <2>3. QED
    BY <1>2, <2>1, <2>2
<1>5. QED
  BY <1>3, <1>4

\* The bytes of the other writers stay where they are.
LEMMA OtherBytes ==
  ASSUME TypeOK, NEW w \in Writers, Writer(w), NEW v \in Writers, v # w
  PROVE  /\ HasBytes(v)' = HasBytes(v)
         /\ EndOff(v)' = EndOff(v)
         /\ off'[v] = off[v]
         /\ n'[v] = n[v]
         /\ start_id'[v] = start_id[v]
         /\ pkts'[v] = pkts[v]
BY Locality DEF SameLocals, HasBytes, EndOff

\* Claiming bytes hands out the interval from the old to the new dtail.
LEMMA ClaimedBytes ==
  ASSUME TypeOK, NEW w \in Writers, ClaimBytes(w)
  PROVE  /\ HasBytes(w)'
         /\ off'[w] = dtail
         /\ EndOff(w)' = dtail'
         /\ dtail' \in Nat
         /\ dtail <= dtail'
<1>1. /\ pc'[w] = "alloc_bytes" /\ off'[w] = dtail /\ n'[w] = 0
      /\ pkts' = pkts /\ dtail' = dtail + NumBytes(pkts[w])
  BY DEF ClaimBytes, Goto, claim_bytes, TypeOK, ControlType, BurstType
<1>2. NumBytes(pkts[w]) \in Nat /\ Layout(pkts[w])[0] = 0 /\ dtail \in Nat
  BY NumBytesType, LayoutType DEF TypeOK, BurstType, DataType
<1>3. EndOff(w)' = off'[w] + NumBytes(pkts[w]) - Layout(pkts[w])[n'[w]]
  BY <1>1 DEF EndOff
<1>4. QED
  BY <1>1, <1>2, <1>3 DEF HasBytes

\* Every step keeps the bytes of the writers disjoint and below dtail.
LEMMA ByteStep ==
  ASSUME TypeOK, ControlInv, ByteInv, [Next]_vars
  PROVE  ByteInv'
<1>1. dtail \in Nat
  BY DEF TypeOK, DataType
<1>2. \A v \in Writers : HasBytes(v) =>
        EndOff(v) \in Nat /\ off[v] \in Nat /\ EndOff(v) <= dtail /\ off[v] <= dtail
  BY <1>1, EndOffType DEF ByteInv
<1>3. ASSUME NEW w \in Writers, Writer(w), ~HasBytes(w)', dtail' = dtail
      PROVE  ByteInv'
  BY <1>3, OtherBytes DEF ByteInv, DisjointBytes
<1>4. ASSUME NEW w \in Writers, ClaimBytes(w)
      PROVE  ByteInv'
  <2>1. Writer(w)
    BY <1>4 DEF Writer
  <2>2. /\ HasBytes(w)' /\ off'[w] = dtail /\ EndOff(w)' = dtail'
        /\ dtail' \in Nat /\ dtail <= dtail'
    BY <1>4, ClaimedBytes
  <2>3. ASSUME NEW v \in Writers, HasBytes(v)'
        PROVE  EndOff(v)' <= dtail'
    BY <1>1, <1>2, <2>1, <2>2, <2>3, OtherBytes
  <2>4. ASSUME NEW v \in Writers, v # w
        PROVE  DisjointBytes(w, v)' /\ DisjointBytes(v, w)'
    BY <1>2, <2>1, <2>2, <2>4, OtherBytes DEF DisjointBytes
  <2>5. ASSUME NEW u \in Writers, NEW v \in Writers, u # v, u # w, v # w
        PROVE  DisjointBytes(u, v)'
    BY <2>1, <2>5, OtherBytes DEF ByteInv, DisjointBytes
  <2>6. QED
    BY <2>3, <2>4, <2>5 DEF ByteInv
<1>5. ASSUME NEW w \in Writers, Middle(w)
      PROVE  ByteInv'
  <2>1. Writer(w)
    BY <1>5 DEF Writer, Middle
  <2>2. /\ HasBytes(w) /\ HasBytes(w)' /\ dtail' = dtail
        /\ EndOff(w)' = EndOff(w) /\ off'[w] \in Nat /\ off[w] <= off'[w]
    BY <1>5, MiddleStep, MiddleBytes
  <2>3. ASSUME NEW v \in Writers, HasBytes(v)'
        PROVE  EndOff(v)' <= dtail'
    BY <1>2, <2>1, <2>2, <2>3, OtherBytes
  <2>4. ASSUME NEW v \in Writers, v # w
        PROVE  DisjointBytes(w, v)' /\ DisjointBytes(v, w)'
    <3>1. SUFFICES ASSUME HasBytes(v)
                   PROVE  EndOff(w)' <= off'[v] \/ EndOff(v)' <= off'[w]
      BY <2>1, <2>4, OtherBytes DEF DisjointBytes
    <3>2. EndOff(w) <= off[v] \/ EndOff(v) <= off[w]
      BY <2>2, <2>4, <3>1 DEF ByteInv, DisjointBytes
    <3>3. EndOff(v)' = EndOff(v) /\ off'[v] = off[v]
      BY <2>1, <2>4, OtherBytes
    <3>4. QED
      BY <1>2, <2>2, <3>1, <3>2, <3>3
  <2>5. ASSUME NEW u \in Writers, NEW v \in Writers, u # v, u # w, v # w
        PROVE  DisjointBytes(u, v)'
    BY <2>1, <2>5, OtherBytes DEF ByteInv, DisjointBytes
  <2>6. QED
    BY <2>3, <2>4, <2>5 DEF ByteInv
<1>6. ASSUME NEW w \in Writers, Poll(w) \/ ClaimIds(w) \/ AllocIds(w) \/ End(w)
      PROVE  ByteInv'
  <2>1. ~HasBytes(w)' /\ dtail' = dtail
    BY <1>6 DEF Poll, ClaimIds, AllocIds, End, Goto, shared, HasBytes, TypeOK, ControlType
  <2>2. QED
    BY <1>3, <1>6, <2>1 DEF Writer
<1>7. CASE UNCHANGED <<dtail, locals>>
  BY <1>7 DEF locals, ByteInv, DisjointBytes, EndOff, HasBytes
<1>8. QED
  BY <1>4, <1>5, <1>6, <1>7
  DEF Next, Writer, Middle, ClaimChar, AssignChar, Tick, vars, shared

-----------------------------------------------------------------------------
(* Stored packets                                                          *)

\* An element of one of two disjoint intervals is not in the other.
LEMMA IntervalsApart ==
  ASSUME NEW a \in Nat, NEW la \in Nat, NEW x \in Nat, x < la,
         NEW b \in Nat, NEW lb \in Nat, NEW y \in Nat, y <= lb,
         a + la <= b \/ b + lb <= a
  PROVE  a + x \notin b..(b + y - 1)
OBVIOUS

\* The id about to be written is claimed, and no packet is stored under it.
LEMMA CurrentIdFresh ==
  ASSUME TypeOK, ControlInv, IdInv, NEW w \in Writers,
         pc[w] \in {"set_offlen", "append"}
  PROVE  /\ CurId(w) = start_id[w] + n[w]
         /\ CurId(w) \in DOMAIN accepted
         /\ accepted[CurId(w)] = [ts |-> now[w], chars |-> known[w], pkt |-> CurPkt(w)]
         /\ CurId(w) \notin StoredIds
         /\ \A v \in Writers : v # w /\ pc[v] \in {"set_offlen", "append"} =>
              CurId(v) # CurId(w)
<1>1. /\ CurId(w) = start_id[w] + n[w] /\ n[w] + 1 \in 1..Len(pkts[w])
      /\ CurPkt(w) = pkts[w][n[w] + 1]
  BY CurrentPacket
<1>2. /\ current_write_id \in Nat /\ current_read_id \in Nat
      /\ DOMAIN accepted = 0..(current_write_id - 1)
      /\ \A v \in Writers : start_id[v] \in Nat /\ n[v] \in Nat /\ Len(pkts[v]) \in Nat
  BY DEF TypeOK, IdType, BurstType
<1>3. HasIds(w) /\ HasBytes(w)
  BY DEF HasIds, HasBytes
<1>4. /\ start_id[w] + Len(pkts[w]) <= current_write_id
      /\ current_read_id <= start_id[w]
      /\ accepted[start_id[w] + (n[w] + 1) - 1] =
           [ts |-> now[w], chars |-> known[w], pkt |-> pkts[w][n[w] + 1]]
  BY <1>1, <1>2, <1>3 DEF IdInv, IdsOf
<1>5. ASSUME NEW v \in Writers, v # w, HasBytes(v)
      PROVE  /\ CurId(w) \notin start_id[v]..(start_id[v] + n[v] - 1)
             /\ n[v] <= Len(pkts[v])
             /\ \/ start_id[w] + Len(pkts[w]) <= start_id[v]
                \/ start_id[v] + Len(pkts[v]) <= start_id[w]
  <2>1. HasIds(v) /\ n[v] <= Len(pkts[v])
    BY <1>5, EndOffType
  <2>2. \/ start_id[w] + Len(pkts[w]) <= start_id[v]
        \/ start_id[v] + Len(pkts[v]) <= start_id[w]
    BY <1>3, <1>5, <2>1 DEF IdInv, DisjointIds
  <2>3. /\ start_id[w] \in Nat /\ n[w] \in Nat /\ Len(pkts[w]) \in Nat
        /\ start_id[v] \in Nat /\ n[v] \in Nat /\ Len(pkts[v]) \in Nat
        /\ n[w] < Len(pkts[w])
    BY <1>1, <1>2
  <2>4. start_id[w] + n[w] \notin start_id[v]..(start_id[v] + n[v] - 1)
    BY <2>1, <2>2, <2>3, IntervalsApart
  <2>5. QED
    BY <1>1, <2>1, <2>2, <2>4
<1>6. CurId(w) \notin start_id[w]..(start_id[w] + n[w] - 1)
  BY <1>1, <1>2
<1>7. CurId(w) \notin StoredIds
  BY <1>1, <1>2, <1>4, <1>5, <1>6 DEF StoredIds, Appended
<1>8. ASSUME NEW v \in Writers, v # w, pc[v] \in {"set_offlen", "append"}
      PROVE  CurId(v) # CurId(w)
  <2>1. CurId(v) = start_id[v] + n[v] /\ n[v] + 1 \in 1..Len(pkts[v])
    BY <1>8, CurrentPacket
  <2>2. HasBytes(v)
    BY <1>8 DEF HasBytes
  <2>3. \/ start_id[w] + Len(pkts[w]) <= start_id[v]
        \/ start_id[v] + Len(pkts[v]) <= start_id[w]
    BY <1>5, <1>8, <2>2
  <2>4. /\ start_id[w] \in Nat /\ n[w] \in Nat /\ Len(pkts[w]) \in Nat
        /\ start_id[v] \in Nat /\ n[v] \in Nat /\ Len(pkts[v]) \in Nat
        /\ n[w] < Len(pkts[w]) /\ n[v] < Len(pkts[v])
    BY <1>1, <1>2, <2>1
  <2>5. start_id[w] + n[w] \notin start_id[v]..(start_id[v] + (n[v] + 1) - 1)
    <3>1. n[v] + 1 \in Nat /\ n[v] + 1 <= Len(pkts[v])
      BY <2>4
    <3>2. QED
      BY <2>3, <2>4, <3>1, IntervalsApart
  <2>6. QED
    BY <1>1, <2>1, <2>4, <2>5
<1>9. start_id[w] + (n[w] + 1) - 1 = CurId(w) /\ CurId(w) \in DOMAIN accepted
  BY <1>1, <1>2, <1>4
<1>10. QED
  BY <1>1, <1>4, <1>7, <1>8, <1>9

\* Only append_pkt makes an id stored.
LEMMA StoredStep ==
  ASSUME TypeOK, ControlInv, IdInv, NEW w \in Writers, Writer(w), ~AppendPkt(w)
  PROVE  /\ StoredIds' = StoredIds
         /\ \A id \in StoredIds : accepted'[id] = accepted[id]
<1>1. /\ current_write_id \in Nat /\ current_read_id \in 0..current_write_id
      /\ DOMAIN accepted = 0..(current_write_id - 1)
      /\ \A v \in Writers : start_id[v] \in Nat /\ n[v] \in Nat /\ Len(pkts[v]) \in Nat
  BY DEF TypeOK, IdType, BurstType
<1>2. ASSUME NEW v \in Writers, v # w
      PROVE  HasBytes(v)' = HasBytes(v) /\ start_id'[v] = start_id[v] /\ n'[v] = n[v]
  BY <1>2, OtherBytes
<1>3. CASE ClaimIds(w)
  <2>1. /\ ~HasBytes(w) /\ ~HasBytes(w)' /\ current_read_id' = current_read_id
        /\ current_write_id' = current_write_id + Len(pkts[w])
        /\ DOMAIN accepted' = 0..(current_write_id' - 1)
    BY <1>3 DEF ClaimIds, claim_ids, Goto, HasBytes, TypeOK, ControlType
  <2>2. \A id : Appended(id)' <=> Appended(id)
    BY <1>2, <2>1 DEF Appended
  <2>3. ASSUME NEW id \in Nat, Appended(id)
        PROVE  id \in DOMAIN accepted
    <3>1. CASE id < current_read_id
      BY <1>1, <2>3, <3>1
    <3>2. ASSUME NEW v \in Writers, HasBytes(v), id \in start_id[v]..(start_id[v] + n[v] - 1)
          PROVE  id \in DOMAIN accepted
      <4>1. HasIds(v) /\ n[v] <= Len(pkts[v])
        BY <3>2, EndOffType
      <4>2. start_id[v] + Len(pkts[v]) <= current_write_id
        BY <4>1 DEF IdInv, IdsOf
      <4>3. QED
        BY <1>1, <3>2, <4>1, <4>2
    <3>3. QED
      BY <2>3, <3>1, <3>2 DEF Appended
  <2>4. DOMAIN accepted \subseteq DOMAIN accepted' /\ DOMAIN accepted' \subseteq Nat
    BY <1>1, <2>1
  <2>5. StoredIds' = StoredIds
    BY <2>2, <2>3, <2>4 DEF StoredIds
  <2>6. \A id \in DOMAIN accepted : accepted'[id] = accepted[id]
    <3>1. ASSUME NEW id \in DOMAIN accepted
          PROVE  id \in 0..(current_write_id' - 1) /\ id < current_write_id
      BY <1>1, <2>1
    <3>2. QED
      BY <1>3, <3>1 DEF ClaimIds
  <2>7. QED
    BY <2>5, <2>6 DEF StoredIds
<1>4. CASE Poll(w) \/ AllocIds(w)
  <2>1. /\ ~HasBytes(w) /\ ~HasBytes(w)'
        /\ UNCHANGED <<current_read_id, accepted>>
    BY <1>4 DEF Poll, AllocIds, Goto, shared, HasBytes, TypeOK, ControlType
  <2>2. \A id : Appended(id)' <=> Appended(id)
    BY <1>2, <2>1 DEF Appended
  <2>3. QED
    BY <2>1, <2>2 DEF StoredIds
<1>5. CASE ClaimBytes(w)
  <2>1. /\ ~HasBytes(w) /\ n'[w] = 0 /\ start_id' = start_id
        /\ UNCHANGED <<current_read_id, accepted>>
    BY <1>5 DEF ClaimBytes, Goto, HasBytes, TypeOK, BurstType
  <2>2. start_id'[w]..(start_id'[w] + n'[w] - 1) = {}
    BY <1>1, <2>1
  <2>3. \A id : Appended(id)' <=> Appended(id)
    BY <1>2, <2>1, <2>2 DEF Appended
  <2>4. QED
    BY <2>1, <2>3 DEF StoredIds
<1>6. CASE Middle(w)
  <2>1. /\ HasBytes(w) /\ HasBytes(w)'
        /\ UNCHANGED <<current_read_id, accepted, start_id, n>>
    BY <1>6, MiddleStep, MiddleBytes
  <2>2. \A id : Appended(id)' <=> Appended(id)
    BY <1>2, <2>1 DEF Appended
  <2>3. QED
    BY <2>1, <2>2 DEF StoredIds
<1>7. CASE End(w)
  <2>1. /\ HasBytes(w) /\ ~HasBytes(w)' /\ UNCHANGED accepted
        /\ n[w] = Len(pkts[w])
        /\ current_read_id = start_id[w]
        /\ current_read_id' = start_id[w] + n[w]
    BY <1>7 DEF End, end, Goto, HasBytes, TypeOK, ControlType, ControlInv, ControlOf
  <2>2. ASSUME NEW id \in Nat
        PROVE  id < current_read_id' <=>
                 id < current_read_id \/ id \in start_id[w]..(start_id[w] + n[w] - 1)
    BY <1>1, <2>1
  <2>3. \A id \in Nat : Appended(id)' <=> Appended(id)
    BY <1>2, <2>1, <2>2 DEF Appended
  <2>4. QED
    BY <1>1, <2>1, <2>3 DEF StoredIds
<1>8. QED
  BY <1>3, <1>4, <1>5, <1>6, <1>7 DEF Writer, Middle

\* append_pkt stores the id of its packet, and no other.
LEMMA AppendStored ==
  ASSUME TypeOK, ControlInv, IdInv, NEW w \in Writers, AppendPkt(w)
  PROVE  /\ StoredIds' = StoredIds \cup {CurId(w)}
         /\ accepted' = accepted
<1>1. /\ HasBytes(w) /\ HasBytes(w)'
      /\ UNCHANGED <<current_read_id, accepted, start_id>>
  BY MiddleStep DEF Middle
<1>2. pc[w] = "append" /\ n'[w] = n[w] + 1
  BY DEF AppendPkt, TypeOK, BurstType
<1>3. CurId(w) = start_id[w] + n[w] /\ CurId(w) \in DOMAIN accepted
  BY <1>2, CurrentIdFresh
<1>4. start_id[w] \in Nat /\ n[w] \in Nat /\ DOMAIN accepted \subseteq Nat
  BY DEF TypeOK, BurstType, IdType
<1>5. ASSUME NEW id \in Nat
      PROVE  id \in start_id'[w]..(start_id'[w] + n'[w] - 1) <=>
               id \in start_id[w]..(start_id[w] + n[w] - 1) \/ id = CurId(w)
  BY <1>1, <1>2, <1>3, <1>4
<1>6. ASSUME NEW v \in Writers, v # w
      PROVE  HasBytes(v)' = HasBytes(v) /\ start_id'[v] = start_id[v] /\ n'[v] = n[v]
  BY <1>6, OtherBytes DEF Writer
<1>7. \A id \in Nat : Appended(id)' <=> Appended(id) \/ id = CurId(w)
  BY <1>1, <1>5, <1>6 DEF Appended
<1>8. QED
  BY <1>1, <1>3, <1>4, <1>7 DEF StoredIds

-----------------------------------------------------------------------------
(* Contents of the data log                                                *)

\* ReadPkt from the data log d, of l bytes and their time stamp at offset o.
ReadIn(d, o, l) ==
  [j \in 0..((TsBytes + l) - 1) |->
     LET a == Addr(o, j, BlockSize)
     IN  IF a \in DOMAIN d THEN d[a] ELSE Unset]

\* A write to other cells leaves what is read at o unchanged.
LEMMA ReadFrame ==
  ASSUME NEW o \in Nat, NEW l \in Nat, NEW offset \in Nat, NEW t, NEW p,
         append_pkt(offset, t, p),
         Run(o, TsBytes + l, BlockSize) \cap Run(offset, PktBytes(p), BlockSize) = {}
  PROVE  ReadIn(dlog', o, l) = ReadIn(dlog, o, l)
<1> DEFINE cells == Run(offset, PktBytes(p), BlockSize)
<1>1. /\ DOMAIN dlog' = DOMAIN dlog \cup cells
      /\ \A a \in DOMAIN dlog : a \notin cells => dlog'[a] = dlog[a]
  BY DEF append_pkt
<1>2. ASSUME NEW j \in 0..((TsBytes + l) - 1)
      PROVE  LET a == Addr(o, j, BlockSize)
             IN  /\ a \in DOMAIN dlog' <=> a \in DOMAIN dlog
                 /\ a \in DOMAIN dlog => dlog'[a] = dlog[a]
  <2> DEFINE a == Addr(o, j, BlockSize)
  <2>1. a \in Run(o, TsBytes + l, BlockSize)
    BY DEF Run
  <2> HIDE DEF a, cells
  <2>2. a \notin cells
    BY <2>1 DEF cells
  <2>3. QED
    BY <1>1, <2>2 DEF a
<1>3. QED
  BY <1>2 DEF ReadIn

\* What append_pkt wrote is what is read back at the same place.
LEMMA ReadBack ==
  ASSUME NEW offset \in Nat, NEW t, NEW p \in Packets, append_pkt(offset, t, p)
  PROVE  ReadIn(dlog', offset, p.len) = Image(t, p)
<1> DEFINE cells == Run(offset, PktBytes(p), BlockSize)
<1>1. PktBytes(p) \in Nat /\ PktBytes(p) = TsBytes + p.len
  BY PktBytesType DEF PktBytes
<1>2. BucketOff(offset, BlockSize) \in Nat
  BY SizeAssumption DEF BucketOff
<1>3. ASSUME NEW j \in 0..(PktBytes(p) - 1)
      PROVE  LET a == Addr(offset, j, BlockSize)
             IN  a \in DOMAIN dlog' /\ dlog'[a] = Image(t, p)[j]
  <2> DEFINE a == Addr(offset, j, BlockSize)
  <2>1. a \in cells
    BY DEF Run
  <2>2. a[2] - BucketOff(offset, BlockSize) = j
    BY <1>1, <1>2 DEF Addr
  <2> HIDE DEF a, cells
  <2>3. a \in DOMAIN dlog' /\ dlog'[a] = Image(t, p)[a[2] - BucketOff(offset, BlockSize)]
    BY <2>1 DEF append_pkt, cells
  <2>4. QED
    BY <2>2, <2>3 DEF a
<1>4. Image(t, p) = [j \in 0..(PktBytes(p) - 1) |-> Image(t, p)[j]]
  BY DEF Image
<1>5. ReadIn(dlog', offset, p.len) = [j \in 0..(PktBytes(p) - 1) |-> Image(t, p)[j]]
  BY <1>1, <1>3 DEF ReadIn
<1>6. QED
  BY <1>4, <1>5

\* A step that neither moves nor overwrites a stored packet keeps it stored.
LEMMA HoldsFrame ==
  ASSUME TypeOK, NEW id, HoldsPacket(id),
         offlens'[id] = offlens[id], id \in DOMAIN offlens',
         accepted'[id] = accepted[id],
         dtail' \in Nat, dtail <= dtail',
         ReadIn(dlog', offlens[id].off, offlens[id].len) =
           ReadIn(dlog, offlens[id].off, offlens[id].len)
  PROVE  HoldsPacket(id)' /\ RecordEnd(id)' = RecordEnd(id)
<1>1. RecordEnd(id)' = RecordEnd(id)
  BY DEF RecordEnd
<1>2. RecordEnd(id)' <= dtail'
  <2>1. offlens[id].off \in Nat /\ offlens[id].len \in Nat /\ dtail \in Nat
    BY DEF HoldsPacket, TypeOK, OfflenType, DataType
  <2>2. RecordEnd(id) \in Nat
    BY <2>1, SizeAssumption DEF RecordEnd
  <2>3. QED
    BY <1>1, <2>1, <2>2 DEF HoldsPacket
<1>3. ReadPkt(offlens[id]) = ReadIn(dlog, offlens[id].off, offlens[id].len)
  BY DEF ReadPkt, ReadIn
<1>4. ReadPkt(offlens[id])' = ReadIn(dlog', offlens'[id].off, offlens'[id].len)
  BY DEF ReadPkt, ReadIn
<1>5. ImageOf(id)' = ImageOf(id)
  BY DEF ImageOf
<1>6. QED
  BY <1>1, <1>2, <1>3, <1>4, <1>5 DEF HoldsPacket

\* The number types of a stored packet's place.
LEMMA StoredType ==
  ASSUME TypeOK, NEW id \in DOMAIN offlens
  PROVE  /\ offlens[id].off \in Nat
         /\ offlens[id].len \in Nat
         /\ TsBytes + offlens[id].len \in Nat
         /\ RecordEnd(id) \in Nat
         /\ RecordEnd(id) = offlens[id].off + (TsBytes + offlens[id].len)
         /\ offlens[id].off <= RecordEnd(id)
<1>1. offlens[id].off \in Nat /\ offlens[id].len \in Nat
  BY DEF TypeOK, OfflenType
<1>2. QED
  BY <1>1, SizeAssumption DEF RecordEnd

\* The packet being appended is stored: it is read back as it was accepted, and
\* nobody else writes over it.
LEMMA NewPacketHolds ==
  ASSUME TypeOK, ControlInv, IdInv, ByteInv, PointerInv,
         NEW w \in Writers, AppendPkt(w),
         NEW id, id = CurId(w)
  PROVE  HoldsPacket(id)' /\ \A v \in Writers : ApartFrom(id, v)'
<1>1. pc[w] = "append"
  BY DEF AppendPkt
<1>2. /\ CurPkt(w) \in Packets /\ off[w] \in Nat
      /\ PktBytes(CurPkt(w)) \in Nat
      /\ PktBytes(CurPkt(w)) = TsBytes + CurPkt(w).len
  BY <1>1, CurrentPacket DEF PktBytes, TypeOK, BurstType
<1>3. /\ id \in DOMAIN offlens
      /\ offlens[id] = [off |-> off[w], len |-> CurPkt(w).len]
  BY <1>1 DEF PointerInv
<1>4. /\ offlens' = offlens /\ dtail' = dtail /\ accepted' = accepted
      /\ append_pkt(off[w], now[w], CurPkt(w))
  BY DEF AppendPkt
<1>5. off'[w] = off[w] + PktBytes(CurPkt(w))
  BY DEF AppendPkt, TypeOK, BurstType
<1>6. accepted[id] = [ts |-> now[w], chars |-> known[w], pkt |-> CurPkt(w)]
  BY <1>1, CurrentIdFresh
<1>7. /\ HasBytes(w) /\ off[w] + PktBytes(CurPkt(w)) <= EndOff(w)
      /\ EndOff(w) \in Nat /\ EndOff(w) <= dtail /\ dtail \in Nat
  BY <1>1, CurrentPlace, EndOffType DEF ByteInv, TypeOK, DataType
<1>8. RecordEnd(id) = off[w] + PktBytes(CurPkt(w)) /\ RecordEnd(id)' = RecordEnd(id)
  BY <1>2, <1>3, <1>4, SizeAssumption, PktBytesType DEF RecordEnd
<1>9. HoldsPacket(id)'
  <2>1. ReadIn(dlog', off[w], CurPkt(w).len) = Image(now[w], CurPkt(w))
    BY <1>2, <1>4, ReadBack
  <2>2. ReadPkt(offlens[id])' = ReadIn(dlog', offlens'[id].off, offlens'[id].len)
    BY DEF ReadPkt, ReadIn
  <2>3. offlens'[id].off = off[w] /\ offlens'[id].len = CurPkt(w).len
    BY <1>3, <1>4
  <2>4. ImageOf(id)' = Image(now[w], CurPkt(w))
    BY <1>4, <1>6 DEF ImageOf
  <2>5. RecordEnd(id)' <= dtail'
    BY <1>2, <1>4, <1>7, <1>8
  <2>6. accepted'[id].pkt.len = CurPkt(w).len
    BY <1>4, <1>6
  <2>7. QED
    BY <1>3, <1>4, <2>1, <2>2, <2>3, <2>4, <2>5, <2>6 DEF HoldsPacket
<1>10. ASSUME NEW v \in Writers
       PROVE  ApartFrom(id, v)'
  <2>1. CASE v = w
    BY <1>2, <1>5, <1>8, <2>1 DEF ApartFrom
  <2>2. CASE v # w
    <3>1. /\ HasBytes(v)' = HasBytes(v) /\ EndOff(v)' = EndOff(v) /\ off'[v] = off[v]
      BY <2>2, OtherBytes DEF Writer
    <3>2. SUFFICES ASSUME HasBytes(v)
                   PROVE  RecordEnd(id)' <= off'[v] \/ EndOff(v)' <= offlens'[id].off
      BY <3>1 DEF ApartFrom
    <3>3. EndOff(w) <= off[v] \/ EndOff(v) <= off[w]
      BY <1>7, <2>2, <3>2 DEF ByteInv, DisjointBytes
    <3>4. off[v] \in Nat /\ EndOff(v) \in Nat /\ offlens'[id].off = off[w]
      BY <1>3, <1>4, <3>2, EndOffType
    <3>5. QED
      BY <1>2, <1>7, <1>8, <3>1, <3>3, <3>4
  <2>3. QED
    BY <2>1, <2>2
<1>11. QED
  BY <1>9, <1>10

\* A stored packet survives any append.
LEMMA OldPacketHolds ==
  ASSUME TypeOK, ControlInv, ByteInv, StoredInv, NEW w \in Writers, AppendPkt(w),
         NEW id \in StoredIds
  PROVE  HoldsPacket(id)' /\ \A v \in Writers : ApartFrom(id, v)'
<1>1. pc[w] = "append"
  BY DEF AppendPkt
<1>2. /\ CurPkt(w) \in Packets /\ PktBytes(CurPkt(w)) \in Nat
      /\ HasBytes(w) /\ off[w] + PktBytes(CurPkt(w)) <= EndOff(w)
      /\ off[w] \in Nat /\ EndOff(w) \in Nat /\ dtail \in Nat
  BY <1>1, CurrentPacket, CurrentPlace, EndOffType DEF TypeOK, DataType
<1>3. /\ offlens' = offlens /\ dtail' = dtail /\ accepted' = accepted
      /\ append_pkt(off[w], now[w], CurPkt(w))
  BY DEF AppendPkt
<1>4. HoldsPacket(id) /\ id \in DOMAIN offlens /\ \A v \in Writers : ApartFrom(id, v)
  BY DEF StoredInv, HoldsPacket
<1> DEFINE o == offlens[id].off
           l == offlens[id].len
<1>5. /\ o \in Nat /\ l \in Nat /\ TsBytes + l \in Nat
      /\ RecordEnd(id) = o + (TsBytes + l) /\ RecordEnd(id) \in Nat
  BY <1>4, StoredType
<1>6. RecordEnd(id) <= off[w] \/ EndOff(w) <= o
  BY <1>2, <1>4 DEF ApartFrom
<1> HIDE DEF o, l
<1>7. Run(o, TsBytes + l, BlockSize) \cap Run(off[w], PktBytes(CurPkt(w)), BlockSize) = {}
  <2>1. CASE o + (TsBytes + l) <= off[w]
    BY <1>2, <1>5, <2>1, DisjointRuns
  <2>2. CASE off[w] + PktBytes(CurPkt(w)) <= o
    BY <1>2, <1>5, <2>2, DisjointRuns
  <2>3. QED
    BY <1>2, <1>5, <1>6, <2>1, <2>2
<1>8. ReadIn(dlog', o, l) = ReadIn(dlog, o, l)
  BY <1>2, <1>3, <1>5, <1>7, ReadFrame
<1>9. HoldsPacket(id)' /\ RecordEnd(id)' = RecordEnd(id)
  BY <1>2, <1>3, <1>4, <1>8, HoldsFrame DEF o, l
<1>10. ASSUME NEW v \in Writers
       PROVE  ApartFrom(id, v)'
  <2>1. CASE v = w
    <3>1. EndOff(w)' = EndOff(w) /\ off'[w] \in Nat /\ off[w] <= off'[w]
      BY MiddleBytes DEF Middle
    <3>2. RecordEnd(id)' <= off'[w] \/ EndOff(w)' <= offlens'[id].off
      BY <1>2, <1>3, <1>5, <1>6, <1>9, <3>1 DEF o
    <3>3. QED
      BY <2>1, <3>2 DEF ApartFrom
  <2>2. CASE v # w
    <3>1. /\ HasBytes(v)' = HasBytes(v) /\ EndOff(v)' = EndOff(v) /\ off'[v] = off[v]
      BY <2>2, OtherBytes DEF Writer
    <3>2. QED
      BY <1>3, <1>4, <1>9, <3>1 DEF ApartFrom
  <2>3. QED
    BY <2>1, <2>2
<1>11. QED
  BY <1>9, <1>10

\* Every step leaves each stored packet whole and out of the reach of all writers.
LEMMA StoredInvStep ==
  ASSUME TypeOK, ControlInv, IdInv, ByteInv, StoredInv, PointerInv, [Next]_vars
  PROVE  StoredInv'
<1>1. ASSUME NEW w \in Writers, AppendPkt(w)
      PROVE  StoredInv'
  <2>1. StoredIds' = StoredIds \cup {CurId(w)}
    BY <1>1, AppendStored
  <2>2. ASSUME NEW id \in StoredIds'
        PROVE  HoldsPacket(id)' /\ \A v \in Writers : ApartFrom(id, v)'
    BY <1>1, <2>1, NewPacketHolds, OldPacketHolds
  <2>3. QED
    BY <2>2 DEF StoredInv
<1>2. ASSUME NEW w \in Writers, Writer(w), ~AppendPkt(w)
      PROVE  StoredInv'
  <2>1. StoredIds' = StoredIds /\ \A id \in StoredIds : accepted'[id] = accepted[id]
    BY <1>2, StoredStep
  <2>2. dlog' = dlog /\ dtail \in Nat /\ dtail' \in Nat /\ dtail <= dtail'
    <3>1. dtail \in Nat
      BY DEF TypeOK, DataType
    <3>2. CASE Middle(w)
      BY <1>2, <3>1, <3>2, MiddleStep, MiddleBytes
    <3>3. CASE ClaimBytes(w)
      BY <3>1, <3>3, ClaimedBytes DEF ClaimBytes
    <3>4. CASE Poll(w) \/ ClaimIds(w) \/ AllocIds(w) \/ End(w)
      BY <3>1, <3>4 DEF Poll, ClaimIds, AllocIds, End, shared
    <3>5. QED
      BY <1>2, <3>2, <3>3, <3>4 DEF Writer, Middle
  <2>3. ASSUME NEW id \in StoredIds
        PROVE  offlens'[id] = offlens[id] /\ id \in DOMAIN offlens'
    <3>1. id \in DOMAIN offlens
      BY DEF StoredInv, HoldsPacket
    <3>2. CASE SetOffLen(w)
      <4>1. pc[w] = "set_offlen"
        BY <3>2 DEF SetOffLen, Goto
      <4>2. id # CurId(w)
        BY <4>1, CurrentIdFresh
      <4>3. QED
        BY <3>1, <3>2, <4>2 DEF SetOffLen, set_without_alloc
    <3>3. CASE ~SetOffLen(w)
      <4>1. offlens' = offlens
        BY <1>2, <3>3
        DEF Writer, Poll, ClaimIds, AllocIds, ClaimBytes, AllocBytes, LoadFilters,
            GetList, Reserve, Fill, Apply, End, shared
      <4>2. QED
        BY <3>1, <4>1
    <3>4. QED
      BY <3>2, <3>3
  <2>4. ASSUME NEW v \in Writers, HasBytes(v)'
        PROVE  \/ /\ HasBytes(v) /\ EndOff(v)' = EndOff(v)
                  /\ off[v] \in Nat /\ off'[v] \in Nat /\ off[v] <= off'[v]
               \/ off'[v] = dtail
    <3>1. CASE v # w
      <4>1. HasBytes(v) /\ EndOff(v)' = EndOff(v) /\ off'[v] = off[v]
        BY <1>2, <2>4, <3>1, OtherBytes
      <4>2. off[v] \in Nat
        BY DEF TypeOK, BurstType
      <4>3. QED
        BY <4>1, <4>2
    <3>2. CASE v = w /\ Middle(w)
      BY <3>2, MiddleStep, MiddleBytes DEF TypeOK, BurstType
    <3>3. CASE v = w /\ ClaimBytes(w)
      BY <3>3, ClaimedBytes
    <3>4. CASE v = w /\ (Poll(w) \/ ClaimIds(w) \/ AllocIds(w) \/ End(w))
      <4>1. ~HasBytes(w)'
        BY <3>4 DEF Poll, ClaimIds, AllocIds, End, Goto, HasBytes, TypeOK, ControlType
      <4>2. QED
        BY <2>4, <3>4, <4>1
    <3>5. QED
      BY <1>2, <3>1, <3>2, <3>3, <3>4 DEF Writer, Middle
  <2>5. ASSUME NEW id \in StoredIds
        PROVE  HoldsPacket(id)' /\ \A v \in Writers : ApartFrom(id, v)'
    <3>1. HoldsPacket(id) /\ \A v \in Writers : ApartFrom(id, v)
      BY DEF StoredInv
    <3>2. HoldsPacket(id)' /\ RecordEnd(id)' = RecordEnd(id)
      BY <2>1, <2>2, <2>3, <3>1, HoldsFrame
    <3>3. RecordEnd(id) \in Nat /\ RecordEnd(id) <= dtail
      BY <3>1, StoredType DEF HoldsPacket
    <3>4. ASSUME NEW v \in Writers, HasBytes(v)'
          PROVE  RecordEnd(id)' <= off'[v] \/ EndOff(v)' <= offlens'[id].off
      <4>1. CASE off'[v] = dtail
        BY <3>2, <3>3, <4>1
      <4>2. CASE /\ HasBytes(v) /\ EndOff(v)' = EndOff(v)
                 /\ off[v] \in Nat /\ off'[v] \in Nat /\ off[v] <= off'[v]
        <5>1. RecordEnd(id) <= off[v] \/ EndOff(v) <= offlens[id].off
          BY <3>1, <4>2 DEF ApartFrom
        <5>2. QED
          BY <2>3, <3>2, <3>3, <4>2, <5>1
      <4>3. QED
        BY <2>4, <3>4, <4>1, <4>2
    <3>5. QED
      BY <3>2, <3>4 DEF ApartFrom
  <2>6. QED
    BY <2>1, <2>5 DEF StoredInv
<1>3. CASE UNCHANGED <<current_read_id, offlens, dtail, dlog, accepted, locals>>
  BY <1>3 DEF locals, StoredInv, StoredIds, Appended, HoldsPacket, ApartFrom, RecordEnd,
              ReadPkt, ImageOf, EndOff, HasBytes
<1>4. QED
  BY <1>1, <1>2, <1>3
  DEF Next, ClaimChar, AssignChar, Tick, vars, shared

\* Every step keeps each entry of the offset log that of a packet stored or about to be.
LEMMA PointerStep ==
  ASSUME TypeOK, ControlInv, IdInv, PointerInv, [Next]_vars
  PROVE  PointerInv'
<1>1. ASSUME NEW w \in Writers, Writer(w), NEW v \in Writers, v # w
      PROVE  pc'[v] = pc[v] /\ off'[v] = off[v] /\ CurId(v)' = CurId(v) /\ CurPkt(v)' = CurPkt(v)
  <2>1. SameLocals(v)
    BY <1>1, Locality
  <2>2. Cur(v)' = Cur(v)
    BY <2>1 DEF SameLocals, Cur
  <2>3. QED
    BY <2>1, <2>2 DEF SameLocals, CurId, CurPkt
<1>2. ASSUME NEW w \in Writers, SetOffLen(w)
      PROVE  PointerInv'
  <2>1. /\ pc[w] = "set_offlen" /\ pc'[w] = "append"
        /\ UNCHANGED <<phase, pkts, n, start_id, off>>
        /\ set_without_alloc(CurId(w), off[w], CurPkt(w).len)
    BY <1>2 DEF SetOffLen, Goto, TypeOK, ControlType
  <2>2. Writer(w) /\ ~AppendPkt(w)
    BY <1>2, <2>1 DEF Writer, AppendPkt
  <2>3. CurId(w)' = CurId(w) /\ CurPkt(w)' = CurPkt(w) /\ off'[w] = off[w]
    BY <2>1 DEF CurId, CurPkt, Cur
  <2>4. /\ DOMAIN offlens' = DOMAIN offlens \cup {CurId(w)}
        /\ offlens'[CurId(w)] = [off |-> off[w], len |-> CurPkt(w).len]
        /\ \A x \in DOMAIN offlens : x # CurId(w) => offlens'[x] = offlens[x]
    BY <2>1 DEF set_without_alloc
  <2>5. StoredIds' = StoredIds
    BY <2>2, StoredStep
  <2>6. ASSUME NEW v \in Writers, pc'[v] = "append"
        PROVE  /\ CurId(v)' \in DOMAIN offlens'
               /\ offlens'[CurId(v)'] = [off |-> off'[v], len |-> CurPkt(v)'.len]
    <3>1. CASE v = w
      BY <2>3, <2>4, <3>1
    <3>2. CASE v # w
      <4>1. pc[v] = "append" /\ off'[v] = off[v] /\ CurId(v)' = CurId(v) /\ CurPkt(v)' = CurPkt(v)
        BY <1>1, <2>2, <2>6, <3>2
      <4>2. CurId(v) # CurId(w)
        BY <2>1, <3>2, <4>1, CurrentIdFresh
      <4>3. QED
        BY <2>4, <4>1, <4>2 DEF PointerInv
    <3>3. QED
      BY <3>1, <3>2
  <2>7. ASSUME NEW id \in DOMAIN offlens'
        PROVE  id \in StoredIds' \/ \E v \in Writers : pc'[v] = "append" /\ id = CurId(v)'
    <3>1. CASE id = CurId(w)
      BY <2>1, <2>3, <3>1
    <3>2. CASE id \in StoredIds
      BY <2>5, <3>2
    <3>3. ASSUME NEW v \in Writers, pc[v] = "append", id = CurId(v)
          PROVE  pc'[v] = "append" /\ id = CurId(v)'
      BY <1>1, <2>1, <2>2, <3>3
    <3>4. QED
      BY <2>4, <3>1, <3>2, <3>3 DEF PointerInv
  <2>8. QED
    BY <2>6, <2>7 DEF PointerInv
<1>3. ASSUME NEW w \in Writers, AppendPkt(w)
      PROVE  PointerInv'
  <2>1. /\ pc[w] = "append" /\ pc'[w] # "append" /\ offlens' = offlens
        /\ Writer(w)
    BY <1>3, MovePc DEF AppendPkt, Writer, TypeOK
  <2>2. StoredIds' = StoredIds \cup {CurId(w)}
    BY <1>3, AppendStored
  <2>3. ASSUME NEW v \in Writers, pc'[v] = "append"
        PROVE  /\ CurId(v)' \in DOMAIN offlens'
               /\ offlens'[CurId(v)'] = [off |-> off'[v], len |-> CurPkt(v)'.len]
    BY <1>1, <2>1, <2>3 DEF PointerInv
  <2>4. ASSUME NEW id \in DOMAIN offlens'
        PROVE  id \in StoredIds' \/ \E v \in Writers : pc'[v] = "append" /\ id = CurId(v)'
    BY <1>1, <2>1, <2>2 DEF PointerInv
  <2>5. QED
    BY <2>3, <2>4 DEF PointerInv
<1>4. ASSUME NEW w \in Writers, Writer(w), ~SetOffLen(w), ~AppendPkt(w)
      PROVE  PointerInv'
  <2>1. offlens' = offlens
    BY <1>4
    DEF Writer, Poll, ClaimIds, AllocIds, ClaimBytes, AllocBytes, LoadFilters,
        GetList, Reserve, Fill, Apply, End, shared
  <2>2. pc[w] # "append" /\ pc'[w] # "append"
    <3>1. CASE Reserve(w) \/ Fill(w) \/ Apply(w)
      BY <3>1, MovePc, MoveSelf DEF Reserve, Fill, Apply, TypeOK
    <3>2. QED
      BY <1>4, <3>1
      DEF Writer, Poll, ClaimIds, AllocIds, ClaimBytes, AllocBytes, LoadFilters,
          GetList, End, Goto, TypeOK, ControlType
  <2>3. StoredIds' = StoredIds
    BY <1>4, StoredStep
  <2>4. ASSUME NEW v \in Writers, pc'[v] = "append"
        PROVE  /\ CurId(v)' \in DOMAIN offlens'
               /\ offlens'[CurId(v)'] = [off |-> off'[v], len |-> CurPkt(v)'.len]
    BY <1>1, <1>4, <2>1, <2>2, <2>4 DEF PointerInv
  <2>5. ASSUME NEW id \in DOMAIN offlens'
        PROVE  id \in StoredIds' \/ \E v \in Writers : pc'[v] = "append" /\ id = CurId(v)'
    BY <1>1, <1>4, <2>1, <2>2, <2>3 DEF PointerInv
  <2>6. QED
    BY <2>4, <2>5 DEF PointerInv
<1>5. CASE UNCHANGED <<current_read_id, offlens, accepted, locals>>
  BY <1>5 DEF locals, PointerInv, CurId, CurPkt, Cur, StoredIds, Appended, HasBytes
<1>6. QED
  BY <1>2, <1>3, <1>4, <1>5
  DEF Next, ClaimChar, AssignChar, Tick, vars, shared

-----------------------------------------------------------------------------
(* Buckets                                                                 *)

\* The buckets of a part of an interval are among those of the interval.
LEMMA BucketsWithin ==
  ASSUME NEW B \in Nat \ {0}, NEW i \in Nat, NEW j \in Nat, NEW a \in Nat, NEW b \in Nat,
         i <= a, b <= j
  PROVE  Buckets(a, b, B) \subseteq Buckets(i, j, B)
<1>1. i \div B <= a \div B /\ b \div B <= j \div B
  BY DivMonotone
<1>2. i \div B \in Nat /\ a \div B \in Nat /\ b \div B \in Nat /\ j \div B \in Nat
  OBVIOUS
<1>3. QED
  BY <1>1, <1>2 DEF Buckets, BucketIdx

BucketsOf(w) ==
  /\ HasIds(w) /\ pc[w] # "alloc_ids" =>
       Buckets(start_id[w], start_id[w] + Len(pkts[w]), IdBlockSize) \subseteq id_buckets
  /\ HasBytes(w) /\ pc[w] # "alloc_bytes" =>
       Buckets(off[w], EndOff(w), BlockSize) \subseteq data_buckets

\* Every step keeps the buckets of the ids and bytes in use allocated.
LEMMA BucketStep ==
  ASSUME TypeOK, ControlInv, BucketInv, [Next]_vars
  PROVE  BucketInv'
<1>1. \A w \in Writers : BucketsOf(w)
  BY DEF BucketInv, BucketsOf
<1>2. SUFFICES ASSUME NEW v \in Writers PROVE BucketsOf(v)'
  BY DEF BucketInv, BucketsOf
<1>3. ASSUME NEW w \in Writers, Writer(w)
      PROVE  id_buckets \subseteq id_buckets' /\ data_buckets \subseteq data_buckets'
  BY <1>3
  DEF Writer, Poll, ClaimIds, AllocIds, ClaimBytes, AllocBytes, LoadFilters, GetList,
      Reserve, Fill, SetOffLen, AppendPkt, Apply, End, shared,
      ensure_alloc_ids, ensure_alloc_bytes
<1>4. ASSUME NEW w \in Writers, Writer(w), v # w
      PROVE  BucketsOf(v)'
  <2>1. SameLocals(v)
    BY <1>4, Locality
  <2>2. QED
    BY <1>1, <1>3, <1>4, <2>1 DEF SameLocals, BucketsOf, HasIds, HasBytes, EndOff
<1>5. ASSUME Poll(v) \/ ClaimIds(v) \/ End(v)
      PROVE  BucketsOf(v)'
  BY <1>5 DEF Poll, ClaimIds, End, Goto, BucketsOf, HasIds, HasBytes, TypeOK, ControlType
<1>6. ASSUME AllocIds(v)
      PROVE  BucketsOf(v)'
  BY <1>6 DEF AllocIds, ensure_alloc_ids, Goto, BucketsOf, HasIds, HasBytes,
              TypeOK, ControlType
<1>7. ASSUME ClaimBytes(v)
      PROVE  BucketsOf(v)'
  BY <1>1, <1>7 DEF ClaimBytes, Goto, BucketsOf, HasIds, HasBytes, TypeOK, ControlType
<1>8. ASSUME AllocBytes(v)
      PROVE  BucketsOf(v)'
  <2>1. /\ pc[v] = "alloc_bytes" /\ pc'[v] = "load_filters"
        /\ UNCHANGED <<id_buckets, start_id, pkts, off, n>>
        /\ data_buckets' = data_buckets \cup Buckets(off[v], off[v] + NumBytes(pkts[v]), BlockSize)
    BY <1>8 DEF AllocBytes, ensure_alloc_bytes, Goto, TypeOK, ControlType
  <2>2. EndOff(v)' = off[v] + NumBytes(pkts[v])
    <3>1. n[v] = 0 /\ Layout(pkts[v])[0] = 0 /\ NumBytes(pkts[v]) \in Nat /\ off[v] \in Nat
      BY <2>1, LayoutType, NumBytesType DEF ControlInv, ControlOf, TypeOK, BurstType
    <3>2. QED
      BY <2>1, <3>1 DEF EndOff
  <2>3. Buckets(off[v], EndOff(v), BlockSize)' \subseteq data_buckets'
    BY <2>1, <2>2
  <2>4. QED
    BY <1>1, <2>1, <2>3 DEF BucketsOf, HasIds, HasBytes
<1>9. ASSUME Middle(v), ~AllocBytes(v)
      PROVE  BucketsOf(v)'
  <2>1. /\ HasIds(v) /\ HasBytes(v) /\ UNCHANGED <<start_id, pkts>>
        /\ EndOff(v)' = EndOff(v) /\ off'[v] \in Nat /\ off[v] <= off'[v]
        /\ EndOff(v) \in Nat /\ off[v] \in Nat
    BY <1>9, MiddleStep, MiddleBytes, EndOffType
  <2>2. pc[v] # "alloc_ids" /\ pc[v] # "alloc_bytes"
    BY <1>9 DEF Middle, LoadFilters, GetList, Reserve, Fill, SetOffLen, AppendPkt, Apply, Goto
  <2>3. /\ Buckets(start_id[v], start_id[v] + Len(pkts[v]), IdBlockSize) \subseteq id_buckets
        /\ Buckets(off[v], EndOff(v), BlockSize) \subseteq data_buckets
    BY <1>1, <2>1, <2>2 DEF BucketsOf
  <2>4. Buckets(off'[v], EndOff(v), BlockSize) \subseteq Buckets(off[v], EndOff(v), BlockSize)
    BY <2>1, SizeAssumption, BucketsWithin
  <2>5. Writer(v)
    BY <1>9 DEF Middle, Writer
  <2>6. QED
    BY <1>3, <2>1, <2>3, <2>4, <2>5 DEF BucketsOf
<1>10. CASE UNCHANGED <<id_buckets, data_buckets, locals>>
  BY <1>1, <1>10 DEF locals, BucketsOf, HasIds, HasBytes, EndOff
<1>11. QED
  BY <1>4, <1>5, <1>6, <1>7, <1>8, <1>9, <1>10
  DEF Next, Writer, Middle, ClaimChar, AssignChar, Tick, vars, shared

-----------------------------------------------------------------------------
(* Bounds                                                                  *)

\* Every step keeps time stamps and bursts within their bounds.
LEMMA BoundStep ==
  ASSUME TypeOK, BoundInv, [Next]_vars
  PROVE  BoundInv'
<1>1. ASSUME NEW w \in Writers, Poll(w)
      PROVE  BoundInv'
  <2>1. PICK b \in Bursts : pkts' = [pkts EXCEPT ![w] = b]
    BY <1>1 DEF Poll
  <2>2. Len(b) <= MaxBurst
    BY BurstAssumption DEF Bursts
  <2>3. pkts'[w] = b /\ now'[w] = clock /\ clock' = clock
    BY <1>1, <2>1 DEF Poll, shared, TypeOK, BurstType
  <2>4. \A v \in Writers : v # w => pkts'[v] = pkts[v] /\ now'[v] = now[v]
    BY <1>1, <2>1 DEF Poll, TypeOK, BurstType
  <2>5. QED
    BY <2>2, <2>3, <2>4 DEF BoundInv
<1>2. ASSUME NEW w \in Writers, End(w)
      PROVE  BoundInv'
  <2>1. pkts'[w] = <<>> /\ now'[w] = 0 /\ clock' = clock
    BY <1>2 DEF End, TypeOK, BurstType
  <2>2. \A v \in Writers : v # w => pkts'[v] = pkts[v] /\ now'[v] = now[v]
    BY <1>2 DEF End, TypeOK, BurstType
  <2>3. 0 \in 0..MaxTime /\ Len(<<>>) <= MaxBurst
    BY BoundAssumption, BurstAssumption
  <2>4. QED
    BY <2>1, <2>2, <2>3 DEF BoundInv
<1>3. CASE Tick
  BY <1>3, BoundAssumption DEF Tick, locals, BoundInv
<1>4. CASE UNCHANGED <<clock, pkts, now>>
  BY <1>4 DEF BoundInv
<1>5. QED
  BY <1>1, <1>2, <1>3, <1>4
  DEF Next, Writer, ClaimIds, AllocIds, ClaimBytes, AllocBytes, LoadFilters, GetList,
      Reserve, Fill, SetOffLen, AppendPkt, Apply, ClaimChar, AssignChar, vars, shared, locals

-----------------------------------------------------------------------------
(* The invariant and what follows from it                                  *)

\* The empty store satisfies the inductive invariant.
LEMMA StoreInit ==
  ASSUME Init
  PROVE  StoreInv
<1>1. TypeOK /\ IdInv /\ ControlInv
  BY TypeInit, IdInit
<1>2. \A w \in Writers : ~HasIds(w) /\ ~HasBytes(w) /\ pc[w] # "append"
  BY DEF Init, HasIds, HasBytes
<1>3. StoredIds = {} /\ DOMAIN offlens = {}
  BY DEF Init, StoredIds
<1>4. BoundInv
  BY BoundAssumption, BurstAssumption DEF Init, BoundInv
<1>5. QED
  BY <1>1, <1>2, <1>3, <1>4
  DEF StoreInv, ByteInv, DisjointBytes, StoredInv, PointerInv, BucketInv

\* Every step preserves the inductive invariant.
LEMMA StoreStep ==
  ASSUME StoreInv, [Next]_vars
  PROVE  StoreInv'
<1>1. /\ TypeOK /\ IdInv /\ ControlInv /\ ByteInv /\ StoredInv /\ PointerInv
      /\ BucketInv /\ BoundInv
  BY DEF StoreInv
<1>2. TypeOK' /\ IdInv' /\ ControlInv'
  BY <1>1, TypeStep, IdStep, ControlStep
<1>3. ByteInv' /\ StoredInv' /\ PointerInv' /\ BucketInv' /\ BoundInv'
  BY <1>1, ByteStep, StoredInvStep, PointerStep, BucketStep, BoundStep
<1>4. QED
  BY <1>2, <1>3 DEF StoreInv

\* The invariant is inductive: it holds in every reachable state.
THEOREM StoreCorrect == Spec => []StoreInv
<1>1. Init => StoreInv
  BY StoreInit
<1>2. StoreInv /\ [Next]_vars => StoreInv'
  BY StoreStep
<1>3. QED
  BY <1>1, <1>2, PTL DEF Spec

\* A published id is one whose packet is stored.
LEMMA PublishedStored ==
  ASSUME StoreInv, NEW id \in 0..(current_read_id - 1)
  PROVE  Record(id) = ImageOf(id)
<1>1. id \in StoredIds
  <2>1. current_read_id \in 0..current_write_id /\ current_write_id \in Nat
        /\ DOMAIN accepted = 0..(current_write_id - 1)
    BY DEF StoreInv, TypeOK, IdType
  <2>2. QED
    BY <2>1 DEF StoredIds, Appended
<1>2. HoldsPacket(id)
  BY <1>1 DEF StoreInv, StoredInv
<1>3. id \in DOMAIN offlens /\ offlens[id] \in [off : Nat, len : Nat]
  BY <1>2 DEF HoldsPacket, StoreInv, TypeOK, OfflenType
<1>4. lookup(id) = offlens[id] /\ lookup(id) # Unset
  BY <1>3, UnsetAssumption DEF lookup
<1>5. QED
  BY <1>2, <1>4 DEF Record, HoldsPacket

\* Every id below num_ids() leads readers to the packet and time stamp it was
\* claimed for, for any number of writers and any burst, block and packet size.
THEOREM PublishedReadableHolds == Spec => []PublishedReadable
<1>1. StoreInv => PublishedReadable
  BY PublishedStored DEF PublishedReadable
<1>2. QED
  BY <1>1, StoreCorrect, PTL

\* The packets a bucket has room for wherever they start: no longer, with their
\* time stamp, than the extra cells and one.
PacketsFit == \A p \in Packets : PktBytes(p) <= BufferSize + 1

\* append_pkt stays inside the bucket it starts in when the packet fits.
LEMMA RunWithin ==
  ASSUME PacketsFit, NEW p \in Packets, NEW offset \in Nat,
         NEW a \in Run(offset, PktBytes(p), BlockSize)
  PROVE  a[2] < BlockSize + BufferSize
<1>1. PICK j \in 0..(PktBytes(p) - 1) : a = Addr(offset, j, BlockSize)
  BY DEF Run
<1>2. a[2] = (offset % BlockSize) + j
  BY <1>1 DEF Addr, BucketOff
<1>3. BlockSize \in Nat \ {0} /\ BufferSize \in Nat /\ PktBytes(p) \in Nat
  BY SizeAssumption, PktBytesType
<1>4. offset % BlockSize \in 0..(BlockSize - 1) /\ PktBytes(p) <= BufferSize + 1
  BY <1>3, DivMod DEF PacketsFit
<1>5. QED
  BY <1>2, <1>3, <1>4

\* No packet is written past the extra cells of its bucket, provided every packet
\* of the ports fits: the condition request_bytes and append_pkt do not check.
THEOREM WithinBucketsHolds ==
  ASSUME PacketsFit
  PROVE  Spec => []WithinBuckets
<1>1. Init => WithinBuckets
  BY DEF Init, WithinBuckets
<1>2. ASSUME StoreInv, WithinBuckets, [Next]_vars
      PROVE  WithinBuckets'
  <2>1. TypeOK /\ ControlInv
    BY <1>2 DEF StoreInv
  <2>2. ASSUME NEW w \in Writers, AppendPkt(w)
        PROVE  WithinBuckets'
    <3>1. pc[w] = "append" /\ append_pkt(off[w], now[w], CurPkt(w))
      BY <2>2 DEF AppendPkt
    <3>2. CurPkt(w) \in Packets /\ off[w] \in Nat
      BY <2>1, <3>1, CurrentPacket DEF TypeOK, BurstType
    <3>3. DOMAIN dlog' = DOMAIN dlog \cup Run(off[w], PktBytes(CurPkt(w)), BlockSize)
      BY <3>1 DEF append_pkt
    <3>4. \A a \in Run(off[w], PktBytes(CurPkt(w)), BlockSize) : a[2] < BlockSize + BufferSize
      BY <3>2, RunWithin
    <3>5. QED
      BY <1>2, <3>3, <3>4 DEF WithinBuckets
  <2>3. CASE dlog' = dlog
    BY <1>2, <2>3 DEF WithinBuckets
  <2>4. QED
    BY <1>2, <2>2, <2>3
    DEF Next, Writer, Poll, ClaimIds, AllocIds, ClaimBytes, AllocBytes, LoadFilters, GetList,
        Reserve, Fill, SetOffLen, Apply, End, ClaimChar, AssignChar, Tick, vars, shared
<1>3. QED
  BY <1>1, <1>2, StoreCorrect, PTL DEF Spec

\* ptr() and set_unsafe() never meet a bucket that ensure_alloc has not made.
THEOREM AllocatedBeforeUseHolds == Spec => []AllocatedBeforeUse
<1>1. ASSUME StoreInv, NEW w \in Writers
      PROVE  /\ pc[w] = "set_offlen" => BucketIdx(CurId(w), IdBlockSize) \in id_buckets
             /\ pc[w] = "append" => BucketIdx(off[w], BlockSize) \in data_buckets
  <2>1. TypeOK /\ ControlInv /\ BucketInv
    BY <1>1 DEF StoreInv
  <2>2. ASSUME pc[w] = "set_offlen"
        PROVE  BucketIdx(CurId(w), IdBlockSize) \in id_buckets
    <3>1. CurId(w) \in Nat /\ CurId(w) = start_id[w] + n[w] /\ n[w] + 1 \in 1..Len(pkts[w])
      BY <2>1, <2>2, CurrentPacket
    <3>2. start_id[w] \in Nat /\ n[w] \in Nat /\ Len(pkts[w]) \in Nat
      BY <2>1 DEF TypeOK, BurstType
    <3>3. Buckets(start_id[w], start_id[w] + Len(pkts[w]), IdBlockSize) \subseteq id_buckets
      BY <2>1, <2>2 DEF BucketInv, HasIds
    <3>4. Buckets(CurId(w), CurId(w), IdBlockSize)
            \subseteq Buckets(start_id[w], start_id[w] + Len(pkts[w]), IdBlockSize)
      <4>1. /\ start_id[w] <= CurId(w) /\ CurId(w) <= start_id[w] + Len(pkts[w])
            /\ start_id[w] + Len(pkts[w]) \in Nat
        BY <3>1, <3>2
      <4>2. QED
        BY <3>1, <3>2, <4>1, SizeAssumption, BucketsWithin
    <3>5. CurId(w) \div IdBlockSize \in Nat
      BY <3>1, SizeAssumption
    <3>6. QED
      BY <3>3, <3>4, <3>5 DEF Buckets, BucketIdx
  <2>3. ASSUME pc[w] = "append"
        PROVE  BucketIdx(off[w], BlockSize) \in data_buckets
    <3>1. HasBytes(w)
      BY <2>3 DEF HasBytes
    <3>2. off[w] \in Nat /\ EndOff(w) \in Nat /\ off[w] <= EndOff(w)
      BY <2>1, <3>1, EndOffType
    <3>3. Buckets(off[w], EndOff(w), BlockSize) \subseteq data_buckets
      BY <2>1, <2>3, <3>1 DEF BucketInv
    <3>4. Buckets(off[w], off[w], BlockSize) \subseteq Buckets(off[w], EndOff(w), BlockSize)
      BY <3>2, SizeAssumption, BucketsWithin
    <3>5. off[w] \div BlockSize \in Nat
      BY <3>2, SizeAssumption
    <3>6. QED
      BY <3>3, <3>4, <3>5 DEF Buckets, BucketIdx
  <2>4. QED
    BY <2>2, <2>3
<1>2. StoreInv => AllocatedBeforeUse
  BY <1>1 DEF AllocatedBeforeUse
<1>3. QED
  BY <1>2, StoreCorrect, PTL

-----------------------------------------------------------------------------
(* Exclusive regions                                                       *)

\* The place of a later packet of a burst, from running sums of lengths.
LEMMA PlaceArithmetic ==
  ASSUME NEW o \in Nat, NEW x \in Nat, NEW y \in Nat, NEW b \in Nat, NEW total \in Nat,
         y <= x, x + b <= total
  PROVE  /\ o + (x - y) \in Nat
         /\ o <= o + (x - y)
         /\ (o + (x - y)) + b <= o + (total - y)
OBVIOUS

\* The packets a writer has still to append lie between off and EndOff.
LEMMA FuturePlace ==
  ASSUME TypeOK, ControlInv, NEW w \in Writers, HasBytes(w),
         NEW m \in (n[w] + 1)..Len(pkts[w])
  PROVE  /\ PktOff(w, m) \in Nat
         /\ PktBytes(pkts[w][m]) \in Nat
         /\ off[w] <= PktOff(w, m)
         /\ PktOff(w, m) + PktBytes(pkts[w][m]) <= EndOff(w)
<1>1. /\ pkts[w] \in Seq(Packets) /\ Len(pkts[w]) \in Nat
      /\ n[w] \in 0..Len(pkts[w]) /\ off[w] \in Nat
      /\ Layout(pkts[w]) \in [0..Len(pkts[w]) -> Nat]
  BY EndOffType
<1>2. /\ m \in 1..Len(pkts[w]) /\ m - 1 \in 0..Len(pkts[w])
      /\ m - 1 \in n[w]..Len(pkts[w]) /\ Len(pkts[w]) \in m..Len(pkts[w])
      /\ m \in 0..Len(pkts[w])
  BY <1>1
<1>3. PktBytes(pkts[w][m]) \in Nat
  BY <1>1, <1>2, PktBytesType
<1>4. Layout(pkts[w])[m] = Layout(pkts[w])[m - 1] + PktBytes(pkts[w][m])
  BY <1>1, <1>2, LayoutType
<1>5. Layout(pkts[w])[n[w]] <= Layout(pkts[w])[m - 1]
  BY <1>1, <1>2, LayoutMonotone
<1>6. Layout(pkts[w])[m] <= NumBytes(pkts[w])
  BY <1>1, <1>2, LayoutMonotone DEF NumBytes
<1> DEFINE x == Layout(pkts[w])[m - 1]
           y == Layout(pkts[w])[n[w]]
<1>7. x \in Nat /\ y \in Nat
  BY <1>1, <1>2
<1>8. NumBytes(pkts[w]) \in Nat
  BY <1>1, LayoutType DEF NumBytes
<1>9. PktOff(w, m) = off[w] + (x - y)
  BY DEF PktOff
<1>10. EndOff(w) = off[w] + (NumBytes(pkts[w]) - y)
  BY DEF EndOff
<1> HIDE DEF x, y
<1>11. y <= x /\ x + PktBytes(pkts[w][m]) <= NumBytes(pkts[w])
  BY <1>4, <1>5, <1>6 DEF x, y
<1>12. QED
  BY <1>1, <1>3, <1>7, <1>8, <1>9, <1>10, <1>11, PlaceArithmetic

\* A run outside off..EndOff shares no cell with them.
LEMMA FutureApart ==
  ASSUME TypeOK, ControlInv, NEW w \in Writers, HasBytes(w),
         NEW o \in Nat, NEW len \in Nat, o + len <= off[w] \/ EndOff(w) <= o
  PROVE  Run(o, len, BlockSize) \cap FutureCells(w) = {}
<1>1. SUFFICES ASSUME NEW m \in (n[w] + 1)..Len(pkts[w])
               PROVE  Run(o, len, BlockSize)
                        \cap Run(PktOff(w, m), PktBytes(pkts[w][m]), BlockSize) = {}
  BY DEF FutureCells
<1>2. /\ PktOff(w, m) \in Nat /\ PktBytes(pkts[w][m]) \in Nat
      /\ off[w] <= PktOff(w, m) /\ PktOff(w, m) + PktBytes(pkts[w][m]) <= EndOff(w)
      /\ off[w] \in Nat /\ EndOff(w) \in Nat
  BY FuturePlace, EndOffType
<1>3. CASE o + len <= off[w]
  <2>1. o + len <= PktOff(w, m)
    BY <1>2, <1>3
  <2>2. QED
    BY <1>2, <2>1, DisjointRuns
<1>4. CASE EndOff(w) <= o
  <2>1. PktOff(w, m) + PktBytes(pkts[w][m]) <= o
    BY <1>2, <1>4
  <2>2. QED
    BY <1>2, <2>1, DisjointRuns
<1>5. QED
  BY <1>3, <1>4

\* "This thread has exclusive access to the region", for every number of writers.
THEOREM ExclusiveRegionsHolds == Spec => []ExclusiveRegions
<1>1. ASSUME StoreInv, NEW w \in Writers, HasBytes(w), NEW v \in Writers, HasBytes(v), v # w
      PROVE  FutureCells(w) \cap FutureCells(v) = {}
  <2>1. TypeOK /\ ControlInv /\ ByteInv
    BY <1>1 DEF StoreInv
  <2>2. EndOff(w) <= off[v] \/ EndOff(v) <= off[w]
    BY <1>1, <2>1 DEF ByteInv, DisjointBytes
  <2>3. ASSUME NEW m \in (n[w] + 1)..Len(pkts[w])
        PROVE  Run(PktOff(w, m), PktBytes(pkts[w][m]), BlockSize) \cap FutureCells(v) = {}
    <3>1. /\ PktOff(w, m) \in Nat /\ PktBytes(pkts[w][m]) \in Nat
          /\ off[w] <= PktOff(w, m) /\ PktOff(w, m) + PktBytes(pkts[w][m]) <= EndOff(w)
          /\ off[w] \in Nat /\ EndOff(w) \in Nat /\ off[v] \in Nat /\ EndOff(v) \in Nat
      BY <1>1, <2>1, FuturePlace, EndOffType
    <3>2. \/ PktOff(w, m) + PktBytes(pkts[w][m]) <= off[v]
          \/ EndOff(v) <= PktOff(w, m)
      BY <2>2, <3>1
    <3>3. QED
      BY <1>1, <2>1, <3>1, <3>2, FutureApart
  <2>4. QED
    BY <2>3 DEF FutureCells
<1>2. ASSUME StoreInv, NEW w \in Writers, HasBytes(w), NEW id \in DOMAIN offlens,
             ~(pc[w] = "append" /\ id = CurId(w))
      PROVE  Run(offlens[id].off, TsBytes + offlens[id].len, BlockSize)
               \cap FutureCells(w) = {}
  <2>1. TypeOK /\ ControlInv /\ ByteInv /\ StoredInv /\ PointerInv
    BY <1>2 DEF StoreInv
  <2>2. /\ offlens[id].off \in Nat /\ TsBytes + offlens[id].len \in Nat
        /\ RecordEnd(id) = offlens[id].off + (TsBytes + offlens[id].len)
    BY <1>2, <2>1, StoredType
  <2>3. CASE id \in StoredIds
    <3>1. RecordEnd(id) <= off[w] \/ EndOff(w) <= offlens[id].off
      BY <1>2, <2>1, <2>3 DEF StoredInv, ApartFrom
    <3>2. QED
      BY <1>2, <2>1, <2>2, <3>1, FutureApart
  <2>4. ASSUME NEW v \in Writers, pc[v] = "append", id = CurId(v)
        PROVE  Run(offlens[id].off, TsBytes + offlens[id].len, BlockSize)
                 \cap FutureCells(w) = {}
    <3>1. v # w
      BY <1>2, <2>4
    <3>2. /\ HasBytes(v) /\ PktBytes(CurPkt(v)) \in Nat
          /\ off[v] + PktBytes(CurPkt(v)) <= EndOff(v)
      BY <2>1, <2>4, CurrentPlace
    <3>3. /\ off[v] \in Nat /\ EndOff(v) \in Nat /\ off[w] \in Nat /\ EndOff(w) \in Nat
      BY <1>2, <2>1, <3>2, EndOffType
    <3>4. EndOff(v) <= off[w] \/ EndOff(w) <= off[v]
      BY <1>2, <2>1, <3>1, <3>2 DEF ByteInv, DisjointBytes
    <3>5. offlens[id].off = off[v] /\ TsBytes + offlens[id].len = PktBytes(CurPkt(v))
      <4>1. offlens[id] = [off |-> off[v], len |-> CurPkt(v).len]
        BY <2>1, <2>4 DEF PointerInv
      <4>2. QED
        BY <4>1 DEF PktBytes
    <3>6. \/ off[v] + PktBytes(CurPkt(v)) <= off[w]
          \/ EndOff(w) <= off[v]
      BY <3>2, <3>3, <3>4
    <3>7. QED
      BY <1>2, <2>1, <3>2, <3>3, <3>5, <3>6, FutureApart
  <2>5. QED
    BY <1>2, <2>1, <2>3, <2>4 DEF PointerInv
<1>3. StoreInv => ExclusiveRegions
  BY <1>1, <1>2 DEF ExclusiveRegions
<1>4. QED
  BY <1>3, StoreCorrect, PTL

-----------------------------------------------------------------------------
(* Refinement                                                              *)

\* What readers see is the published prefix of the claimed records.
VisibleIsPrefix ==
  /\ current_read_id \in Nat /\ current_write_id \in Nat
  /\ current_read_id <= current_write_id
  /\ VisibleRecords = [i \in 1..current_read_id |-> ImageOf(i - 1)]
  /\ VisibleRecords = [i \in 1..current_read_id |-> ClaimedRecords[i]]

\* What readers see is a prefix of what has been claimed.
LEMMA VisiblePrefix == StoreInv => VisibleIsPrefix
<1> SUFFICES ASSUME StoreInv PROVE VisibleIsPrefix
  OBVIOUS
<1>1. /\ current_read_id \in Nat /\ current_write_id \in Nat
      /\ current_read_id <= current_write_id
  BY DEF StoreInv, TypeOK, IdType
<1>2. ASSUME NEW i \in 1..current_read_id
      PROVE  Record(i - 1) = ImageOf(i - 1) /\ ClaimedRecords[i] = ImageOf(i - 1)
  <2>1. i - 1 \in 0..(current_read_id - 1) /\ i \in 1..current_write_id
    BY <1>1
  <2>2. QED
    BY <2>1, PublishedStored DEF ClaimedRecords
<1>3. QED
  BY <1>1, <1>2 DEF VisibleIsPrefix, VisibleRecords, num_ids

\* The same after a step.
LEMMA VisiblePrefixNext == StoreInv /\ [Next]_vars => VisibleIsPrefix'
<1>1. StoreInv' => VisibleIsPrefix'
  BY VisiblePrefix, PTL
<1>2. QED
  BY <1>1, StoreStep

\* Concatenation, entry by entry.
LEMMA Concatenation ==
  ASSUME NEW S, NEW s \in Seq(S), NEW t \in Seq(S)
  PROVE  s \o t = [i \in 1..(Len(s) + Len(t)) |->
                     IF i <= Len(s) THEN s[i] ELSE t[i - Len(s)]]
<1> DEFINE c == s \o t
           R(i) == IF i <= Len(s) THEN s[i] ELSE t[i - Len(s)]
<1>1. c \in Seq(S) /\ Len(c) = Len(s) + Len(t)
  OBVIOUS
<1>2. ASSUME NEW i \in 1..(Len(s) + Len(t))
      PROVE  c[i] = R(i)
  OBVIOUS
<1> HIDE DEF c, R
<1>3. c = [i \in 1..(Len(s) + Len(t)) |-> c[i]]
  BY <1>1
<1>4. c = [i \in 1..(Len(s) + Len(t)) |-> R(i)]
  BY <1>2, <1>3
<1>5. QED
  BY <1>4 DEF c, R

\* Claiming ids is a Claim of PublishedLog.
LEMMA ClaimRefines ==
  ASSUME StoreInv, NEW w \in Writers, ClaimIds(w)
  PROVE  Log!Claim
<1> DEFINE L == Len(pkts[w])
           N == current_write_id
           b == [i \in 1..L |-> Image(now[w], pkts[w][i])]
           Images == {Image(t, p) : t \in 0..MaxTime, p \in Packets}
<1>1. VisibleIsPrefix /\ VisibleIsPrefix'
  <2>1. [Next]_vars
    BY DEF Next, Writer
  <2>2. QED
    BY <2>1, VisiblePrefix, VisiblePrefixNext
<1>2. /\ N \in Nat /\ current_read_id \in Nat /\ L \in Nat /\ L <= MaxBurst
      /\ pkts[w] \in Seq(Packets) /\ now[w] \in 0..MaxTime
      /\ current_write_id' = N + L /\ current_read_id' = current_read_id
      /\ current_read_id <= N
  BY DEF StoreInv, TypeOK, IdType, BurstType, BoundInv, ClaimIds, claim_ids
<1>3. \A i \in 1..N : accepted'[i - 1] = accepted[i - 1]
  BY <1>2 DEF ClaimIds
<1>4. ASSUME NEW i \in (N + 1)..(N + L)
      PROVE  /\ accepted'[i - 1].ts = now[w]
             /\ accepted'[i - 1].pkt = pkts[w][i - N]
  <2>1. /\ i - 1 \in 0..(current_write_id' - 1) /\ ~(i - 1 < N)
        /\ (i - 1) - N + 1 = i - N
    BY <1>2
  <2>2. accepted'[i - 1] = [ts |-> now[w], chars |-> known[w],
                            pkt |-> pkts[w][(i - 1) - N + 1]]
    BY <2>1 DEF ClaimIds
  <2>3. QED
    BY <2>1, <2>2
<1>5. b \in Log!Batches
  <2>1. b \in [1..L -> Images]
    BY <1>2
  <2>2. L \in 0..MaxBurst
    BY <1>2, BurstAssumption
  <2> HIDE DEF b, L
  <2>3. QED
    BY <2>1, <2>2 DEF Log!Batches
<1>6. ClaimedRecords' = ClaimedRecords \o b
  <2> DEFINE S == {ImageOf(i - 1) : i \in 1..N} \cup Images
             R(i) == IF i <= N THEN ClaimedRecords[i] ELSE b[i - N]
  <2>1. ClaimedRecords \in Seq(S) /\ Len(ClaimedRecords) = N
    <3>1. ClaimedRecords \in [1..N -> S]
      BY DEF ClaimedRecords
    <3> HIDE DEF S, N
    <3>2. QED
      BY <1>2, <3>1
  <2>2. b \in Seq(S) /\ Len(b) = L
    BY <1>2
  <2>3. ClaimedRecords \o b = [i \in 1..(N + L) |-> R(i)]
    <3> DEFINE c == ClaimedRecords
    <3> HIDE DEF S, b, N, L, c
    <3>1. c \in Seq(S) /\ Len(c) = N
      BY <2>1 DEF c
    <3>2. c \o b = [i \in 1..(Len(c) + Len(b)) |->
                      IF i <= Len(c) THEN c[i] ELSE b[i - Len(c)]]
      BY <2>2, <3>1, Concatenation
    <3>3. c \o b = [i \in 1..(N + L) |-> IF i <= N THEN c[i] ELSE b[i - N]]
      BY <2>2, <3>1, <3>2
    <3>4. QED
      BY <3>3 DEF c
  <2>4. ClaimedRecords' = [i \in 1..(N + L) |-> ImageOf(i - 1)']
    BY <1>2 DEF ClaimedRecords
  <2>5. ASSUME NEW i \in 1..(N + L)
        PROVE  ImageOf(i - 1)' = R(i)
    <3>1. CASE i <= N
      <4>1. i \in 1..N
        BY <1>2, <3>1
      <4>2. QED
        BY <1>3, <3>1, <4>1 DEF ImageOf, ClaimedRecords
    <3>2. CASE ~(i <= N)
      <4>1. i \in (N + 1)..(N + L) /\ i - N \in 1..L
        BY <1>2, <3>2
      <4>2. ImageOf(i - 1)' = Image(now[w], pkts[w][i - N])
        BY <1>4, <4>1 DEF ImageOf
      <4>3. QED
        BY <3>2, <4>1, <4>2
    <3>3. QED
      BY <3>1, <3>2
  <2> HIDE DEF R
  <2>6. QED
    BY <2>3, <2>4, <2>5
<1>7. VisibleRecords' = VisibleRecords
  <2>1. /\ VisibleRecords = [i \in 1..current_read_id |-> ImageOf(i - 1)]
        /\ VisibleRecords' = [i \in 1..current_read_id |-> ImageOf(i - 1)']
    BY <1>1, <1>2 DEF VisibleIsPrefix
  <2>2. \A i \in 1..current_read_id : ImageOf(i - 1)' = ImageOf(i - 1)
    BY <1>2, <1>3 DEF ImageOf
  <2>3. QED
    BY <2>1, <2>2
<1>8. QED
  BY <1>5, <1>6, <1>7 DEF Log!Claim

\* Publishing a burst is a Publish of PublishedLog.
LEMMA EndRefines ==
  ASSUME StoreInv, NEW w \in Writers, End(w)
  PROVE  Log!Publish
<1>1. VisibleIsPrefix /\ VisibleIsPrefix'
  <2>1. [Next]_vars
    BY DEF Next, Writer
  <2>2. QED
    BY <2>1, VisiblePrefix, VisiblePrefixNext
<1>2. ClaimedRecords' = ClaimedRecords
  <2>1. accepted' = accepted /\ current_write_id' = current_write_id
    BY DEF End
  <2>2. QED
    BY <2>1 DEF ClaimedRecords, ImageOf
<1>3. /\ start_id[w] \in Nat /\ Len(pkts[w]) \in Nat
      /\ current_read_id = start_id[w] /\ current_read_id' = start_id[w] + Len(pkts[w])
      /\ current_write_id' = current_write_id
  BY DEF StoreInv, TypeOK, BurstType, End, end
<1>4. Len(VisibleRecords) = current_read_id /\ Len(ClaimedRecords) = current_write_id
  BY <1>1 DEF VisibleIsPrefix, ClaimedRecords
<1>5. current_read_id' \in Len(VisibleRecords)..Len(ClaimedRecords)
  BY <1>1, <1>3, <1>4 DEF VisibleIsPrefix
<1>6. VisibleRecords' = [i \in 1..current_read_id' |-> ClaimedRecords[i]]
  BY <1>1, <1>2 DEF VisibleIsPrefix
<1>7. QED
  BY <1>2, <1>5, <1>6 DEF Log!Publish

\* Every other step leaves what readers see, and what is claimed, as it is.
LEMMA OthersStutter ==
  ASSUME StoreInv, [Next]_vars,
         UNCHANGED <<current_write_id, current_read_id, accepted>>
  PROVE  UNCHANGED <<ClaimedRecords, VisibleRecords>>
<1>1. VisibleIsPrefix /\ VisibleIsPrefix'
  BY VisiblePrefix, VisiblePrefixNext
<1>2. ClaimedRecords' = ClaimedRecords
  BY DEF ClaimedRecords, ImageOf
<1>3. QED
  BY <1>1, <1>2 DEF VisibleIsPrefix

\* The store implements PublishedLog: readers see a growing, complete and
\* unchanging prefix of the records in the order in which ids were claimed.
THEOREM Refinement == Spec => ReadersSeeLog
<1>1. Init => Log!Init
  BY DEF Init, Log!Init, ClaimedRecords, VisibleRecords, num_ids
<1>2. StoreInv /\ [Next]_vars => [Log!Next]_(Log!vars)
  <2>1. SUFFICES ASSUME StoreInv, [Next]_vars PROVE [Log!Next]_(Log!vars)
    OBVIOUS
  <2>2. CASE UNCHANGED <<current_write_id, current_read_id, accepted>>
    BY <2>1, <2>2, OthersStutter DEF Log!vars
  <2>3. ASSUME NEW w \in Writers, ClaimIds(w) \/ End(w)
        PROVE  Log!Next
    BY <2>1, <2>3, ClaimRefines, EndRefines DEF Log!Next
  <2>4. QED
    BY <2>1, <2>2, <2>3
    DEF Next, Writer, Poll, AllocIds, ClaimBytes, AllocBytes, LoadFilters, GetList,
        Reserve, Fill, SetOffLen, AppendPkt, Apply, ClaimChar, AssignChar, Tick,
        vars, shared
<1>3. QED
  BY <1>1, <1>2, StoreCorrect, PTL DEF Spec, Log!Spec, ReadersSeeLog

=============================================================================
