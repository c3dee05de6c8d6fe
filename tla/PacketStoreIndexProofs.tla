------------------------ MODULE PacketStoreIndexProofs -----------------------
(***************************************************************************)
(* Proofs about the index lists of the packet store, for every number of   *)
(* writers, packets, ids and complex characters: no entry names a foreign  *)
(* id, every published id is once on each list of its packet, and the list *)
(* of a complex character holds what its filters match.                    *)
(***************************************************************************)
EXTENDS PacketStoreIndex, PacketStoreProofs, SequenceTheorems

-----------------------------------------------------------------------------
(* Keys                                                                    *)

\* Two pairs make a sequence of four.
LEMMA PairsConcat ==
  ASSUME NEW S, NEW s \in Seq(S), NEW t \in Seq(S), Len(s) = 2, Len(t) = 2
  PROVE  /\ Len(s \o t) = 4 /\ DOMAIN (s \o t) = 1..4
         /\ (s \o t)[1] = s[1] /\ (s \o t)[2] = s[2]
         /\ (s \o t)[3] = t[1] /\ (s \o t)[4] = t[2]
<1> DEFINE r == s \o t
<1>1. /\ r \in Seq(S) /\ Len(r) = Len(s) + Len(t)
      /\ \A i \in 1..(Len(s) + Len(t)) :
           r[i] = IF i <= Len(s) THEN s[i] ELSE t[i - Len(s)]
  BY ConcatProperties
<1> HIDE DEF r
<1>2. Len(r) = 4 /\ \A i \in 1..4 : r[i] = IF i <= 2 THEN s[i] ELSE t[i - 2]
  BY <1>1
<1>3. r[1] = s[1] /\ r[2] = s[2] /\ r[3] = t[1] /\ r[4] = t[2]
  BY <1>2
<1>4. DOMAIN r = 1..4
  BY <1>1, <1>2
<1>5. QED
  BY <1>2, <1>3, <1>4 DEF r

\* A packet has two keys or four, no two of them equal, none of them the list
\* of a second or of a complex character.
LEMMA KeyFacts ==
  ASSUME NEW p
  PROVE  /\ Len(IndexKeys(p)) \in Nat \ {0}
         /\ DOMAIN IndexKeys(p) = 1..Len(IndexKeys(p))
         /\ \A j \in 1..Len(IndexKeys(p)) :
              /\ IndexKeys(p)[j][1] # "timestamp"
              /\ IndexKeys(p)[j][1] # "char"
         /\ \A i, j \in 1..Len(IndexKeys(p)) : IndexKeys(p)[i] = IndexKeys(p)[j] => i = j
<1> DEFINE K2 == <<<<"srcip", p.src>>, <<"dstip", p.dst>>>>
           Ports == <<<<"srcport", p.sport>>, <<"dstport", p.dport>>>>
           K4 == K2 \o Ports
<1>1. CASE p.proto \in {"tcp", "udp"}
  <2>1. IndexKeys(p) = K4
    BY <1>1 DEF IndexKeys
  <2> DEFINE S == {K2[1], K2[2], Ports[1], Ports[2]}
  <2>2. K2 \in Seq(S) /\ Ports \in Seq(S) /\ Len(K2) = 2 /\ Len(Ports) = 2
    OBVIOUS
  <2>3. /\ K2[1][1] = "srcip" /\ K2[2][1] = "dstip"
        /\ Ports[1][1] = "srcport" /\ Ports[2][1] = "dstport"
    OBVIOUS
  <2> HIDE DEF K2, Ports, S
  <2>4. /\ Len(K4) = 4 /\ DOMAIN K4 = 1..4
        /\ K4[1][1] = "srcip" /\ K4[2][1] = "dstip"
        /\ K4[3][1] = "srcport" /\ K4[4][1] = "dstport"
    BY <2>2, <2>3, PairsConcat
  <2> HIDE DEF K4
  <2>5. \A j \in 1..4 : j = 1 \/ j = 2 \/ j = 3 \/ j = 4
    OBVIOUS
  <2>6. \A j \in 1..4 : K4[j][1] # "timestamp" /\ K4[j][1] # "char"
    BY <2>4, <2>5
  <2>7. \A i, j \in 1..4 : K4[i] = K4[j] => i = j
    BY <2>4, <2>5
  <2>8. QED
    BY <2>1, <2>4, <2>6, <2>7
<1>2. CASE ~(p.proto \in {"tcp", "udp"})
  <2>1. IndexKeys(p) = K2
    BY <1>2 DEF IndexKeys
  <2>2. Len(K2) = 2 /\ DOMAIN K2 = 1..2
    OBVIOUS
  <2>3. K2[1][1] = "srcip" /\ K2[2][1] = "dstip"
    OBVIOUS
  <2> HIDE DEF K2
  <2>4. \A j \in 1..2 : j = 1 \/ j = 2
    OBVIOUS
  <2>5. \A j \in 1..2 : K2[j][1] # "timestamp" /\ K2[j][1] # "char"
    BY <2>3, <2>4
  <2>6. \A i, j \in 1..2 : K2[i] = K2[j] => i = j
    BY <2>3, <2>4
  <2>7. QED
    BY <2>1, <2>2, <2>5, <2>6
<1>3. QED
  BY <1>1, <1>2

\* The lists of seconds and of complex characters are told apart by their tag,
\* and each names its second and its character.
LEMMA TagFacts ==
  ASSUME NEW t, NEW c
  PROVE  /\ TimeKey(t)[1] = "timestamp"
         /\ CharKey(c, t)[1] = "char"
         /\ \A u, d : CharKey(c, t) = CharKey(d, u) <=> c = d /\ t = u
BY DEF TimeKey, CharKey

-----------------------------------------------------------------------------
(* A writer's step leaves the pushes of the other writers alone            *)

SamePush(v) ==
  k'[v] = k[v] /\ slot'[v] = slot[v] /\ f'[v] = f[v] /\ num_chars'[v] = num_chars[v]

\* A move of one writer's control leaves the loop variable of the others alone.
LEMMA MoveKeepsK ==
  ASSUME ControlType, NEW w \in Writers, NEW v \in Writers, v # w
  PROVE  /\ \A l : ToLabel(w, l) => k'[v] = k[v]
         /\ \A c, m : NextChar(w, c, m) => k'[v] = k[v]
         /\ AfterPush(w) => k'[v] = k[v]
<1>1. \A l : ToLabel(w, l) => k'[v] = k[v]
  BY DEF ToLabel
<1>2. \A c : ToChar(w, c) \/ ToKey(w, c) => k'[v] = k[v]
  BY DEF ToChar, ToKey, ControlType
<1>3. \A m : NextPkt(w, m) => k'[v] = k[v]
  BY <1>1, <1>2 DEF NextPkt
<1>4. \A c, m : NextChar(w, c, m) => k'[v] = k[v]
  BY <1>2, <1>3 DEF NextChar
<1>5. QED
  BY <1>1, <1>2, <1>3, <1>4 DEF AfterPush

\* A step of one writer changes neither the push nor the loops of another.
LEMMA PushLocality ==
  ASSUME TypeOK, NEW w \in Writers, Writer(w), NEW v \in Writers, v # w
  PROVE  SamePush(v)
<1>1. CASE Poll(w) \/ ClaimIds(w) \/ AllocIds(w) \/ ClaimBytes(w) \/ AllocBytes(w)
           \/ GetList(w) \/ SetOffLen(w)
  BY <1>1 DEF Poll, ClaimIds, AllocIds, ClaimBytes, AllocBytes, GetList, SetOffLen, SamePush
<1>2. CASE LoadFilters(w) \/ End(w)
  BY <1>2 DEF LoadFilters, End, TypeOK, ControlType, BurstType, SamePush
<1>3. CASE Reserve(w)
  BY <1>3, MoveKeepsK DEF Reserve, TypeOK, BurstType, SamePush
<1>4. CASE Fill(w)
  BY <1>4, MoveKeepsK DEF Fill, TypeOK, BurstType, SamePush
<1>5. CASE AppendPkt(w)
  BY <1>5, MoveKeepsK DEF AppendPkt, TypeOK, BurstType, SamePush
<1>6. CASE Apply(w)
  BY <1>6, MoveKeepsK DEF Apply, TypeOK, SamePush
<1>7. QED
  BY <1>1, <1>2, <1>3, <1>4, <1>5, <1>6 DEF Writer

\* So the list another writer pushes to, and what it pushes, stay the same.
LEMMA OtherPush ==
  ASSUME TypeOK, NEW w \in Writers, Writer(w), NEW v \in Writers, v # w
  PROVE  /\ SameLocals(v) /\ SamePush(v)
         /\ Target(v)' = Target(v)
         /\ Count(v)' = Count(v)
         /\ CurPkt(v)' = CurPkt(v)
         /\ HasIds(v)' = HasIds(v)
         /\ HasBytes(v)' = HasBytes(v)
<1>1. SameLocals(v) /\ SamePush(v)
  BY Locality, PushLocality
<1>2. Cur(v)' = Cur(v)
  BY <1>1 DEF SameLocals, Cur
<1>3. CurPkt(v)' = CurPkt(v)
  BY <1>1, <1>2 DEF SameLocals, CurPkt
<1>4. Target(v)' = Target(v)
  BY <1>1, <1>3 DEF SameLocals, SamePush, Target
<1>5. QED
  BY <1>1, <1>3, <1>4 DEF SameLocals, Count, HasIds, HasBytes

-----------------------------------------------------------------------------
(* Loops                                                                   *)

\* Where the moves leave the loop variable of the writer that makes them.
LEMMA MoveSelfK ==
  ASSUME ControlType, NEW w \in Writers
  PROVE  /\ \A l : ToLabel(w, l) => k'[w] = k[w]
         /\ \A c : ToChar(w, c) \/ ToKey(w, c) => k'[w] = c
BY DEF ToLabel, ToChar, ToKey, ControlType

\* The number of characters a writer has loaded never exceeds those claimed,
\* and the characters claimed only grow.
LEMMA FiltersGrow ==
  ASSUME TypeOK, [Next]_vars
  PROVE  /\ num_filters' \in Nat
         /\ num_filters <= num_filters'
         /\ num_filters \in Nat
<1>1. num_filters \in Nat
  BY BoundAssumption DEF TypeOK, CharType
<1>2. CASE num_filters' = num_filters
  BY <1>1, <1>2
<1>3. CASE num_filters' = num_filters + 1
  BY <1>1, <1>3
<1>4. ASSUME NEW w \in Writers, Writer(w) PROVE num_filters' = num_filters
  BY <1>4 DEF Writer, Poll, ClaimIds, AllocIds, ClaimBytes, AllocBytes, LoadFilters, GetList,
      Reserve, Fill, SetOffLen, AppendPkt, Apply, End, shared
<1>5. QED
  BY <1>2, <1>3, <1>4 DEF Next, ClaimChar, AssignChar, Tick, vars, shared

\* The heads of the loops leave the loop variables in their ranges.
LEMMA NextCharLoop ==
  ASSUME TypeOK, NEW w \in Writers, NEW c \in Nat, NEW m \in Nat,
         NextPkt(w, m) \/ NextChar(w, c, m), m = 0 \/ phase[w] # "time",
         UNCHANGED <<pkts, num_chars, num_filters>>, num_chars[w] <= num_filters
  PROVE  LoopOf(w)'
<1>1. ControlType
  BY DEF TypeOK
<1>2. 1 \in 1..Len(IndexKeys(CurPkt(w)'))
  BY KeyFacts
<1>3. CASE ToKey(w, 1)
  <2>1. pc'[w] = "get" /\ phase'[w] = "key" /\ k'[w] = 1
    BY <1>1, <1>3, MoveSelf, MoveSelfK
  <2>2. k'[w] \in 1..Len(IndexKeys(CurPkt(w)'))
    BY <1>2, <2>1
  <2>3. QED
    BY <2>1, <2>2 DEF LoopOf
<1>4. CASE m = Len(pkts[w]) /\ ToLabel(w, "end")
  <2>1. pc'[w] = "end" /\ phase'[w] = phase[w]
    BY <1>1, <1>4, MoveSelf
  <2>2. QED
    BY <1>4, <2>1 DEF LoopOf, Pushing
<1>5. CASE c < num_chars[w] /\ ToChar(w, c)
  <2>1. pc'[w] = "apply" /\ phase'[w] = "char" /\ k'[w] = c
    BY <1>1, <1>5, MoveSelf, MoveSelfK
  <2>2. QED
    BY <1>5, <2>1 DEF LoopOf, Pushing
<1>6. QED
  BY <1>3, <1>4, <1>5 DEF NextPkt, NextChar

\* So does the move a writer makes once a push on a list is done.
LEMMA AfterPushLoop ==
  ASSUME TypeOK, ControlInv, LoopInv, NEW w \in Writers, AfterPush(w),
         pc[w] \in {"reserve", "fill"},
         UNCHANGED <<pkts, n, num_chars, num_filters>>
  PROVE  LoopOf(w)'
<1>1. /\ ControlType /\ k[w] \in Nat /\ n[w] \in Nat
  BY DEF TypeOK, ControlType, BurstType
<1>2. num_chars[w] <= num_filters /\ Pushing(w)
  BY DEF LoopInv, LoopOf, Pushing
<1>3. CASE phase[w] = "time" /\ NextPkt(w, 0)
  BY <1>2, <1>3, NextCharLoop
<1>4. CASE phase[w] = "key" /\ k[w] < Len(IndexKeys(CurPkt(w))) /\ ToKey(w, k[w] + 1)
  <2>1. pc'[w] = "get" /\ phase'[w] = "key" /\ k'[w] = k[w] + 1
    BY <1>1, <1>4, MoveSelf, MoveSelfK
  <2>2. CurPkt(w)' = CurPkt(w)
    BY <1>4, <2>1 DEF CurPkt, Cur
  <2>3. Len(IndexKeys(CurPkt(w))) \in Nat
    BY KeyFacts
  <2>4. k'[w] \in 1..Len(IndexKeys(CurPkt(w)'))
    BY <1>1, <1>4, <2>1, <2>2, <2>3
  <2>5. QED
    BY <1>2, <2>1, <2>4 DEF LoopOf
<1>5. CASE phase[w] = "key" /\ ToLabel(w, "set_offlen")
  <2>1. pc'[w] = "set_offlen"
    BY <1>1, <1>5, MoveSelf
  <2>2. QED
    BY <1>2, <2>1 DEF LoopOf, Pushing
<1>6. CASE phase[w] = "char" /\ NextChar(w, k[w] + 1, n[w])
  BY <1>1, <1>2, <1>6, NextCharLoop
<1>7. QED
  BY <1>3, <1>4, <1>5, <1>6 DEF AfterPush

\* Every step keeps the loop variables in their ranges.
LEMMA LoopStep ==
  ASSUME TypeOK, ControlInv, LoopInv, [Next]_vars
  PROVE  LoopInv'
<1>1. /\ num_filters' \in Nat /\ num_filters <= num_filters' /\ num_filters \in Nat
      /\ \A v \in Writers : num_chars[v] \in Nat /\ num_chars[v] <= num_filters
  BY FiltersGrow, BoundAssumption DEF TypeOK, BurstType, LoopInv, LoopOf
<1>2. ASSUME NEW v \in Writers, SameLocals(v), SamePush(v), CurPkt(v)' = CurPkt(v)
      PROVE  LoopOf(v)'
  <2>1. LoopOf(v)
    BY DEF LoopInv
  <2>2. num_chars'[v] <= num_filters'
    BY <1>1, <1>2 DEF SamePush
  <2>3. QED
    BY <1>2, <2>1, <2>2 DEF SameLocals, SamePush, LoopOf, Pushing
<1>3. ASSUME NEW w \in Writers, Writer(w)
      PROVE  LoopOf(w)'
  <2>1. /\ ControlType /\ pc \in [Writers -> Pcs] /\ k[w] \in Nat /\ n[w] \in Nat
        /\ n \in [Writers -> Nat] /\ phase \in [Writers -> {"time", "key", "char"}]
        /\ num_chars \in [Writers -> 0..MaxChars]
    BY DEF TypeOK, ControlType, BurstType
  <2>2. LoopOf(w) /\ ControlOf(w)
    BY DEF LoopInv, ControlInv
  <2>3. CASE Poll(w) \/ ClaimIds(w) \/ AllocIds(w) \/ AllocBytes(w)
    BY <2>1, <2>2, <2>3 DEF Poll, ClaimIds, AllocIds, AllocBytes, Goto, LoopOf, Pushing, shared
  <2>4. CASE ClaimBytes(w) \/ SetOffLen(w)
    BY <2>1, <2>2, <2>4 DEF ClaimBytes, SetOffLen, Goto, LoopOf, Pushing
  <2>5. CASE LoadFilters(w)
    BY <1>1, <2>1, <2>2, <2>5 DEF LoadFilters, Goto, LoopOf, Pushing, shared
  <2>6. CASE GetList(w)
    <3>1. UNCHANGED <<phase, k, n, pkts, num_chars, num_filters>>
          /\ pc[w] = "get" /\ pc'[w] = "reserve"
      BY <2>1, <2>6 DEF GetList, Goto
    <3>2. CurPkt(w)' = CurPkt(w)
      BY <3>1 DEF CurPkt, Cur
    <3>3. QED
      BY <2>2, <3>1, <3>2 DEF LoopOf, Pushing
  <2>7. CASE Reserve(w) \/ Fill(w)
    <3>1. UNCHANGED <<pkts, n, num_chars, num_filters>> /\ pc[w] \in {"reserve", "fill"}
      BY <2>7 DEF Reserve, Fill
    <3>2. CASE AfterPush(w)
      BY <3>1, <3>2, AfterPushLoop
    <3>3. CASE ToLabel(w, "fill")
      <4>1. pc'[w] = "fill" /\ phase'[w] = phase[w] /\ k'[w] = k[w]
        BY <2>1, <3>3, MoveSelf, MoveSelfK
      <4>2. CurPkt(w)' = CurPkt(w)
        BY <3>1, <4>1 DEF CurPkt, Cur
      <4>3. QED
        BY <2>2, <3>1, <4>1, <4>2 DEF LoopOf, Pushing
    <3>4. QED
      BY <2>7, <3>2, <3>3 DEF Reserve, Fill
  <2>8. CASE AppendPkt(w)
    BY <1>1, <2>1, <2>2, <2>8, NextCharLoop DEF AppendPkt, ControlOf
  <2>9. CASE Apply(w)
    <3>1. /\ UNCHANGED <<pkts, n, num_chars, num_filters>>
          /\ pc[w] = "apply" /\ phase[w] = "char" /\ k[w] < num_chars[w]
      BY <2>2, <2>9 DEF Apply, shared, ControlOf, LoopOf
    <3>2. CASE ToLabel(w, "get")
      <4>1. pc'[w] = "get" /\ phase'[w] = phase[w] /\ k'[w] = k[w]
        BY <2>1, <3>2, MoveSelf, MoveSelfK
      <4>2. QED
        BY <1>1, <3>1, <4>1 DEF LoopOf, Pushing
    <3>3. CASE NextChar(w, k[w] + 1, n[w])
      BY <1>1, <2>1, <3>1, <3>3, NextCharLoop
    <3>4. QED
      BY <2>9, <3>2, <3>3 DEF Apply
  <2>10. CASE End(w)
    BY <1>1, <2>1, <2>10 DEF End, Goto, LoopOf, Pushing
  <2>11. QED
    BY <1>3, <2>3, <2>4, <2>5, <2>6, <2>7, <2>8, <2>9, <2>10 DEF Writer
<1>4. ASSUME NEW w \in Writers, Writer(w)
      PROVE  LoopInv'
  BY <1>2, <1>3, <1>4, OtherPush DEF LoopInv
<1>5. CASE UNCHANGED <<locals, known>>
  BY <1>2, <1>5 DEF locals, SameLocals, SamePush, CurPkt, Cur, LoopInv
<1>6. QED
  BY <1>4, <1>5 DEF Next, ClaimChar, AssignChar, Tick, vars

-----------------------------------------------------------------------------
(* What the operations on the entry lists do                               *)

\* get finds the list or creates an empty one, and leaves the entries alone.
LEMMA GetDef ==
  ASSUME NEW key, get_list(key)
  PROVE  /\ DOMAIN lists' = DOMAIN lists \cup {key}
         /\ \A x \in DOMAIN lists : lists'[x] = lists[x]
         /\ key \notin DOMAIN lists => lists'[key] = <<>>
BY DEF get_list

\* The fetch_add on tail_ adds entries that are not set.
LEMMA ReserveDef ==
  ASSUME ListType, NEW key \in DOMAIN lists, NEW count \in Nat, reserve(key, count)
  PROVE  /\ DOMAIN lists' = DOMAIN lists
         /\ \A x \in DOMAIN lists : x # key => lists'[x] = lists[x]
         /\ lists'[key] \in Seq(Nat \cup {Unset})
         /\ Len(lists[key]) \in Nat
         /\ Len(lists'[key]) = Len(lists[key]) + count
         /\ \A e \in 1..Len(lists[key]) : lists'[key][e] = lists[key][e]
         /\ \A e \in (Len(lists[key]) + 1)..(Len(lists[key]) + count) : lists'[key][e] = Unset
<1> DEFINE S == Nat \cup {Unset}
           fresh == [j \in 1..count |-> Unset]
           old == lists[key]
           new == old \o fresh
<1>1. old \in Seq(S) /\ fresh \in Seq(S) /\ Len(fresh) = count /\ Len(old) \in Nat
  BY DEF ListType
<1>2. \A j \in 1..count : fresh[j] = Unset
  OBVIOUS
<1>3. /\ DOMAIN lists' = DOMAIN lists
      /\ \A x \in DOMAIN lists : x # key => lists'[x] = lists[x]
      /\ lists'[key] = new
  BY DEF reserve
<1> HIDE DEF fresh, old, S
<1>4. /\ new \in Seq(S) /\ Len(new) = Len(old) + Len(fresh)
      /\ \A e \in 1..(Len(old) + Len(fresh)) :
           new[e] = IF e <= Len(old) THEN old[e] ELSE fresh[e - Len(old)]
  BY <1>1, ConcatProperties
<1> HIDE DEF new
<1>5. \A e \in 1..Len(old) : new[e] = old[e]
  BY <1>1, <1>4
<1>6. \A e \in (Len(old) + 1)..(Len(old) + count) : new[e] = Unset
  <2>1. SUFFICES ASSUME NEW e \in (Len(old) + 1)..(Len(old) + count)
                 PROVE  new[e] = Unset
    OBVIOUS
  <2>2. /\ e \in 1..(Len(old) + Len(fresh)) /\ ~(e <= Len(old))
        /\ e - Len(old) \in 1..count
    BY <1>1
  <2>3. new[e] = fresh[e - Len(old)]
    BY <1>4, <2>2
  <2>4. QED
    BY <1>2, <2>2, <2>3
<1>7. QED
  BY <1>1, <1>3, <1>4, <1>5, <1>6 DEF old, S

\* set changes one entry.
LEMMA SetEntryDef ==
  ASSUME ListType, NEW key \in DOMAIN lists, NEW idx \in Nat, NEW val,
         idx < Len(lists[key]), set_entry(key, idx, val)
  PROVE  /\ DOMAIN lists' = DOMAIN lists
         /\ \A x \in DOMAIN lists : x # key => lists'[x] = lists[x]
         /\ DOMAIN lists'[key] = DOMAIN lists[key]
         /\ idx + 1 \in DOMAIN lists[key]
         /\ lists'[key][idx + 1] = val
         /\ \A e \in DOMAIN lists[key] : e # idx + 1 => lists'[key][e] = lists[key][e]
<1>1. /\ DOMAIN lists' = DOMAIN lists
      /\ \A x \in DOMAIN lists : x # key => lists'[x] = lists[x]
      /\ lists'[key] = [lists[key] EXCEPT ![idx + 1] = val]
  BY DEF set_entry
<1>2. lists[key] \in Seq(Nat \cup {Unset})
  BY DEF ListType
<1>3. idx + 1 \in DOMAIN lists[key]
  BY <1>2
<1>4. QED
  BY <1>1, <1>3

-----------------------------------------------------------------------------
(* Pushes                                                                  *)

\* The list and the place of the entry that a push sets next.
LEMMA FillPlace ==
  ASSUME TypeOK, FillInv, NEW w \in Writers, pc[w] = "fill"
  PROVE  /\ Target(w) \in DOMAIN lists
         /\ slot[w] + f[w] \in Nat
         /\ slot[w] \in Nat /\ f[w] \in Nat /\ Count(w) \in Nat
         /\ f[w] < Count(w)
         /\ slot[w] + f[w] < Len(lists[Target(w)])
         /\ slot[w] + Count(w) <= Len(lists[Target(w)])
         /\ Len(lists[Target(w)]) \in Nat
         /\ (slot[w] + f[w]) + 1 \in DOMAIN lists[Target(w)]
         /\ lists[Target(w)][(slot[w] + f[w]) + 1] = Unset
<1>1. FillOf(w)
  BY DEF FillInv
<1>2. /\ Target(w) \in DOMAIN lists /\ f[w] < Count(w)
      /\ slot[w] + Count(w) <= Len(lists[Target(w)])
      /\ \A e \in (slot[w] + f[w] + 1)..(slot[w] + Count(w)) : lists[Target(w)][e] = Unset
  BY <1>1 DEF FillOf
<1>3. slot[w] \in Nat /\ f[w] \in Nat /\ Count(w) \in Nat
  BY DEF TypeOK, BurstType, Count
<1>4. lists[Target(w)] \in Seq(Nat \cup {Unset})
  BY <1>2 DEF TypeOK, ListType
<1> DEFINE s == lists[Target(w)]
<1>5. Len(s) \in Nat /\ DOMAIN s = 1..Len(s)
  BY <1>4
<1> HIDE DEF s
<1>6. (slot[w] + f[w]) + 1 \in (slot[w] + f[w] + 1)..(slot[w] + Count(w))
  BY <1>2, <1>3
<1>7. (slot[w] + f[w]) + 1 \in 1..Len(s)
  BY <1>2, <1>3, <1>5 DEF s
<1>8. QED
  BY <1>2, <1>3, <1>5, <1>6, <1>7 DEF s

\* What a step of a writer does to the lists that exist: they only grow, and the
\* one entry that changes is the one its push sets.
LEMMA ListsKept ==
  ASSUME TypeOK, ControlInv, FillInv, NEW w \in Writers, Writer(w), NEW key \in DOMAIN lists
  PROVE  /\ key \in DOMAIN lists'
         /\ Len(lists[key]) \in Nat
         /\ Len(lists[key]) <= Len(lists'[key])
         /\ \A e \in 1..Len(lists[key]) :
              \/ lists'[key][e] = lists[key][e]
              \/ Fill(w) /\ key = Target(w) /\ e = (slot[w] + f[w]) + 1
<1>1. ListType /\ lists[key] \in Seq(Nat \cup {Unset}) /\ Len(lists[key]) \in Nat
  BY DEF TypeOK, ListType
<1>2. CASE lists' = lists
  BY <1>1, <1>2
<1>3. CASE GetList(w)
  <2>1. key \in DOMAIN lists' /\ lists'[key] = lists[key]
    BY <1>3, GetDef DEF GetList
  <2>2. QED
    BY <1>1, <2>1
<1>4. CASE Reserve(w)
  <2>1. Count(w) \in Nat /\ Target(w) \in DOMAIN lists /\ reserve(Target(w), Count(w))
    BY <1>4 DEF Reserve, Count, TypeOK, BurstType, FillInv, FillOf
  <2>2. CASE key # Target(w)
    <3>1. key \in DOMAIN lists' /\ lists'[key] = lists[key]
      BY <1>1, <2>1, <2>2, ReserveDef
    <3>2. QED
      BY <1>1, <3>1
  <2>3. CASE key = Target(w)
    <3>1. reserve(key, Count(w))
      BY <2>1, <2>3
    <3>2. /\ DOMAIN lists' = DOMAIN lists
          /\ Len(lists'[key]) = Len(lists[key]) + Count(w)
          /\ \A e \in 1..Len(lists[key]) : lists'[key][e] = lists[key][e]
      BY <1>1, <2>1, <3>1, ReserveDef
    <3>3. QED
      BY <1>1, <2>1, <3>2
  <2>4. QED
    BY <2>2, <2>3
<1>5. CASE Fill(w)
  <2>1. /\ Target(w) \in DOMAIN lists /\ slot[w] + f[w] \in Nat
        /\ slot[w] + f[w] < Len(lists[Target(w)])
        /\ set_entry(Target(w), slot[w] + f[w], FirstVal(w) + f[w])
    BY <1>5, FillPlace DEF Fill
  <2>2. /\ DOMAIN lists' = DOMAIN lists
        /\ \A x \in DOMAIN lists : x # Target(w) => lists'[x] = lists[x]
        /\ DOMAIN lists'[Target(w)] = DOMAIN lists[Target(w)]
        /\ \A e \in DOMAIN lists[Target(w)] :
             e # (slot[w] + f[w]) + 1 => lists'[Target(w)][e] = lists[Target(w)][e]
    BY <1>1, <2>1, SetEntryDef
  <2>3. CASE key # Target(w)
    BY <1>1, <2>2, <2>3
  <2>4. CASE key = Target(w)
    <3>1. lists'[key] \in Seq(Nat \cup {Unset})
      <4>1. FirstVal(w) + f[w] \in Nat
        <5>1. FirstVal(w) \in Nat
          BY <1>5, FirstValType DEF Fill
        <5>2. QED
          BY <5>1 DEF TypeOK, BurstType
      <4>2. ListType'
        BY <1>1, <2>1, <4>1, SetEntryType
      <4>3. QED
        BY <2>2, <4>2 DEF ListType
    <3>2. Len(lists'[key]) = Len(lists[key])
      BY <1>1, <2>2, <2>4, <3>1
    <3>3. QED
      BY <1>1, <1>5, <2>2, <2>4, <3>2
  <2>5. QED
    BY <2>3, <2>4
<1>6. QED
  BY <1>2, <1>3, <1>4, <1>5
  DEF Writer, Poll, ClaimIds, AllocIds, ClaimBytes, AllocBytes, LoadFilters,
      SetOffLen, AppendPkt, Apply, End, shared

\* A writer that stays in its push goes on with the same list and count.
LEMMA SameTarget ==
  ASSUME NEW w \in Writers, UNCHANGED <<pkts, now, n>>, phase'[w] = phase[w], k'[w] = k[w]
  PROVE  Target(w)' = Target(w) /\ Count(w)' = Count(w) /\ CurPkt(w)' = CurPkt(w)
<1>1. Cur(w)' = Cur(w)
  BY DEF Cur
<1>2. CurPkt(w)' = CurPkt(w)
  BY <1>1 DEF CurPkt
<1>3. QED
  BY <1>2 DEF Target, Count

\* A push finds its list, and owns the entries it has reserved and not set.
LEMMA OwnFill ==
  ASSUME TypeOK, ControlInv, FillInv, NEW w \in Writers, Writer(w)
  PROVE  FillOf(w)'
<1>1. ControlType /\ ListType /\ pc \in [Writers -> Pcs] /\ slot \in [Writers -> Nat]
      /\ f \in [Writers -> Nat]
  BY DEF TypeOK, ControlType, BurstType
<1>2. CASE GetList(w)
  <2>1. pc'[w] = "reserve" /\ Target(w)' = Target(w)
    BY <1>1, <1>2, SameTarget DEF GetList, Goto
  <2>2. Target(w) \in DOMAIN lists'
    BY <1>2, GetDef DEF GetList
  <2>3. QED
    BY <2>1, <2>2 DEF FillOf
<1>3. CASE Reserve(w) /\ ToLabel(w, "fill")
  <2>1. pc'[w] = "fill" /\ Target(w)' = Target(w) /\ Count(w)' = Count(w)
    BY <1>1, <1>3, MoveSelf, MoveSelfK, SameTarget DEF Reserve
  <2>2. slot'[w] = Len(lists[Target(w)]) /\ f'[w] = 0
    BY <1>1, <1>3 DEF Reserve
  <2>3. Count(w) \in Nat /\ Target(w) \in DOMAIN lists /\ reserve(Target(w), Count(w))
    BY <1>3 DEF Reserve, Count, TypeOK, BurstType, FillInv, FillOf
  <2>4. Count(w) > 0
    <3>1. CASE Count(w) = 0
      <4>1. AfterPush(w)
        BY <1>3, <3>1 DEF Reserve
      <4>2. QED
        BY <1>1, <2>1, <4>1, MovePc
    <3>2. QED
      BY <2>3, <3>1
  <2>5. /\ DOMAIN lists' = DOMAIN lists /\ Len(lists[Target(w)]) \in Nat
        /\ Len(lists'[Target(w)]) = Len(lists[Target(w)]) + Count(w)
        /\ \A e \in (Len(lists[Target(w)]) + 1)..(Len(lists[Target(w)]) + Count(w)) :
             lists'[Target(w)][e] = Unset
    BY <1>1, <2>3, ReserveDef
  <2>6. \A e \in (slot'[w] + f'[w] + 1)..(slot'[w] + Count(w)) : lists'[Target(w)][e] = Unset
    BY <2>2, <2>3, <2>5
  <2>7. f'[w] < Count(w) /\ slot'[w] + Count(w) <= Len(lists'[Target(w)])
    BY <2>2, <2>3, <2>4, <2>5
  <2>8. QED
    BY <2>1, <2>3, <2>5, <2>6, <2>7 DEF FillOf
<1>4. CASE Fill(w) /\ ToLabel(w, "fill")
  <2>1. pc[w] = "fill" /\ pc'[w] = "fill" /\ Target(w)' = Target(w) /\ Count(w)' = Count(w)
    BY <1>1, <1>4, MoveSelf, MoveSelfK, SameTarget DEF Fill
  <2>2. slot'[w] = slot[w] /\ f'[w] = f[w] + 1
    BY <1>1, <1>4 DEF Fill
  <2>3. /\ Target(w) \in DOMAIN lists /\ slot[w] + f[w] \in Nat
        /\ slot[w] \in Nat /\ f[w] \in Nat /\ Count(w) \in Nat
        /\ slot[w] + Count(w) <= Len(lists[Target(w)])
        /\ Len(lists[Target(w)]) \in Nat
        /\ \A e \in (slot[w] + f[w] + 1)..(slot[w] + Count(w)) : lists[Target(w)][e] = Unset
    BY <2>1, FillPlace DEF FillInv, FillOf
  <2>4. f[w] + 1 < Count(w)
    <3>1. CASE f[w] + 1 = Count(w) /\ AfterPush(w)
      BY <1>1, <2>1, <3>1, MovePc
    <3>2. QED
      BY <1>4, <3>1 DEF Fill
  <2>5. /\ Target(w) \in DOMAIN lists'
        /\ Len(lists[Target(w)]) <= Len(lists'[Target(w)])
        /\ \A e \in 1..Len(lists[Target(w)]) :
              \/ lists'[Target(w)][e] = lists[Target(w)][e]
              \/ e = (slot[w] + f[w]) + 1
    BY <2>3, ListsKept
  <2>6. Len(lists'[Target(w)]) \in Nat
    <3>1. ListType'
      <4>1. FirstVal(w) + f[w] \in Nat
        BY <2>1, <2>3, FirstValType
      <4>2. QED
        BY <1>1, <1>4, <2>3, <4>1, SetEntryType DEF Fill
    <3>2. QED
      BY <2>5, <3>1 DEF ListType
  <2>7. slot'[w] + Count(w) <= Len(lists'[Target(w)])
    BY <2>2, <2>3, <2>5, <2>6
  <2>8. ASSUME NEW e \in (slot'[w] + f'[w] + 1)..(slot'[w] + Count(w))
        PROVE  lists'[Target(w)][e] = Unset
    <3>1. /\ e \in (slot[w] + f[w] + 1)..(slot[w] + Count(w))
          /\ e # (slot[w] + f[w]) + 1
          /\ e \in 1..Len(lists[Target(w)])
      BY <2>2, <2>3
    <3>2. QED
      BY <2>3, <2>5, <3>1
  <2>9. QED
    BY <2>1, <2>2, <2>4, <2>5, <2>7, <2>8 DEF FillOf
<1>5. CASE pc'[w] \notin {"reserve", "fill"}
  BY <1>5 DEF FillOf
<1>6. CASE AfterPush(w)
  BY <1>1, <1>5, <1>6, MovePc
<1>7. CASE AppendPkt(w) \/ Apply(w)
  <2>1. pc'[w] \in {"apply", "get", "end"}
    BY <1>1, <1>7, MovePc, MoveSelf DEF AppendPkt, Apply
  <2>2. QED
    BY <1>5, <2>1
<1>8. CASE Poll(w) \/ ClaimIds(w) \/ AllocIds(w) \/ ClaimBytes(w) \/ AllocBytes(w)
           \/ LoadFilters(w) \/ SetOffLen(w) \/ End(w)
  BY <1>1, <1>5, <1>8
  DEF Poll, ClaimIds, AllocIds, ClaimBytes, AllocBytes, LoadFilters, SetOffLen, End, Goto
<1>9. QED
  BY <1>2, <1>3, <1>4, <1>6, <1>7, <1>8 DEF Writer, Reserve, Fill

\* A step of one writer leaves the entries reserved by another alone.
LEMMA OtherFill ==
  ASSUME TypeOK, TypeOK', ControlInv, FillInv, NEW w \in Writers, Writer(w),
         NEW v \in Writers, v # w
  PROVE  FillOf(v)'
<1>1. /\ pc'[v] = pc[v] /\ slot'[v] = slot[v] /\ f'[v] = f[v]
      /\ Target(v)' = Target(v) /\ Count(v)' = Count(v)
  BY OtherPush DEF SameLocals, SamePush
<1>2. pc[v] \in {"reserve", "fill"} => Target(v) \in DOMAIN lists /\ Target(v) \in DOMAIN lists'
  BY ListsKept DEF FillInv, FillOf
<1>3. ASSUME pc[v] = "fill"
      PROVE  /\ slot[v] + Count(v) <= Len(lists'[Target(v)])
             /\ \A e \in (slot[v] + f[v] + 1)..(slot[v] + Count(v)) :
                  lists'[Target(v)][e] = Unset
  <2>1. /\ Target(v) \in DOMAIN lists /\ Target(v) \in DOMAIN lists'
        /\ slot[v] \in Nat /\ f[v] \in Nat /\ Count(v) \in Nat
        /\ slot[v] + Count(v) <= Len(lists[Target(v)])
        /\ Len(lists[Target(v)]) \in Nat
        /\ \A e \in (slot[v] + f[v] + 1)..(slot[v] + Count(v)) : lists[Target(v)][e] = Unset
    BY <1>2, <1>3, FillPlace DEF FillInv, FillOf
  <2>2. /\ Len(lists[Target(v)]) <= Len(lists'[Target(v)])
        /\ \A e \in 1..Len(lists[Target(v)]) :
              \/ lists'[Target(v)][e] = lists[Target(v)][e]
              \/ Fill(w) /\ Target(v) = Target(w) /\ e = (slot[w] + f[w]) + 1
    BY <2>1, ListsKept
  <2>3. Len(lists'[Target(v)]) \in Nat
    BY <2>1 DEF TypeOK, ListType
  <2>4. slot[v] + Count(v) <= Len(lists'[Target(v)])
    BY <2>1, <2>2, <2>3
  <2>5. ASSUME NEW e \in (slot[v] + f[v] + 1)..(slot[v] + Count(v))
        PROVE  lists'[Target(v)][e] = Unset
    <3>1. e \in 1..Len(lists[Target(v)]) /\ lists[Target(v)][e] = Unset
      BY <2>1
    <3>2. CASE Fill(w) /\ Target(v) = Target(w) /\ e = (slot[w] + f[w]) + 1
      <4>1. /\ pc[w] = "fill" /\ slot[w] \in Nat /\ f[w] \in Nat /\ Count(w) \in Nat
            /\ f[w] < Count(w)
        BY <3>2, FillPlace DEF Fill
      <4>2. slot[w] + Count(w) <= slot[v] \/ slot[v] + Count(v) <= slot[w]
        BY <1>3, <3>2, <4>1 DEF FillInv, DisjointFills
      <4>3. QED
        BY <2>1, <3>2, <4>1, <4>2
    <3>3. QED
      BY <2>2, <3>1, <3>2
  <2>6. QED
    BY <2>4, <2>5
<1>4. pc[v] = "fill" => f[v] < Count(v)
  BY DEF FillInv, FillOf
<1>5. QED
  BY <1>1, <1>2, <1>3, <1>4 DEF FillOf

\* Two pushes on one list have reserved different entries.
LEMMA ApartFills ==
  ASSUME TypeOK, ControlInv, FillInv, NEW w \in Writers, Writer(w),
         NEW v \in Writers, v # w
  PROVE  DisjointFills(w, v)' /\ DisjointFills(v, w)'
<1>1. /\ pc'[v] = pc[v] /\ slot'[v] = slot[v]
      /\ Target(v)' = Target(v) /\ Count(v)' = Count(v)
  BY OtherPush DEF SameLocals, SamePush
<1>2. ControlType /\ pc \in [Writers -> Pcs] /\ slot \in [Writers -> Nat]
  BY DEF TypeOK, ControlType, BurstType
<1>3. SUFFICES ASSUME pc'[w] = "fill", pc[v] = "fill", Target(w)' = Target(v)
               PROVE  slot'[w] + Count(w)' <= slot[v] \/ slot[v] + Count(v) <= slot'[w]
  BY <1>1 DEF DisjointFills
<1>4. /\ slot[v] + Count(v) <= Len(lists[Target(v)])
  BY <1>3, FillPlace
<1>5. CASE Reserve(w) /\ ToLabel(w, "fill")
  <2>1. Target(w)' = Target(w)
    BY <1>2, <1>5, MoveSelf, MoveSelfK, SameTarget DEF Reserve
  <2>2. slot'[w] = Len(lists[Target(w)])
    BY <1>2, <1>5 DEF Reserve
  <2>3. QED
    BY <1>3, <1>4, <2>1, <2>2
<1>6. CASE Fill(w) /\ ToLabel(w, "fill")
  <2>1. pc[w] = "fill" /\ Target(w)' = Target(w) /\ Count(w)' = Count(w) /\ slot'[w] = slot[w]
    BY <1>2, <1>6, MoveSelf, MoveSelfK, SameTarget DEF Fill
  <2>2. QED
    BY <1>3, <2>1 DEF FillInv, DisjointFills
<1>7. CASE AfterPush(w) \/ AppendPkt(w) \/ Apply(w)
  <2>1. pc'[w] # "fill"
    BY <1>2, <1>7, MovePc, MoveSelf DEF AppendPkt, Apply
  <2>2. QED
    BY <1>3, <2>1
<1>8. CASE Poll(w) \/ ClaimIds(w) \/ AllocIds(w) \/ ClaimBytes(w) \/ AllocBytes(w)
           \/ LoadFilters(w) \/ GetList(w) \/ SetOffLen(w) \/ End(w)
  BY <1>2, <1>3, <1>8
  DEF Poll, ClaimIds, AllocIds, ClaimBytes, AllocBytes, LoadFilters, GetList, SetOffLen, End, Goto
<1>9. QED
  BY <1>5, <1>6, <1>7, <1>8 DEF Writer, Reserve, Fill

\* Every step keeps the reserved entries apart and unset.
LEMMA FillStep ==
  ASSUME TypeOK, TypeOK', ControlInv, FillInv, [Next]_vars
  PROVE  FillInv'
<1>1. ASSUME NEW w \in Writers, Writer(w)
      PROVE  FillInv'
  <2>1. \A v \in Writers : FillOf(v)'
    BY <1>1, OwnFill, OtherFill
  <2>2. ASSUME NEW u \in Writers, NEW v \in Writers, u # v
        PROVE  DisjointFills(u, v)'
    <3>1. CASE u = w \/ v = w
      BY <1>1, <2>2, <3>1, ApartFills
    <3>2. CASE u # w /\ v # w
      <4>1. /\ pc'[v] = pc[v] /\ slot'[v] = slot[v]
            /\ Target(v)' = Target(v) /\ Count(v)' = Count(v)
        BY <1>1, <3>2, OtherPush DEF SameLocals, SamePush
      <4>2. /\ pc'[u] = pc[u] /\ slot'[u] = slot[u]
            /\ Target(u)' = Target(u) /\ Count(u)' = Count(u)
        BY <1>1, <3>2, OtherPush DEF SameLocals, SamePush
      <4>3. DisjointFills(u, v)
        BY <2>2 DEF FillInv
      <4>4. QED
        BY <4>1, <4>2, <4>3 DEF DisjointFills
    <3>3. QED
      BY <3>1, <3>2
  <2>3. QED
    BY <2>1, <2>2 DEF FillInv
<1>2. CASE UNCHANGED <<locals, lists>>
  <2>1. ASSUME NEW v \in Writers
        PROVE  Target(v)' = Target(v) /\ Count(v)' = Count(v)
    BY <1>2, SameTarget DEF locals
  <2>2. QED
    BY <1>2, <2>1 DEF locals, FillInv, FillOf, DisjointFills
<1>3. QED
  BY <1>1, <1>2 DEF Next, ClaimChar, AssignChar, Tick, vars, shared

-----------------------------------------------------------------------------
(* Which ids the lists hold                                                *)

\* Only the setting of an entry puts an id on a list; none is ever lost.
LEMMA EntriesSame ==
  ASSUME TypeOK, FillInv, NEW w \in Writers, Writer(w), ~Fill(w), NEW key, NEW id \in Nat
  PROVE  IsEntry(key, id)' <=> IsEntry(key, id)
<1>1. ListType /\ id # Unset
  BY UnsetAssumption DEF TypeOK
<1>2. CASE lists' = lists
  BY <1>2 DEF IsEntry
<1>3. CASE GetList(w)
  <2>1. PICK x : x = Target(w)
    OBVIOUS
  <2>2. /\ DOMAIN lists' = DOMAIN lists \cup {x}
        /\ \A y \in DOMAIN lists : lists'[y] = lists[y]
        /\ x \notin DOMAIN lists => lists'[x] = <<>>
    BY <1>3, <2>1, GetDef DEF GetList
  <2>3. CASE key \in DOMAIN lists
    BY <2>2, <2>3 DEF IsEntry
  <2>4. CASE key \notin DOMAIN lists
    <3>1. DOMAIN <<>> = {}
      OBVIOUS
    <3>2. key \in DOMAIN lists' => DOMAIN lists'[key] = {}
      BY <2>2, <2>4, <3>1
    <3>3. QED
      BY <2>4, <3>2 DEF IsEntry
  <2>5. QED
    BY <2>3, <2>4
<1>4. CASE Reserve(w)
  <2>1. Count(w) \in Nat /\ Target(w) \in DOMAIN lists /\ reserve(Target(w), Count(w))
    BY <1>4 DEF Reserve, Count, TypeOK, BurstType, FillInv, FillOf
  <2>2. PICK x : x = Target(w)
    OBVIOUS
  <2>3. /\ DOMAIN lists' = DOMAIN lists /\ x \in DOMAIN lists
        /\ \A y \in DOMAIN lists : y # x => lists'[y] = lists[y]
        /\ lists'[x] \in Seq(Nat \cup {Unset})
        /\ Len(lists[x]) \in Nat
        /\ Len(lists'[x]) = Len(lists[x]) + Count(w)
        /\ \A e \in 1..Len(lists[x]) : lists'[x][e] = lists[x][e]
        /\ \A e \in (Len(lists[x]) + 1)..(Len(lists[x]) + Count(w)) : lists'[x][e] = Unset
    BY <1>1, <2>1, <2>2, ReserveDef
  <2>4. CASE key # x
    BY <2>3, <2>4 DEF IsEntry
  <2>5. CASE key = x
    <3>1. lists[x] \in Seq(Nat \cup {Unset})
      BY <1>1, <2>3 DEF ListType
    <3>2. DOMAIN lists[x] = 1..Len(lists[x]) /\ DOMAIN lists'[x] = 1..Len(lists'[x])
      BY <2>3, <3>1
    <3>3. ASSUME NEW e \in DOMAIN lists'[x], lists'[x][e] = id
          PROVE  e \in DOMAIN lists[x] /\ lists[x][e] = id
      <4>1. \/ e \in 1..Len(lists[x])
            \/ e \in (Len(lists[x]) + 1)..(Len(lists[x]) + Count(w))
        BY <2>1, <2>3, <3>2
      <4>2. QED
        BY <1>1, <2>3, <3>2, <3>3, <4>1
    <3>4. ASSUME NEW e \in DOMAIN lists[x], lists[x][e] = id
          PROVE  e \in DOMAIN lists'[x] /\ lists'[x][e] = id
      <4>1. e \in 1..Len(lists'[x])
        BY <2>1, <2>3, <3>2
      <4>2. QED
        BY <2>3, <3>2, <3>4, <4>1
    <3>5. QED
      BY <2>3, <2>5, <3>3, <3>4 DEF IsEntry
  <2>6. QED
    BY <2>4, <2>5
<1>5. QED
  BY <1>2, <1>3, <1>4
  DEF Writer, Poll, ClaimIds, AllocIds, ClaimBytes, AllocBytes, LoadFilters,
      SetOffLen, AppendPkt, Apply, End, shared

\* The setting of an entry puts one id on one list.
LEMMA EntryAdded ==
  ASSUME TypeOK, FillInv, NEW w \in Writers, Fill(w), NEW key, NEW id \in Nat
  PROVE  IsEntry(key, id)' <=>
           IsEntry(key, id) \/ (key = Target(w) /\ id = FirstVal(w) + f[w])
<1>1. ListType /\ id # Unset
  BY UnsetAssumption DEF TypeOK
<1>2. PICK x : x = Target(w)
  OBVIOUS
<1>3. PICK p : p = slot[w] + f[w]
  OBVIOUS
<1>4. /\ x \in DOMAIN lists /\ p \in Nat /\ p < Len(lists[x])
      /\ p + 1 \in DOMAIN lists[x] /\ lists[x][p + 1] = Unset
      /\ set_entry(x, p, FirstVal(w) + f[w])
  BY <1>2, <1>3, FillPlace DEF Fill
<1>5. /\ DOMAIN lists' = DOMAIN lists
      /\ \A y \in DOMAIN lists : y # x => lists'[y] = lists[y]
      /\ DOMAIN lists'[x] = DOMAIN lists[x]
      /\ p + 1 \in DOMAIN lists[x]
      /\ lists'[x][p + 1] = FirstVal(w) + f[w]
      /\ \A e \in DOMAIN lists[x] : e # p + 1 => lists'[x][e] = lists[x][e]
  BY <1>1, <1>4, SetEntryDef
<1>6. CASE key # x
  BY <1>2, <1>5, <1>6 DEF IsEntry
<1>7. CASE key = x
  <2>1. ASSUME IsEntry(key, id)
        PROVE  IsEntry(key, id)'
    <3>1. PICK e \in DOMAIN lists[x] : lists[x][e] = id
      BY <1>7, <2>1 DEF IsEntry
    <3>2. lists'[x][e] = id
      BY <1>1, <1>4, <1>5, <3>1
    <3>3. QED
      BY <1>4, <1>5, <1>7, <3>1, <3>2 DEF IsEntry
  <2>2. ASSUME id = FirstVal(w) + f[w]
        PROVE  IsEntry(key, id)'
    BY <1>4, <1>5, <1>7, <2>2 DEF IsEntry
  <2>3. ASSUME IsEntry(key, id)', id # FirstVal(w) + f[w]
        PROVE  IsEntry(key, id)
    <3>1. PICK e \in DOMAIN lists'[x] : lists'[x][e] = id
      BY <1>7, <2>3 DEF IsEntry
    <3>2. QED
      BY <1>4, <1>5, <1>7, <2>3, <3>1 DEF IsEntry
  <2>4. QED
    BY <1>2, <1>7, <2>1, <2>2, <2>3
<1>8. QED
  BY <1>6, <1>7

\* Which id that is, and on which list: packet m of the burst, on the list of its
\* second, of one of its keys, or of a complex character.
Puts(w, m) ==
  \/ phase[w] = "time" /\ m = f[w] + 1 /\ Target(w) = TimeKey(now[w])
  \/ /\ phase[w] = "key" /\ m = n[w] + 1 /\ f[w] = 0
     /\ k[w] \in 1..Len(IndexKeys(pkts[w][m])) /\ Target(w) = IndexKeys(pkts[w][m])[k[w]]
  \/ /\ phase[w] = "char" /\ m = n[w] /\ f[w] = 0
     /\ k[w] < num_chars[w] /\ Target(w) = CharKey(k[w], now[w])

\* The entry that a push sets next.
LEMMA FillPuts ==
  ASSUME TypeOK, ControlInv, LoopInv, FillInv, NEW w \in Writers, pc[w] = "fill"
  PROVE  \E m \in 1..Len(pkts[w]) : FirstVal(w) + f[w] = (start_id[w] + m) - 1 /\ Puts(w, m)
<1>1. /\ n[w] \in Nat /\ start_id[w] \in Nat /\ Len(pkts[w]) \in Nat /\ f[w] \in Nat
      /\ f[w] < Count(w) /\ phase[w] \in {"time", "key", "char"}
  BY FillPlace DEF TypeOK, BurstType, ControlType
<1>2. /\ \/ phase[w] = "time" /\ n[w] = 0
         \/ phase[w] = "key" /\ n[w] < Len(pkts[w])
         \/ phase[w] = "char" /\ n[w] \in 1..Len(pkts[w])
  BY DEF ControlInv, ControlOf
<1>3. /\ phase[w] = "key" => k[w] \in 1..Len(IndexKeys(CurPkt(w)))
      /\ phase[w] = "char" => k[w] < num_chars[w]
  BY DEF LoopInv, LoopOf, Pushing
<1>4. CASE phase[w] = "time"
  <2>1. f[w] + 1 \in 1..Len(pkts[w])
    BY <1>1, <1>4 DEF Count
  <2>2. FirstVal(w) + f[w] = (start_id[w] + (f[w] + 1)) - 1
    BY <1>1, <1>4 DEF FirstVal
  <2>3. Puts(w, f[w] + 1)
    BY <1>4 DEF Puts, Target
  <2>4. QED
    BY <2>1, <2>2, <2>3
<1>5. CASE phase[w] = "key"
  <2>1. n[w] + 1 \in 1..Len(pkts[w]) /\ f[w] = 0
    BY <1>1, <1>2, <1>5 DEF Count
  <2>2. FirstVal(w) + f[w] = (start_id[w] + (n[w] + 1)) - 1
    BY <1>1, <1>5, <2>1 DEF FirstVal, CurId, Cur
  <2>3. CurPkt(w) = pkts[w][n[w] + 1]
    BY <1>5 DEF CurPkt, Cur
  <2>4. Puts(w, n[w] + 1)
    BY <1>3, <1>5, <2>1, <2>3 DEF Puts, Target
  <2>5. QED
    BY <2>1, <2>2, <2>4
<1>6. CASE phase[w] = "char"
  <2>1. n[w] \in 1..Len(pkts[w]) /\ f[w] = 0
    BY <1>1, <1>2, <1>6 DEF Count
  <2>2. FirstVal(w) + f[w] = (start_id[w] + n[w]) - 1
    BY <1>1, <1>6, <2>1 DEF FirstVal, CurId, Cur
  <2>3. Puts(w, n[w])
    BY <1>3, <1>6, <2>1 DEF Puts, Target
  <2>4. QED
    BY <2>1, <2>2, <2>3
<1>7. QED
  BY <1>1, <1>4, <1>5, <1>6

-----------------------------------------------------------------------------
(* Whose ids they are                                                      *)

\* The ids of a burst are claimed, not published, and recorded as accepted.
LEMMA HeldIds ==
  ASSUME TypeOK, IdInv, NEW w \in Writers, HasIds(w), NEW m \in 1..Len(pkts[w]),
         NEW id, id = start_id[w] + m - 1
  PROVE  /\ id \in Nat
         /\ id \in DOMAIN accepted
         /\ current_read_id <= id
         /\ accepted[id] = [ts |-> now[w], chars |-> known[w], pkt |-> pkts[w][m]]
<1>1. /\ start_id[w] \in Nat /\ Len(pkts[w]) \in Nat /\ current_write_id \in Nat
      /\ current_read_id \in Nat /\ DOMAIN accepted = 0..(current_write_id - 1)
  BY DEF TypeOK, BurstType, IdType
<1>2. /\ start_id[w] + Len(pkts[w]) <= current_write_id
      /\ Len(pkts[w]) > 0 => current_read_id <= start_id[w]
      /\ accepted[start_id[w] + m - 1] =
           [ts |-> now[w], chars |-> known[w], pkt |-> pkts[w][m]]
  BY DEF IdInv, IdsOf
<1>3. QED
  BY <1>1, <1>2

\* No two bursts hold the same id.
LEMMA HeldApart ==
  ASSUME TypeOK, IdInv, NEW w \in Writers, NEW v \in Writers, w # v, HasIds(w), HasIds(v),
         NEW m \in 1..Len(pkts[w]), NEW j \in 1..Len(pkts[v])
  PROVE  start_id[w] + m - 1 # start_id[v] + j - 1
<1>1. /\ start_id[w] \in Nat /\ Len(pkts[w]) \in Nat
      /\ start_id[v] \in Nat /\ Len(pkts[v]) \in Nat
  BY DEF TypeOK, BurstType
<1>2. \/ start_id[w] + Len(pkts[w]) <= start_id[v]
      \/ start_id[v] + Len(pkts[v]) <= start_id[w]
  BY DEF IdInv, DisjointIds
<1>3. QED
  BY <1>1, <1>2

\* What a step of a writer puts on the lists: nothing, or one id of its burst.
LEMMA EntryStep ==
  ASSUME TypeOK, ControlInv, IdInv, LoopInv, FillInv, NEW w \in Writers, Writer(w)
  PROVE  \/ /\ ~Fill(w)
            /\ \A key : \A id \in Nat : IsEntry(key, id)' <=> IsEntry(key, id)
         \/ /\ Fill(w)
            /\ HasIds(w)
            /\ \E m \in 1..Len(pkts[w]) :
                 /\ Puts(w, m)
                 /\ \A key : \A id \in Nat :
                      IsEntry(key, id)' <=>
                        \/ IsEntry(key, id)
                        \/ key = Target(w) /\ id = start_id[w] + m - 1
<1>1. CASE ~Fill(w)
  BY <1>1, EntriesSame
<1>2. CASE Fill(w)
  <2>1. pc[w] = "fill" /\ HasIds(w)
    BY <1>2 DEF Fill, HasIds
  <2>2. PICK m \in 1..Len(pkts[w]) :
          FirstVal(w) + f[w] = (start_id[w] + m) - 1 /\ Puts(w, m)
    BY <2>1, FillPuts
  <2>3. start_id[w] \in Nat /\ Len(pkts[w]) \in Nat
    BY DEF TypeOK, BurstType
  <2>4. FirstVal(w) + f[w] = start_id[w] + m - 1
    BY <2>2, <2>3
  <2>5. ASSUME NEW key, NEW id \in Nat
        PROVE  IsEntry(key, id)' <=>
                 IsEntry(key, id) \/ (key = Target(w) /\ id = start_id[w] + m - 1)
    BY <1>2, <2>4, EntryAdded
  <2>6. QED
    BY <1>2, <2>1, <2>2, <2>5
<1>3. QED
  BY <1>1, <1>2

\* So the lists say the same as before of the ids of other bursts ...
LEMMA OthersEntries ==
  ASSUME TypeOK, ControlInv, IdInv, LoopInv, FillInv, NEW w \in Writers, Writer(w),
         NEW v \in Writers, v # w, HasIds(v), NEW j \in 1..Len(pkts[v]),
         NEW id, id = start_id[v] + j - 1, NEW key
  PROVE  IsEntry(key, id)' <=> IsEntry(key, id)
<1>1. id \in Nat
  BY HeldIds
<1>2. CASE Fill(w)
  <2>1. HasIds(w)
    BY <1>2 DEF Fill, HasIds
  <2>2. PICK m \in 1..Len(pkts[w]) :
          \A y : \A i \in Nat :
            IsEntry(y, i)' <=> IsEntry(y, i) \/ (y = Target(w) /\ i = start_id[w] + m - 1)
    BY <1>2, EntryStep
  <2>3. start_id[w] + m - 1 # id
    BY <2>1, HeldApart
  <2>4. QED
    BY <1>1, <2>2, <2>3
<1>3. QED
  BY <1>1, <1>2, EntryStep

\* ... and of the published ids.
LEMMA PublishedEntries ==
  ASSUME TypeOK, ControlInv, IdInv, LoopInv, FillInv, NEW w \in Writers, Writer(w),
         NEW id \in 0..(current_read_id - 1), NEW key
  PROVE  IsEntry(key, id)' <=> IsEntry(key, id)
<1>1. id \in Nat /\ id < current_read_id
  BY DEF TypeOK, IdType
<1>2. CASE Fill(w)
  <2>1. HasIds(w)
    BY <1>2 DEF Fill, HasIds
  <2>2. PICK m \in 1..Len(pkts[w]) :
          \A y : \A i \in Nat :
            IsEntry(y, i)' <=> IsEntry(y, i) \/ (y = Target(w) /\ i = start_id[w] + m - 1)
    BY <1>2, EntryStep
  <2>3. PICK i : i = start_id[w] + m - 1
    OBVIOUS
  <2>4. i \in Nat /\ current_read_id <= i
    BY <2>1, <2>3, HeldIds
  <2>5. i # id
    BY <1>1, <2>4 DEF TypeOK, IdType
  <2>6. QED
    BY <1>1, <2>2, <2>3, <2>5
<1>3. QED
  BY <1>1, <1>2, EntryStep

-----------------------------------------------------------------------------
(* Soundness of the index                                                  *)

Belongs(key, id) ==
  /\ id \in DOMAIN accepted
  /\ \/ key = TimeKey(accepted[id].ts)
     \/ \E j \in DOMAIN IndexKeys(accepted[id].pkt) : key = IndexKeys(accepted[id].pkt)[j]
     \/ \E c \in 0..(num_filters - 1) : key = CharKey(c, accepted[id].ts)

SoundOn == \A key : \A id \in Nat : IsEntry(key, id) => Belongs(key, id)

\* IndexSound says that every id on a list belongs there.
LEMMA SoundEntries == TypeOK => (IndexSound <=> SoundOn)
<1> SUFFICES ASSUME TypeOK PROVE IndexSound <=> SoundOn
  OBVIOUS
<1>1. ASSUME NEW key \in DOMAIN lists, NEW e \in DOMAIN lists[key]
      PROVE  lists[key][e] # Unset => lists[key][e] \in Nat
  <2>1. lists[key] \in Seq(Nat \cup {Unset})
    BY DEF TypeOK, ListType
  <2>2. QED
    BY <2>1
<1>2. ASSUME IndexSound PROVE SoundOn
  BY <1>2, UnsetAssumption DEF IndexSound, SoundOn, IsEntry, Belongs
<1>3. ASSUME SoundOn PROVE IndexSound
  BY <1>1, <1>3 DEF IndexSound, SoundOn, IsEntry, Belongs
<1>4. QED
  BY <1>2, <1>3

LEMMA SoundEntriesPrime == (TypeOK => (IndexSound <=> SoundOn))'
BY SoundEntries, PTL

\* What is accepted stays as it is.
LEMMA AcceptedKept ==
  ASSUME TypeOK, [Next]_vars, NEW id \in DOMAIN accepted
  PROVE  id \in DOMAIN accepted' /\ accepted'[id] = accepted[id]
<1>1. current_write_id \in Nat /\ id \in 0..(current_write_id - 1)
  BY DEF TypeOK, IdType
<1>2. ASSUME NEW w \in Writers, ClaimIds(w)
      PROVE  id \in DOMAIN accepted' /\ accepted'[id] = accepted[id]
  <2>1. current_write_id' = current_write_id + Len(pkts[w]) /\ Len(pkts[w]) \in Nat
    BY <1>2 DEF ClaimIds, claim_ids, TypeOK, BurstType
  <2>2. id \in 0..(current_write_id' - 1) /\ id < current_write_id
    BY <1>1, <2>1
  <2>3. QED
    BY <1>2, <2>2 DEF ClaimIds
<1>3. CASE accepted' = accepted
  BY <1>3
<1>4. QED
  BY <1>2, <1>3
  DEF Next, Writer, Poll, AllocIds, ClaimBytes, AllocBytes, LoadFilters, GetList,
      Reserve, Fill, SetOffLen, AppendPkt, Apply, End, ClaimChar, AssignChar, Tick, vars

\* An id that belongs on a list belongs there for good.
LEMMA BelongsKept ==
  ASSUME TypeOK, [Next]_vars, NEW key, NEW id, Belongs(key, id)
  PROVE  Belongs(key, id)'
<1>1. id \in DOMAIN accepted' /\ accepted'[id] = accepted[id]
  BY AcceptedKept DEF Belongs
<1>2. \A c \in 0..(num_filters - 1) : c \in 0..(num_filters' - 1)
  BY FiltersGrow
<1>3. QED
  BY <1>1, <1>2 DEF Belongs

\* The id a push puts on a list belongs there.
LEMMA PutsBelongs ==
  ASSUME TypeOK, ControlInv, IdInv, LoopInv, NEW w \in Writers, HasIds(w),
         NEW m \in 1..Len(pkts[w]), Puts(w, m), NEW id, id = start_id[w] + m - 1
  PROVE  Belongs(Target(w), id)
<1>1. /\ id \in DOMAIN accepted
      /\ accepted[id] = [ts |-> now[w], chars |-> known[w], pkt |-> pkts[w][m]]
  BY HeldIds
<1>2. accepted[id].ts = now[w] /\ accepted[id].pkt = pkts[w][m]
  BY <1>1
<1>3. k[w] < num_chars[w] => k[w] \in 0..(num_filters - 1)
  BY BoundAssumption DEF TypeOK, ControlType, BurstType, CharType, LoopInv, LoopOf
<1>4. DOMAIN IndexKeys(pkts[w][m]) = 1..Len(IndexKeys(pkts[w][m]))
  BY KeyFacts
<1>5. QED
  BY <1>1, <1>2, <1>3, <1>4 DEF Puts, Belongs

\* Every step keeps the index sound.
LEMMA SoundStep ==
  ASSUME TypeOK, TypeOK', ControlInv, IdInv, LoopInv, FillInv, IndexSound, [Next]_vars
  PROVE  IndexSound'
<1>1. SoundOn
  BY SoundEntries
<1>2. SUFFICES SoundOn'
  BY SoundEntriesPrime
<1>3. SUFFICES ASSUME NEW key, NEW id \in Nat, IsEntry(key, id)'
               PROVE  Belongs(key, id)'
  BY DEF SoundOn
<1>4. SUFFICES Belongs(key, id)
  BY BelongsKept
<1>5. CASE IsEntry(key, id)
  BY <1>1, <1>5 DEF SoundOn
<1>6. ASSUME NEW w \in Writers, Writer(w), ~IsEntry(key, id)
      PROVE  Belongs(key, id)
  <2>1. Fill(w) /\ HasIds(w)
    BY <1>3, <1>6, EntryStep
  <2>2. PICK m \in 1..Len(pkts[w]) :
          /\ Puts(w, m)
          /\ \A y : \A i \in Nat :
               IsEntry(y, i)' <=> IsEntry(y, i) \/ (y = Target(w) /\ i = start_id[w] + m - 1)
    BY <1>6, <2>1, EntryStep
  <2>3. key = Target(w) /\ id = start_id[w] + m - 1
    BY <1>3, <1>6, <2>2
  <2>4. QED
    BY <2>1, <2>2, <2>3, PutsBelongs
<1>7. CASE lists' = lists
  BY <1>3, <1>5, <1>7 DEF IsEntry
<1>8. QED
  BY <1>5, <1>6, <1>7 DEF Next, ClaimChar, AssignChar, Tick, vars, shared

-----------------------------------------------------------------------------
(* The ids of a burst on the lists of its packets                          *)

\* Which lists of a packet ListedIn names.
LEMMA ListedMembers ==
  ASSUME NEW w \in Writers, NEW m
  PROVE  /\ TimeKey(now[w]) \in ListedIn(w, m) <=> ListedTime(w, m)
         /\ \A j \in 1..Len(IndexKeys(pkts[w][m])) :
              IndexKeys(pkts[w][m])[j] \in ListedIn(w, m) <=> j \in ListedKeys(w, m)
<1> DEFINE K == IndexKeys(pkts[w][m])
<1>1. /\ \A j \in 1..Len(K) : K[j][1] # "timestamp"
      /\ \A i, j \in 1..Len(K) : K[i] = K[j] => i = j
  BY KeyFacts
<1>2. ListedKeys(w, m) \subseteq 1..Len(K)
  BY DEF ListedKeys
<1>3. TimeKey(now[w])[1] = "timestamp"
  BY TagFacts
<1>4. \A key : key \in ListedIn(w, m) <=>
        \/ key = TimeKey(now[w]) /\ ListedTime(w, m)
        \/ \E j \in ListedKeys(w, m) : key = K[j]
  BY DEF ListedIn
<1> HIDE DEF K
<1>5. /\ TimeKey(now[w]) \in ListedIn(w, m) <=> ListedTime(w, m)
      /\ \A j \in 1..Len(K) : K[j] \in ListedIn(w, m) <=> j \in ListedKeys(w, m)
  BY <1>1, <1>2, <1>3, <1>4
<1>6. QED
  BY <1>5 DEF K

\* What HeldListed says of one packet, list by list.
OnLists(w, m) ==
  LET id == start_id[w] + m - 1
      K  == IndexKeys(pkts[w][m])
  IN  /\ IsEntry(TimeKey(now[w]), id) <=> ListedTime(w, m)
      /\ \A j \in 1..Len(K) : IsEntry(K[j], id) <=> j \in ListedKeys(w, m)

LEMMA HeldOnLists ==
  \A w \in Writers : HeldListed(w) <=>
    (HasIds(w) => \A m \in 1..Len(pkts[w]) : OnLists(w, m))
<1> SUFFICES ASSUME NEW w \in Writers
             PROVE  HeldListed(w) <=>
                      (HasIds(w) => \A m \in 1..Len(pkts[w]) : OnLists(w, m))
  OBVIOUS
<1>1. ASSUME NEW m \in 1..Len(pkts[w])
      PROVE  OnLists(w, m) <=>
               \A key \in ListsOf(now[w], pkts[w][m]) :
                 IsEntry(key, start_id[w] + m - 1) <=> key \in ListedIn(w, m)
  BY ListedMembers DEF OnLists, ListsOf, KeysOf
<1>2. QED
  BY <1>1 DEF HeldListed

LEMMA HeldOnListsPrime ==
  (\A w \in Writers : HeldListed(w) <=>
    (HasIds(w) => \A m \in 1..Len(pkts[w]) : OnLists(w, m)))'
BY HeldOnLists, PTL

\* Once the loops have moved on, the packets done are on all their lists, and the
\* others on the list of their second only.
LEMMA NextListed ==
  ASSUME TypeOK, NEW w \in Writers, NEW c, NEW d \in Nat,
         NextPkt(w, d) \/ NextChar(w, c, d), d = 0 \/ phase[w] # "time",
         n'[w] = d, pkts' = pkts, NEW m \in 1..Len(pkts[w])
  PROVE  /\ ListedTime(w, m)'
         /\ ListedKeys(w, m)' = {j \in 1..Len(IndexKeys(pkts[w][m])) : m <= d}
<1>1. ControlType /\ Len(pkts[w]) \in Nat
  BY DEF TypeOK, BurstType
<1>2. CASE ToKey(w, 1)
  <2>1. pc'[w] = "get" /\ phase'[w] = "key" /\ k'[w] = 1
    BY <1>1, <1>2, MoveSelf, MoveSelfK
  <2>2. \A j \in 1..Len(IndexKeys(pkts[w][m])) : ~(j < 1)
    BY KeyFacts
  <2>3. QED
    BY <2>1, <2>2 DEF ListedTime, ListedKeys
<1>3. CASE d = Len(pkts[w]) /\ ToLabel(w, "end")
  <2>1. pc'[w] = "end" /\ phase'[w] = phase[w] /\ phase[w] # "time"
    BY <1>1, <1>3, MoveSelf
  <2>2. m <= d
    BY <1>1, <1>3
  <2>3. QED
    BY <2>1, <2>2 DEF ListedTime, ListedKeys
<1>4. CASE ToChar(w, c)
  <2>1. phase'[w] = "char"
    BY <1>1, <1>4, MoveSelf
  <2>2. QED
    BY <2>1 DEF ListedTime, ListedKeys
<1>5. QED
  BY <1>2, <1>3, <1>4 DEF NextPkt, NextChar

\* In the loops over packets and characters the same holds before the move.
LEMMA NowListed ==
  ASSUME NEW w \in Writers, phase[w] = "char", NEW m
  PROVE  /\ ListedTime(w, m)
         /\ ListedKeys(w, m) = {j \in 1..Len(IndexKeys(pkts[w][m])) : m <= n[w]}
BY DEF ListedTime, ListedKeys

\* A step of a writer that puts nothing on a list leaves what is listed alone.
LEMMA ListedSame ==
  ASSUME TypeOK, ControlInv, LoopInv, FillInv, NEW w \in Writers, HasIds(w),
         AllocIds(w) \/ ClaimBytes(w) \/ (Middle(w) /\ ~Fill(w)),
         NEW m \in 1..Len(pkts[w])
  PROVE  /\ ListedTime(w, m)' <=> ListedTime(w, m)
         /\ ListedKeys(w, m)' = ListedKeys(w, m)
<1>1. /\ ControlType /\ pc \in [Writers -> Pcs] /\ n \in [Writers -> Nat]
      /\ phase \in [Writers -> {"time", "key", "char"}] /\ f \in [Writers -> Nat]
      /\ Len(pkts[w]) \in Nat /\ n[w] \in Nat /\ k[w] \in Nat
  BY DEF TypeOK, ControlType, BurstType
<1>2. LoopOf(w) /\ ControlOf(w) /\ FillOf(w)
  BY DEF LoopInv, ControlInv, FillInv
<1>3. CASE AllocIds(w) \/ ClaimBytes(w) \/ AllocBytes(w) \/ LoadFilters(w)
  <2>1. /\ phase[w] = "time" /\ n[w] = 0 /\ pc[w] # "fill"
        /\ phase'[w] = "time" /\ n'[w] = 0 /\ pc'[w] # "fill"
    BY <1>1, <1>2, <1>3 DEF AllocIds, ClaimBytes, AllocBytes, LoadFilters, Goto, LoopOf
  <2>2. ~(m <= 0) /\ pkts' = pkts
    BY <1>3 DEF AllocIds, ClaimBytes, AllocBytes, LoadFilters
  <2>3. QED
    BY <2>1, <2>2 DEF ListedTime, ListedKeys
<1>4. CASE GetList(w) \/ SetOffLen(w)
  BY <1>1, <1>4 DEF GetList, SetOffLen, Goto, ListedTime, ListedKeys
<1>5. CASE Reserve(w)
  <2>1. Count(w) > 0
    <3>1. phase[w] = "time" => Count(w) = Len(pkts[w])
      BY DEF Count
    <3>2. phase[w] # "time" => Count(w) = 1
      BY DEF Count
    <3>3. QED
      BY <1>1, <3>1, <3>2
  <2>2. ToLabel(w, "fill")
    BY <1>5, <2>1 DEF Reserve
  <2>3. pc[w] = "reserve" /\ pc'[w] = "fill" /\ phase'[w] = phase[w] /\ k'[w] = k[w] /\ f'[w] = 0
    BY <1>1, <1>5, <2>2, MoveSelf, MoveSelfK DEF Reserve
  <2>4. n' = n /\ pkts' = pkts /\ ~(m <= 0)
    BY <1>5 DEF Reserve
  <2>5. QED
    BY <2>3, <2>4 DEF ListedTime, ListedKeys
<1>6. CASE AppendPkt(w)
  <2>1. /\ pc[w] = "append" /\ phase[w] = "key" /\ n'[w] = n[w] + 1 /\ pkts' = pkts
        /\ NextChar(w, 0, n[w] + 1)
    BY <1>1, <1>2, <1>6 DEF AppendPkt, ControlOf
  <2>2. /\ ListedTime(w, m)'
        /\ ListedKeys(w, m)' = {j \in 1..Len(IndexKeys(pkts[w][m])) : m <= n[w] + 1}
    <3>1. PICK d : d = n[w] + 1
      OBVIOUS
    <3>2. d \in Nat /\ phase[w] # "time" /\ n'[w] = d /\ NextChar(w, 0, d) /\ pkts' = pkts
      BY <1>1, <2>1, <3>1
    <3>3. /\ ListedTime(w, m)'
          /\ ListedKeys(w, m)' = {j \in 1..Len(IndexKeys(pkts[w][m])) : m <= d}
      BY <3>2, NextListed
    <3>4. QED
      BY <3>1, <3>3
  <2>3. m <= n[w] + 1 <=> m <= n[w] \/ m = n[w] + 1
    BY <1>1
  <2>4. QED
    BY <2>1, <2>2, <2>3 DEF ListedTime, ListedKeys
<1>7. CASE Apply(w)
  <2>1. /\ phase[w] = "char" /\ n' = n /\ pkts' = pkts
        /\ ToLabel(w, "get") \/ NextChar(w, k[w] + 1, n[w])
    BY <1>2, <1>7 DEF Apply, ControlOf
  <2>2. /\ ListedTime(w, m)
        /\ ListedKeys(w, m) = {j \in 1..Len(IndexKeys(pkts[w][m])) : m <= n[w]}
    BY <2>1, NowListed
  <2>3. CASE ToLabel(w, "get")
    <3>1. phase'[w] = "char"
      BY <1>1, <2>1, <2>3, MoveSelf
    <3>2. QED
      BY <2>1, <2>2, <3>1 DEF ListedTime, ListedKeys
  <2>4. CASE NextChar(w, k[w] + 1, n[w])
    BY <1>1, <2>1, <2>2, <2>4, NextListed
  <2>5. QED
    BY <2>1, <2>3, <2>4
<1>8. QED
  BY <1>3, <1>4, <1>5, <1>6, <1>7 DEF Middle

\* What the setting of an entry adds to what is listed: packet m on the list of
\* its second, or on that of its next key; nothing for a complex character.
LEMMA ListedFill ==
  ASSUME TypeOK, ControlInv, LoopInv, FillInv, NEW w \in Writers, Fill(w),
         NEW m \in 1..Len(pkts[w])
  PROVE  /\ ListedTime(w, m)' <=> ListedTime(w, m) \/ (phase[w] = "time" /\ m = f[w] + 1)
         /\ \A j \in 1..Len(IndexKeys(pkts[w][m])) :
              j \in ListedKeys(w, m)' <=>
                j \in ListedKeys(w, m) \/ (phase[w] = "key" /\ m = n[w] + 1 /\ j = k[w])
<1>1. /\ ControlType /\ pc \in [Writers -> Pcs] /\ n \in [Writers -> Nat]
      /\ phase \in [Writers -> {"time", "key", "char"}] /\ f \in [Writers -> Nat]
      /\ Len(pkts[w]) \in Nat /\ n[w] \in Nat /\ k[w] \in Nat /\ f[w] \in Nat
  BY DEF TypeOK, ControlType, BurstType
<1>2. /\ pc[w] = "fill" /\ n' = n /\ pkts' = pkts /\ f'[w] = f[w] + 1 /\ f[w] < Count(w)
  BY <1>1, FillPlace DEF Fill
<1>3. \/ f[w] + 1 = Count(w) /\ AfterPush(w)
      \/ f[w] + 1 < Count(w) /\ ToLabel(w, "fill")
  BY DEF Fill
<1>4. Len(IndexKeys(pkts[w][m])) \in Nat
  BY KeyFacts
<1>5. CASE phase[w] = "time"
  <2>1. n[w] = 0 /\ Count(w) = Len(pkts[w])
    BY <1>2, <1>5 DEF ControlInv, ControlOf, Count
  <2>2. ListedKeys(w, m) = {} /\ (ListedTime(w, m) <=> m <= f[w]) /\ ~(m <= 0)
    BY <1>2, <1>5, <2>1 DEF ListedKeys, ListedTime
  <2>3. CASE f[w] + 1 = Count(w) /\ AfterPush(w)
    <3>1. NextPkt(w, 0)
      BY <1>5, <2>3 DEF AfterPush
    <3>2. ListedTime(w, m)' /\ ListedKeys(w, m)' = {j \in 1..Len(IndexKeys(pkts[w][m])) : m <= 0}
      <4>1. PICK d : d = 0
        OBVIOUS
      <4>2. d \in Nat /\ d = 0 /\ n'[w] = d /\ NextPkt(w, d) /\ pkts' = pkts
        BY <1>2, <2>1, <3>1, <4>1
      <4>3. ListedTime(w, m)' /\ ListedKeys(w, m)' = {j \in 1..Len(IndexKeys(pkts[w][m])) : m <= d}
        BY <4>2, NextListed
      <4>4. QED
        BY <4>1, <4>3
    <3>3. m <= f[w] \/ m = f[w] + 1
      BY <1>1, <2>1, <2>3
    <3>4. QED
      BY <1>5, <2>2, <3>2, <3>3
  <2>4. CASE ToLabel(w, "fill")
    <3>1. pc'[w] = "fill" /\ phase'[w] = "time"
      BY <1>1, <1>5, <2>4, MoveSelf
    <3>2. m <= f[w] + 1 <=> m <= f[w] \/ m = f[w] + 1
      BY <1>1
    <3>3. QED
      BY <1>2, <1>5, <2>1, <2>2, <3>1, <3>2 DEF ListedKeys, ListedTime
  <2>5. QED
    BY <1>3, <2>3, <2>4
<1>6. CASE phase[w] = "key"
  <2>1. Count(w) = 1 /\ f[w] = 0 /\ n[w] < Len(pkts[w])
    BY <1>1, <1>2, <1>6 DEF ControlInv, ControlOf, Count
  <2>2. AfterPush(w)
    BY <1>3, <2>1
  <2>3. CurPkt(w) = pkts[w][n[w] + 1]
    BY <1>6 DEF CurPkt, Cur
  <2>4. k[w] \in 1..Len(IndexKeys(CurPkt(w)))
    BY <1>2, <1>6 DEF LoopInv, LoopOf, Pushing
  <2>5. CASE ToKey(w, k[w] + 1)
    <3>1. pc'[w] = "get" /\ phase'[w] = "key" /\ k'[w] = k[w] + 1
      BY <1>1, <2>5, MoveSelf, MoveSelfK
    <3>2. \A j \in 1..Len(IndexKeys(pkts[w][m])) : j < k[w] + 1 <=> j < k[w] \/ j = k[w]
      BY <1>1, <1>4
    <3>3. QED
      BY <1>2, <1>6, <3>1, <3>2 DEF ListedKeys, ListedTime
  <2>6. CASE k[w] = Len(IndexKeys(CurPkt(w))) /\ ToLabel(w, "set_offlen")
    <3>1. pc'[w] = "set_offlen" /\ phase'[w] = "key"
      BY <1>1, <1>6, <2>6, MoveSelf
    <3>2. m = n[w] + 1 =>
            \A j \in 1..Len(IndexKeys(pkts[w][m])) : j < k[w] \/ j = k[w]
      BY <1>1, <1>4, <2>3, <2>6
    <3>3. QED
      BY <1>2, <1>6, <3>1, <3>2 DEF ListedKeys, ListedTime
  <2>7. QED
    BY <1>6, <2>2, <2>5, <2>6 DEF AfterPush
<1>7. CASE phase[w] = "char"
  <2>1. Count(w) = 1 /\ f[w] = 0
    BY <1>1, <1>2, <1>7 DEF Count
  <2>2. NextChar(w, k[w] + 1, n[w])
    BY <1>3, <1>7, <2>1 DEF AfterPush
  <2>3. /\ ListedTime(w, m)
        /\ ListedKeys(w, m) = {j \in 1..Len(IndexKeys(pkts[w][m])) : m <= n[w]}
    BY <1>7, NowListed
  <2>4. /\ ListedTime(w, m)'
        /\ ListedKeys(w, m)' = {j \in 1..Len(IndexKeys(pkts[w][m])) : m <= n[w]}
    BY <1>1, <1>2, <1>7, <2>2, NextListed
  <2>5. QED
    BY <1>7, <2>3, <2>4
<1>8. QED
  BY <1>1, <1>5, <1>6, <1>7

\* A step of a writer keeps its own burst on the lists it has been pushed to.
LEMMA OwnListed ==
  ASSUME TypeOK, TypeOK', ControlInv, IdInv, LoopInv, FillInv, IndexSound,
         NEW w \in Writers, Writer(w), HeldListed(w)
  PROVE  HeldListed(w)'
<1>1. /\ ControlType /\ pc \in [Writers -> Pcs] /\ start_id \in [Writers -> Nat]
      /\ start_id[w] \in Nat /\ Len(pkts[w]) \in Nat /\ n[w] \in Nat
  <2>1. ControlType /\ BurstType
    BY DEF TypeOK
  <2>2. QED
    BY <2>1 DEF ControlType, BurstType
<1>2. SUFFICES ASSUME HasIds(w)', NEW m \in 1..Len(pkts'[w])
               PROVE  OnLists(w, m)'
  BY HeldOnListsPrime
<1>3. CASE Poll(w) \/ End(w)
  BY <1>1, <1>2, <1>3 DEF Poll, End, Goto, HasIds
<1>4. CASE ClaimIds(w)
  <2>1. /\ start_id'[w] = current_write_id /\ pkts' = pkts /\ now' = now /\ lists' = lists
        /\ phase' = phase /\ n' = n /\ pc'[w] = "alloc_ids" /\ pc[w] = "claim_ids"
    BY <1>1, <1>4 DEF ClaimIds, Goto
  <2>2. phase[w] = "time" /\ n[w] = 0
    BY <2>1 DEF LoopInv, LoopOf
  <2>3. PICK id : id = current_write_id + m - 1
    OBVIOUS
  <2>4. id \in Nat /\ id \notin DOMAIN accepted
    BY <1>1, <2>1, <2>3 DEF TypeOK, IdType
  <2>5. SoundOn
    BY SoundEntries
  <2>6. \A key : ~IsEntry(key, id)
    BY <2>4, <2>5 DEF SoundOn, Belongs
  <2>7. \A key : ~IsEntry(key, id)'
    BY <2>1, <2>6 DEF IsEntry
  <2>8. ~(m <= 0)
    BY <1>1, <2>1
  <2>9. ~ListedTime(w, m)' /\ ListedKeys(w, m)' = {}
    BY <2>1, <2>2, <2>8 DEF ListedTime, ListedKeys
  <2>10. start_id'[w] + m - 1 = id
    BY <2>1, <2>3
  <2>11. QED
    BY <2>7, <2>9, <2>10 DEF OnLists
<1>5. ASSUME AllocIds(w) \/ ClaimBytes(w) \/ Middle(w)
      PROVE  OnLists(w, m)'
  <2>1. /\ HasIds(w) /\ pkts' = pkts /\ now' = now /\ start_id' = start_id
    BY <1>5, MiddleStep DEF AllocIds, ClaimBytes, Goto, HasIds
  <2>2. OnLists(w, m) /\ m \in 1..Len(pkts[w])
    BY <1>2, <2>1, HeldOnLists
  <2>3. PICK id : id = start_id[w] + m - 1
    OBVIOUS
  <2>4. id \in Nat
    BY <2>1, <2>2, <2>3, HeldIds
  <2> DEFINE K == IndexKeys(pkts[w][m])
  <2>5. /\ IsEntry(TimeKey(now[w]), id) <=> ListedTime(w, m)
        /\ \A j \in 1..Len(K) : IsEntry(K[j], id) <=> j \in ListedKeys(w, m)
    BY <2>2, <2>3 DEF OnLists
  <2>6. SUFFICES /\ IsEntry(TimeKey(now[w]), id)' <=> ListedTime(w, m)'
                 /\ \A j \in 1..Len(K) : IsEntry(K[j], id)' <=> j \in ListedKeys(w, m)'
    BY <2>1, <2>3 DEF OnLists, IsEntry
  <2>7. CASE ~Fill(w)
    <3>1. /\ ListedTime(w, m)' <=> ListedTime(w, m)
          /\ ListedKeys(w, m)' = ListedKeys(w, m)
      BY <1>5, <2>1, <2>2, <2>7, ListedSame
    <3>2. \A key : IsEntry(key, id)' <=> IsEntry(key, id)
      BY <2>4, <2>7, EntriesSame
    <3>3. QED
      BY <2>1, <2>5, <3>1, <3>2
  <2>8. CASE Fill(w)
    <3>1. /\ ListedTime(w, m)' <=> ListedTime(w, m) \/ (phase[w] = "time" /\ m = f[w] + 1)
          /\ \A j \in 1..Len(K) :
              j \in ListedKeys(w, m)' <=>
                j \in ListedKeys(w, m) \/ (phase[w] = "key" /\ m = n[w] + 1 /\ j = k[w])
      BY <2>2, <2>8, ListedFill
    <3>2. PICK i \in 1..Len(pkts[w]) :
            /\ Puts(w, i)
            /\ \A y : \A x \in Nat :
                 IsEntry(y, x)' <=> IsEntry(y, x) \/ (y = Target(w) /\ x = start_id[w] + i - 1)
      BY <2>8, EntryStep
    <3>3. id = start_id[w] + i - 1 <=> i = m
      BY <1>1, <2>2, <2>3
    <3>4. \A y : IsEntry(y, id)' <=> IsEntry(y, id) \/ (y = Target(w) /\ i = m)
      BY <2>4, <3>2, <3>3
    <3>5. /\ \A j \in 1..Len(K) : K[j][1] # "timestamp" /\ K[j][1] # "char"
          /\ \A a, b \in 1..Len(K) : K[a] = K[b] => a = b
      BY KeyFacts
    <3>6. TimeKey(now[w])[1] = "timestamp" /\ CharKey(k[w], now[w])[1] = "char"
      BY TagFacts
    <3>7. TimeKey(now[w]) = Target(w) /\ i = m <=> phase[w] = "time" /\ m = f[w] + 1
      <4>1. IndexKeys(pkts[w][i])[k[w]] # TimeKey(now[w]) \/ k[w] \notin 1..Len(IndexKeys(pkts[w][i]))
        BY <3>6, KeyFacts
      <4>2. CharKey(k[w], now[w]) # TimeKey(now[w])
        BY <3>6
      <4>3. QED
        BY <3>2, <4>1, <4>2 DEF Puts
    <3>8. ASSUME NEW j \in 1..Len(K)
          PROVE  K[j] = Target(w) /\ i = m <=> phase[w] = "key" /\ m = n[w] + 1 /\ j = k[w]
      <4>1. K[j] # TimeKey(now[w]) /\ K[j] # CharKey(k[w], now[w])
        BY <3>5, <3>6
      <4> HIDE DEF K
      <4>2. \/ phase[w] = "time" /\ Target(w) = TimeKey(now[w])
            \/ phase[w] = "char" /\ Target(w) = CharKey(k[w], now[w])
            \/ phase[w] = "key" /\ i = n[w] + 1
        BY <3>2 DEF Puts
      <4>3. ASSUME phase[w] = "key", i = m
            PROVE  k[w] \in 1..Len(K) /\ Target(w) = K[k[w]] /\ m = n[w] + 1
        BY <3>2, <4>3 DEF Puts, K
      <4>4. QED
        BY <3>5, <4>1, <4>2, <4>3
    <3> HIDE DEF K
    <3>9. IsEntry(TimeKey(now[w]), id)' <=> ListedTime(w, m)'
      <4>1. PICK y : y = TimeKey(now[w]) /\ y = TimeKey(now'[w])
        BY <2>1
      <4>2. IsEntry(y, id)' <=> ListedTime(w, m)'
        BY <2>5, <3>1, <3>4, <3>7, <4>1
      <4>3. QED
        BY <2>1, <4>1, <4>2
    <3>10. ASSUME NEW j \in 1..Len(K)
           PROVE  IsEntry(K[j], id)' <=> j \in ListedKeys(w, m)'
      <4>1. PICK y : y = K[j]
        OBVIOUS
      <4>2. IsEntry(y, id)' <=> j \in ListedKeys(w, m)'
        BY <2>5, <3>1, <3>4, <3>8, <4>1
      <4>3. y = K[j]'
        BY <2>1, <4>1 DEF K
      <4>4. QED
        BY <4>2, <4>3
    <3>11. QED
      BY <3>9, <3>10 DEF K
  <2>9. QED
    BY <2>7, <2>8
<1>6. QED
  BY <1>3, <1>4, <1>5 DEF Writer, Middle

\* A step of one writer leaves the lists of another's burst as they are.
LEMMA OtherListed ==
  ASSUME TypeOK, ControlInv, IdInv, LoopInv, FillInv,
         NEW w \in Writers, Writer(w), NEW v \in Writers, v # w, HeldListed(v)
  PROVE  HeldListed(v)'
<1>1. /\ SameLocals(v) /\ SamePush(v) /\ HasIds(v)' = HasIds(v)
  BY OtherPush
<1>2. SUFFICES ASSUME HasIds(v)', NEW m \in 1..Len(pkts'[v])
               PROVE  OnLists(v, m)'
  BY HeldOnListsPrime
<1>3. HasIds(v) /\ m \in 1..Len(pkts[v]) /\ pkts'[v] = pkts[v] /\ now'[v] = now[v]
      /\ start_id'[v] = start_id[v]
  BY <1>1, <1>2 DEF SameLocals
<1>4. OnLists(v, m)
  BY <1>3, HeldOnLists
<1>5. /\ ListedTime(v, m)' <=> ListedTime(v, m)
      /\ ListedKeys(v, m)' = ListedKeys(v, m)
  BY <1>1 DEF SameLocals, SamePush, ListedTime, ListedKeys
<1>6. PICK id : id = start_id[v] + m - 1
  OBVIOUS
<1>7. \A key : IsEntry(key, id)' <=> IsEntry(key, id)
  BY <1>3, <1>6, OthersEntries
<1>8. PICK t : t = TimeKey(now[v])
  OBVIOUS
<1>9. PICK K : K = IndexKeys(pkts[v][m])
  OBVIOUS
<1>10. t = TimeKey(now'[v]) /\ K = IndexKeys(pkts'[v][m]) /\ id = start_id'[v] + m - 1
  BY <1>3, <1>6, <1>8, <1>9
<1>11. /\ IsEntry(t, id) <=> ListedTime(v, m)
       /\ \A j \in 1..Len(K) : IsEntry(K[j], id) <=> j \in ListedKeys(v, m)
  BY <1>4, <1>6, <1>8, <1>9 DEF OnLists
<1>12. /\ IsEntry(t, id)' <=> ListedTime(v, m)'
       /\ \A j \in 1..Len(K) : IsEntry(K[j], id)' <=> j \in ListedKeys(v, m)'
  BY <1>5, <1>7, <1>11
<1>13. QED
  BY <1>10, <1>12 DEF OnLists

\* The id a push puts on the list of a second or of a key is not there yet.
LEMMA FreshPut ==
  ASSUME TypeOK, ControlInv, NEW w \in Writers, HeldListed(w), pc[w] = "fill",
         NEW m \in 1..Len(pkts[w]), Puts(w, m), ~IsChar(Target(w))
  PROVE  ~IsEntry(Target(w), start_id[w] + m - 1)
<1>1. HasIds(w) /\ n[w] \in Nat /\ f[w] \in Nat /\ Len(pkts[w]) \in Nat /\ k[w] \in Nat
  BY DEF HasIds, TypeOK, BurstType, ControlType
<1>2. OnLists(w, m)
  BY <1>1, HeldOnLists
<1>3. CASE phase[w] = "time"
  <2>1. m = f[w] + 1 /\ Target(w) = TimeKey(now[w])
    BY <1>3 DEF Puts
  <2>2. ~ListedTime(w, m)
    BY <1>1, <1>3, <2>1 DEF ListedTime
  <2>3. QED
    BY <1>2, <2>1, <2>2 DEF OnLists
<1>4. CASE phase[w] = "key"
  <2>1. /\ m = n[w] + 1 /\ k[w] \in 1..Len(IndexKeys(pkts[w][m]))
        /\ Target(w) = IndexKeys(pkts[w][m])[k[w]]
    BY <1>4 DEF Puts
  <2>2. ~(m <= n[w]) /\ ~(k[w] < k[w])
    BY <1>1, <2>1
  <2>3. k[w] \notin ListedKeys(w, m)
    BY <2>2 DEF ListedKeys
  <2>4. QED
    BY <1>2, <2>1, <2>3 DEF OnLists
<1>5. CASE phase[w] = "char"
  BY <1>5, TagFacts DEF Puts, IsChar
<1>6. QED
  BY <1>3, <1>4, <1>5 DEF Puts

\* Every step of a writer keeps ids from being listed twice.
LEMMA UniqueStep ==
  ASSUME TypeOK, ControlInv, IdInv, LoopInv, FillInv, UniqueInv,
         NEW w \in Writers, Writer(w), HeldListed(w)
  PROVE  UniqueInv'
<1>1. ListType /\ Unset \notin Nat
  BY UnsetAssumption DEF TypeOK
<1>2. SUFFICES ASSUME NEW key \in DOMAIN lists', ~IsChar(key),
                      NEW d \in DOMAIN lists'[key], NEW e \in DOMAIN lists'[key],
                      lists'[key][d] = lists'[key][e], lists'[key][d] # Unset
               PROVE  d = e
  BY DEF UniqueInv, IsChar
<1>3. ASSUME key \in DOMAIN lists, d \in DOMAIN lists[key], e \in DOMAIN lists[key],
             lists'[key][d] = lists[key][d], lists'[key][e] = lists[key][e]
      PROVE  d = e
  BY <1>2, <1>3 DEF UniqueInv
<1>4. CASE lists' = lists
  BY <1>3, <1>4
<1>5. CASE GetList(w)
  <2>1. PICK x : x = Target(w)
    OBVIOUS
  <2>2. /\ DOMAIN lists' = DOMAIN lists \cup {x}
        /\ \A y \in DOMAIN lists : lists'[y] = lists[y]
        /\ x \notin DOMAIN lists => lists'[x] = <<>>
    BY <1>5, <2>1, GetDef DEF GetList
  <2>3. DOMAIN <<>> = {}
    OBVIOUS
  <2>4. key \in DOMAIN lists
    BY <1>2, <2>2, <2>3
  <2>5. QED
    BY <1>3, <2>2, <2>4
<1>6. CASE Reserve(w)
  <2>1. Count(w) \in Nat /\ Target(w) \in DOMAIN lists /\ reserve(Target(w), Count(w))
    BY <1>6 DEF Reserve, Count, TypeOK, BurstType, FillInv, FillOf
  <2>2. PICK x : x = Target(w)
    OBVIOUS
  <2>3. /\ DOMAIN lists' = DOMAIN lists /\ x \in DOMAIN lists
        /\ \A y \in DOMAIN lists : y # x => lists'[y] = lists[y]
        /\ lists'[x] \in Seq(Nat \cup {Unset})
        /\ Len(lists[x]) \in Nat
        /\ Len(lists'[x]) = Len(lists[x]) + Count(w)
        /\ \A i \in 1..Len(lists[x]) : lists'[x][i] = lists[x][i]
        /\ \A i \in (Len(lists[x]) + 1)..(Len(lists[x]) + Count(w)) : lists'[x][i] = Unset
    BY <1>1, <2>1, <2>2, ReserveDef
  <2>4. CASE key # x
    BY <1>3, <2>3, <2>4
  <2>5. CASE key = x
    <3>1. lists[x] \in Seq(Nat \cup {Unset})
      BY <1>1, <2>3 DEF ListType
    <3>2. DOMAIN lists[x] = 1..Len(lists[x]) /\ DOMAIN lists'[x] = 1..Len(lists'[x])
      BY <2>3, <3>1
    <3>3. ASSUME NEW i \in DOMAIN lists'[x], lists'[x][i] # Unset
          PROVE  i \in DOMAIN lists[x] /\ lists'[x][i] = lists[x][i]
      <4>1. \/ i \in 1..Len(lists[x])
            \/ i \in (Len(lists[x]) + 1)..(Len(lists[x]) + Count(w))
        BY <2>1, <2>3, <3>2
      <4>2. QED
        BY <2>3, <3>2, <3>3, <4>1
    <3>4. QED
      BY <1>2, <1>3, <2>3, <2>5, <3>3
  <2>6. QED
    BY <2>4, <2>5
<1>7. CASE Fill(w)
  <2>1. PICK x : x = Target(w)
    OBVIOUS
  <2>2. PICK p : p = slot[w] + f[w]
    OBVIOUS
  <2>3. /\ x \in DOMAIN lists /\ p \in Nat /\ p < Len(lists[x])
        /\ set_entry(x, p, FirstVal(w) + f[w]) /\ pc[w] = "fill"
    BY <1>7, <2>1, <2>2, FillPlace DEF Fill
  <2>4. /\ DOMAIN lists' = DOMAIN lists
        /\ \A y \in DOMAIN lists : y # x => lists'[y] = lists[y]
        /\ DOMAIN lists'[x] = DOMAIN lists[x]
        /\ lists'[x][p + 1] = FirstVal(w) + f[w]
        /\ \A i \in DOMAIN lists[x] : i # p + 1 => lists'[x][i] = lists[x][i]
    BY <1>1, <2>3, SetEntryDef
  <2>5. CASE key # x
    BY <1>3, <2>4, <2>5
  <2>6. CASE key = x
    <3>1. PICK m \in 1..Len(pkts[w]) :
            FirstVal(w) + f[w] = (start_id[w] + m) - 1 /\ Puts(w, m)
      BY <2>3, FillPuts
    <3>2. start_id[w] + m - 1 = FirstVal(w) + f[w]
      BY <3>1 DEF TypeOK, BurstType
    <3>3. ~IsEntry(x, FirstVal(w) + f[w])
      BY <1>2, <2>1, <2>3, <2>6, <3>1, <3>2, FreshPut
    <3>4. \A i \in DOMAIN lists[x] : lists[x][i] # FirstVal(w) + f[w]
      BY <2>3, <3>3 DEF IsEntry
    <3>5. CASE d # p + 1 /\ e # p + 1
      BY <1>3, <2>3, <2>4, <2>6, <3>5
    <3>6. CASE d = p + 1 /\ e # p + 1
      BY <1>2, <2>4, <2>6, <3>4, <3>6
    <3>7. CASE d # p + 1 /\ e = p + 1
      BY <1>2, <2>4, <2>6, <3>4, <3>7
    <3>8. QED
      BY <3>5, <3>6, <3>7
  <2>7. QED
    BY <2>5, <2>6
<1>8. QED
  BY <1>4, <1>5, <1>6, <1>7
  DEF Writer, Poll, ClaimIds, AllocIds, ClaimBytes, AllocBytes, LoadFilters,
      SetOffLen, AppendPkt, Apply, End, shared

\* The step that publishes a burst finds it on all its lists.
LEMMA EndListed ==
  ASSUME TypeOK, ControlInv, IdInv, LoopInv, NEW w \in Writers, End(w), HeldListed(w),
         NEW m \in 1..Len(pkts[w]), NEW key \in ListsOf(now[w], pkts[w][m])
  PROVE  IsEntry(key, start_id[w] + m - 1)
<1>1. pc[w] = "end" /\ HasIds(w)
  BY DEF End, Goto, HasIds
<1>2. n[w] = Len(pkts[w]) /\ Len(pkts[w]) > 0 /\ phase[w] # "time"
  BY <1>1 DEF ControlInv, ControlOf, LoopInv, LoopOf, TypeOK, BurstType
<1>3. ListedTime(w, m) /\ ListedKeys(w, m) = 1..Len(IndexKeys(pkts[w][m]))
  BY <1>2 DEF ListedTime, ListedKeys
<1>4. OnLists(w, m)
  BY <1>1, HeldOnLists
<1>5. QED
  BY <1>3, <1>4 DEF OnLists, ListsOf, KeysOf

\* What publishes ids: end(), and only the burst that is next.
LEMMA ReadIdStep ==
  ASSUME NEW w \in Writers, Writer(w), ~End(w)
  PROVE  current_read_id' = current_read_id
BY DEF Writer, Poll, ClaimIds, AllocIds, ClaimBytes, AllocBytes, LoadFilters, GetList,
       Reserve, Fill, SetOffLen, AppendPkt, Apply, shared

\* An id that end() publishes is one of the burst, or was published before.
LEMMA NewlyPublished ==
  ASSUME TypeOK, NEW w \in Writers, End(w), NEW id \in 0..(current_read_id' - 1)
  PROVE  \/ id \in 0..(current_read_id - 1)
         \/ \E m \in 1..Len(pkts[w]) : id = start_id[w] + m - 1
<1>1. /\ current_read_id = start_id[w] /\ current_read_id' = start_id[w] + Len(pkts[w])
      /\ start_id[w] \in Nat /\ Len(pkts[w]) \in Nat
  BY DEF End, end, TypeOK, BurstType
<1>2. CASE id < start_id[w]
  BY <1>1, <1>2
<1>3. CASE ~(id < start_id[w])
  <2>1. (id - start_id[w]) + 1 \in 1..Len(pkts[w])
        /\ id = start_id[w] + ((id - start_id[w]) + 1) - 1
    BY <1>1, <1>3
  <2>2. QED
    BY <2>1
<1>4. QED
  BY <1>2, <1>3

\* Every step of a writer keeps the published ids on their lists.
LEMMA PublishedStep ==
  ASSUME TypeOK, ControlInv, IdInv, LoopInv, FillInv, PublishedOn, [Next]_vars,
         NEW w \in Writers, Writer(w), HeldListed(w)
  PROVE  PublishedOn'
<1>1. SUFFICES ASSUME NEW id \in 0..(current_read_id' - 1),
                      NEW key \in ListsOf(accepted'[id].ts, accepted'[id].pkt)
               PROVE  IsEntry(key, id)'
  BY DEF PublishedOn, ListsOf, KeysOf
<1>2. CASE id \in 0..(current_read_id - 1)
  <2>1. id \in DOMAIN accepted
    BY <1>2 DEF TypeOK, IdType
  <2>2. accepted'[id] = accepted[id]
    BY <2>1, AcceptedKept
  <2>3. IsEntry(key, id)
    BY <1>1, <1>2, <2>2 DEF PublishedOn
  <2>4. QED
    BY <1>2, <2>3, PublishedEntries
<1>3. CASE End(w) /\ \E m \in 1..Len(pkts[w]) : id = start_id[w] + m - 1
  <2>1. PICK m \in 1..Len(pkts[w]) : id = start_id[w] + m - 1
    BY <1>3
  <2>2. HasIds(w) /\ accepted' = accepted /\ lists' = lists
    BY <1>3 DEF End, Goto, HasIds
  <2>3. accepted[id] = [ts |-> now[w], chars |-> known[w], pkt |-> pkts[w][m]]
    BY <2>1, <2>2, HeldIds
  <2>4. key \in ListsOf(now[w], pkts[w][m])
    BY <1>1, <2>2, <2>3
  <2>5. IsEntry(key, id)
    BY <1>3, <2>1, <2>4, EndListed
  <2>6. QED
    BY <2>2, <2>5 DEF IsEntry
<1>4. QED
  BY <1>1, <1>2, <1>3, NewlyPublished, ReadIdStep

\* Every step keeps the ids of bursts and the published ids where they belong.
LEMMA ListedStep ==
  ASSUME TypeOK, TypeOK', ControlInv, IdInv, LoopInv, FillInv, IndexSound, ListedInv,
         [Next]_vars
  PROVE  ListedInv'
<1>1. UniqueInv /\ PublishedOn /\ \A v \in Writers : HeldListed(v)
  BY DEF ListedInv
<1>2. ASSUME NEW w \in Writers, Writer(w)
      PROVE  ListedInv'
  <2>1. UniqueInv' /\ PublishedOn'
    BY <1>1, <1>2, UniqueStep, PublishedStep
  <2>2. \A v \in Writers : HeldListed(v)'
    BY <1>1, <1>2, OwnListed, OtherListed
  <2>3. QED
    BY <2>1, <2>2 DEF ListedInv
<1>3. CASE UNCHANGED <<lists, locals, accepted, current_read_id>>
  <2>1. UniqueInv' /\ PublishedOn'
    BY <1>1, <1>3 DEF UniqueInv, PublishedOn, IsEntry
  <2>2. ASSUME NEW v \in Writers
        PROVE  HeldListed(v)'
    <3>1. HeldListed(v)
      BY <1>1
    <3>2. \A m : ListedIn(v, m)' = ListedIn(v, m)
      BY <1>3 DEF locals, ListedIn, ListedTime, ListedKeys
    <3>3. QED
      BY <1>3, <3>1, <3>2 DEF locals, HeldListed, HasIds, IsEntry
  <2>3. QED
    BY <2>1, <2>2 DEF ListedInv
<1>4. QED
  BY <1>2, <1>3 DEF Next, ClaimChar, AssignChar, Tick, vars, shared

-----------------------------------------------------------------------------
(* Complex characters                                                      *)

\* A character that is settled stays so, with the filter list it has.
LEMMA SettledKept ==
  ASSUME TypeOK, [Next]_vars, NEW c, Settled(c)
  PROVE  Settled(c)' /\ filters'[c] = filters[c]
<1>1. /\ num_filters \in Nat /\ c \in 0..(num_filters - 1)
      /\ \A a \in Adders : adder[a].char # c
      /\ adder \in [Adders -> [char : Nat \cup {NoChar}, filter : SUBSET Packets]]
      /\ filters \in [0..(MaxChars - 1) -> SUBSET Packets]
  BY BoundAssumption DEF Settled, TypeOK, CharType
<1>2. ASSUME NEW a \in Adders, ClaimChar(a)
      PROVE  Settled(c)' /\ filters'[c] = filters[c]
  <2>1. PICK fl \in FilterLists :
          adder' = [adder EXCEPT ![a] = [char |-> num_filters, filter |-> fl]]
    BY <1>2 DEF ClaimChar
  <2>2. num_filters' = num_filters + 1 /\ filters' = filters
    BY <1>2 DEF ClaimChar
  <2>3. ASSUME NEW b \in Adders
        PROVE  adder'[b].char # c
    <3>1. CASE b = a
      <4>1. adder'[b].char = num_filters
        BY <1>1, <2>1, <3>1
      <4>2. QED
        BY <1>1, <4>1
    <3>2. CASE b # a
      BY <1>1, <2>1, <3>2
    <3>3. QED
      BY <3>1, <3>2
  <2>4. c \in 0..(num_filters' - 1)
    BY <1>1, <2>2
  <2>5. QED
    BY <2>2, <2>3, <2>4 DEF Settled
<1>3. ASSUME NEW a \in Adders, AssignChar(a)
      PROVE  Settled(c)' /\ filters'[c] = filters[c]
  <2>1. /\ adder' = [adder EXCEPT ![a] = Idle] /\ num_filters' = num_filters
        /\ filters' = [filters EXCEPT ![adder[a].char] = adder[a].filter]
    BY <1>3 DEF AssignChar
  <2>2. filters'[c] = filters[c]
    BY <1>1, <2>1
  <2>3. Idle.char # c
    BY <1>1 DEF Idle, NoChar
  <2>4. ASSUME NEW b \in Adders
        PROVE  adder'[b].char # c
    <3>1. adder'[b] = IF b = a THEN Idle ELSE adder[b]
      BY <1>1, <2>1
    <3>2. QED
      BY <1>1, <2>3, <3>1
  <2>5. QED
    BY <1>1, <2>1, <2>2, <2>4 DEF Settled
<1>4. CASE UNCHANGED <<num_filters, filters, adder>>
  BY <1>4 DEF Settled
<1>5. QED
  BY <1>2, <1>3, <1>4
  DEF Next, Writer, Poll, ClaimIds, AllocIds, ClaimBytes, AllocBytes, LoadFilters, GetList,
      Reserve, Fill, SetOffLen, AppendPkt, Apply, End, Tick, vars, shared

\* Every step keeps the characters that bursts and packets know settled.
LEMMA KnownStep ==
  ASSUME TypeOK, KnownInv, [Next]_vars
  PROVE  KnownInv'
<1>1. /\ \A v \in Writers : \A c \in known[v] : Settled(c) /\ Settled(c)'
      /\ \A id \in DOMAIN accepted : \A c \in accepted[id].chars : Settled(c)'
  BY SettledKept DEF KnownInv
<1>2. ASSUME NEW w \in Writers, Writer(w), NEW v \in Writers, v # w
      PROVE  /\ known'[v] = known[v] /\ pc'[v] = pc[v] /\ num_chars'[v] = num_chars[v]
             /\ HasBytes(v)' = HasBytes(v)
  BY <1>2, OtherPush DEF SameLocals, SamePush
<1>3. /\ known \in [Writers -> SUBSET Nat] /\ pc \in [Writers -> Pcs] /\ ControlType
      /\ num_chars \in [Writers -> 0..MaxChars]
  BY DEF TypeOK, BurstType, ControlType
<1>4. ASSUME NEW w \in Writers, Writer(w), NEW c \in known'[w]
      PROVE  Settled(c)'
  <2>1. CASE Poll(w)
    <3>1. /\ known'[w] = {d \in 0..(num_filters - 1) : \A a \in Adders : adder[a].char # d}
          /\ num_filters' = num_filters /\ adder' = adder
      BY <1>3, <2>1 DEF Poll, shared
    <3>2. QED
      BY <1>4, <3>1 DEF Settled
  <2>2. CASE End(w)
    <3>1. known'[w] = {}
      BY <1>3, <2>2 DEF End
    <3>2. QED
      BY <1>4, <3>1
  <2>3. CASE known' = known
    BY <1>1, <1>4, <2>3
  <2>4. QED
    BY <1>4, <2>1, <2>2, <2>3
    DEF Writer, ClaimIds, AllocIds, ClaimBytes, AllocBytes, LoadFilters, GetList,
        Reserve, Fill, SetOffLen, AppendPkt, Apply
<1>5. ASSUME NEW w \in Writers, Writer(w),
             HasBytes(w)', pc'[w] \notin {"alloc_bytes", "load_filters"}, NEW c \in known'[w]
      PROVE  c < num_chars'[w]
  <2>1. CASE LoadFilters(w)
    <3>1. num_chars'[w] = num_filters /\ known' = known
      BY <1>3, <2>1 DEF LoadFilters
    <3>2. Settled(c) /\ num_filters \in Nat
      BY <1>1, <1>5, <3>1, BoundAssumption DEF TypeOK, CharType
    <3>3. QED
      BY <3>1, <3>2 DEF Settled
  <2>2. CASE GetList(w) \/ Reserve(w) \/ Fill(w) \/ SetOffLen(w) \/ AppendPkt(w) \/ Apply(w)
    <3>1. /\ num_chars' = num_chars /\ known' = known
          /\ pc[w] \in {"get", "reserve", "fill", "set_offlen", "append", "apply"}
      BY <2>2 DEF GetList, Reserve, Fill, SetOffLen, AppendPkt, Apply, Goto
    <3>2. QED
      BY <1>5, <3>1 DEF KnownInv, HasBytes
  <2>3. CASE Poll(w) \/ ClaimIds(w) \/ AllocIds(w) \/ ClaimBytes(w) \/ AllocBytes(w) \/ End(w)
    <3>1. pc'[w] \in {"claim_ids", "alloc_ids", "claim_bytes", "alloc_bytes", "load_filters", "poll"}
      BY <1>3, <2>3 DEF Poll, ClaimIds, AllocIds, ClaimBytes, AllocBytes, End, Goto
    <3>2. QED
      BY <1>5, <3>1 DEF HasBytes
  <2>4. QED
    BY <1>5, <2>1, <2>2, <2>3 DEF Writer
<1>6. ASSUME NEW w \in Writers, Writer(w), NEW id \in DOMAIN accepted',
             NEW c \in accepted'[id].chars
      PROVE  Settled(c)'
  <2>1. CASE ClaimIds(w)
    <3>1. PICK e : e = accepted'[id]
      OBVIOUS
    <3>2. /\ current_write_id \in Nat /\ DOMAIN accepted = 0..(current_write_id - 1)
          /\ current_write_id' = current_write_id + Len(pkts[w]) /\ Len(pkts[w]) \in Nat
      BY <2>1 DEF TypeOK, IdType, BurstType, ClaimIds, claim_ids
    <3>3. id \in 0..(current_write_id' - 1)
      BY <1>6, <2>1 DEF ClaimIds
    <3>4. CASE id < current_write_id
      <4>1. id \in DOMAIN accepted /\ accepted'[id] = accepted[id]
        BY <2>1, <3>2, <3>3, <3>4 DEF ClaimIds
      <4>2. QED
        BY <1>1, <1>6, <4>1
    <3>5. CASE ~(id < current_write_id)
      <4>1. accepted'[id].chars = known[w]
        BY <2>1, <3>3, <3>5 DEF ClaimIds
      <4>2. QED
        BY <1>1, <1>6, <4>1
    <3>6. QED
      BY <3>4, <3>5
  <2>2. CASE accepted' = accepted
    BY <1>1, <1>6, <2>2
  <2>3. QED
    BY <1>6, <2>1, <2>2
    DEF Writer, Poll, AllocIds, ClaimBytes, AllocBytes, LoadFilters, GetList,
        Reserve, Fill, SetOffLen, AppendPkt, Apply, End
<1>7. ASSUME NEW w \in Writers, Writer(w)
      PROVE  KnownInv'
  <2>1. \A v \in Writers : \A c \in known'[v] : Settled(c)'
    BY <1>1, <1>2, <1>4, <1>7
  <2>2. ASSUME NEW v \in Writers, HasBytes(v)', pc'[v] \notin {"alloc_bytes", "load_filters"},
               NEW c \in known'[v]
        PROVE  c < num_chars'[v]
    <3>1. CASE v = w
      BY <1>5, <1>7, <2>2, <3>1
    <3>2. CASE v # w
      BY <1>2, <1>7, <2>2, <3>2 DEF KnownInv
    <3>3. QED
      BY <3>1, <3>2
  <2>3. QED
    BY <1>6, <1>7, <2>1, <2>2 DEF KnownInv
<1>8. CASE UNCHANGED <<locals, accepted, known>>
  BY <1>1, <1>8 DEF KnownInv, locals, HasBytes
<1>9. QED
  BY <1>7, <1>8 DEF Next, ClaimChar, AssignChar, Tick, vars

\* A writer finds the filter list of a settled character at filters_.
LEMMA SettledSeen ==
  ASSUME NEW c, Settled(c)
  PROVE  Seen(c) = {filters[c]}
<1>1. {b \in Adders : adder[b].char = c} = {}
  BY DEF Settled
<1>2. QED
  BY <1>1 DEF Seen

\* The packet that is tried against a character.
LEMMA TriedPacket ==
  ASSUME NEW w \in Writers, phase[w] = "char"
  PROVE  CurPkt(w) = pkts[w][n[w]]
BY DEF CurPkt, Cur

\* A writer pushes for a settled character what the filter list matches.
LEMMA OwnMatched ==
  ASSUME TypeOK, ControlInv, KnownInv, NEW w \in Writers, Writer(w), Matched(w)
  PROVE  Matched(w)'
<1>1. /\ ControlType /\ pc \in [Writers -> Pcs]
      /\ phase \in [Writers -> {"time", "key", "char"}]
  BY DEF TypeOK, ControlType
<1>2. SUFFICES ASSUME Pushing(w)', phase'[w] = "char", k'[w] \in known'[w]
               PROVE  pkts'[w][n'[w]] \in filters'[k'[w]]
  BY DEF Matched
<1>3. CASE Apply(w)
  <2>1. PICK fl \in Seen(k[w]) :
          \/ CurPkt(w) \in fl /\ ToLabel(w, "get")
          \/ CurPkt(w) \notin fl /\ NextChar(w, k[w] + 1, n[w])
    BY <1>3 DEF Apply
  <2>2. /\ pc[w] = "apply" /\ phase[w] = "char"
        /\ UNCHANGED <<pkts, n, known, filters>>
    BY <1>3 DEF Apply, shared, ControlInv, ControlOf
  <2>3. CASE CurPkt(w) \in fl /\ ToLabel(w, "get")
    <3>1. k'[w] = k[w]
      BY <1>1, <2>3, MoveSelfK
    <3>2. Settled(k[w])
      BY <1>2, <2>2, <3>1 DEF KnownInv
    <3>3. fl = filters[k[w]]
      BY <2>1, <3>2, SettledSeen
    <3>4. CurPkt(w) = pkts[w][n[w]]
      BY <2>2, TriedPacket
    <3>5. QED
      BY <2>2, <2>3, <3>1, <3>3, <3>4
  <2>4. CASE NextChar(w, k[w] + 1, n[w])
    <3>1. pc'[w] = "apply" \/ phase'[w] = "key" \/ pc'[w] = "end"
      BY <1>1, <2>4, MoveSelf DEF NextChar, NextPkt
    <3>2. QED
      BY <1>2, <3>1 DEF Pushing
  <2>5. QED
    BY <2>1, <2>3, <2>4
<1>4. CASE GetList(w)
  BY <1>1, <1>2, <1>4 DEF GetList, Goto, Matched, Pushing
<1>5. CASE (Reserve(w) \/ Fill(w)) /\ ToLabel(w, "fill")
  <2>1. /\ pc[w] \in {"reserve", "fill"} /\ phase'[w] = phase[w] /\ k'[w] = k[w]
        /\ UNCHANGED <<pkts, n, known, filters>>
    BY <1>1, <1>5, MoveSelf, MoveSelfK DEF Reserve, Fill
  <2>2. QED
    BY <1>2, <2>1 DEF Matched, Pushing
<1>6. CASE AfterPush(w) \/ AppendPkt(w)
  <2>1. pc'[w] \in {"apply", "end", "set_offlen"} \/ phase'[w] = "key"
    BY <1>1, <1>6, MoveSelf DEF AppendPkt, AfterPush, NextChar, NextPkt
  <2>2. QED
    BY <1>2, <2>1 DEF Pushing
<1>7. CASE LoadFilters(w)
  BY <1>1, <1>2, <1>7 DEF LoadFilters
<1>8. CASE Poll(w) \/ ClaimIds(w) \/ AllocIds(w) \/ ClaimBytes(w) \/ AllocBytes(w)
           \/ SetOffLen(w) \/ End(w)
  BY <1>1, <1>2, <1>8
  DEF Poll, ClaimIds, AllocIds, ClaimBytes, AllocBytes, SetOffLen, End, Goto, Pushing
<1>9. QED
  BY <1>3, <1>4, <1>5, <1>6, <1>7, <1>8 DEF Writer, Reserve, Fill

\* Which characters are tried once the loops have moved on.
LEMMA NextTried ==
  ASSUME TypeOK, NEW w \in Writers, NEW c0 \in Nat, NEW d \in Nat, NextChar(w, c0, d),
         n'[w] = d, pkts' = pkts, NEW m \in 1..Len(pkts[w]), NEW c \in Nat, c < num_chars[w]
  PROVE  Tried(w, m, c)' <=> m < d \/ (m = d /\ c < c0)
<1>1. ControlType /\ Len(pkts[w]) \in Nat
  BY DEF TypeOK, BurstType
<1>2. CASE ToChar(w, c0)
  <2>1. pc'[w] = "apply" /\ phase'[w] = "char" /\ k'[w] = c0
    BY <1>1, <1>2, MoveSelf, MoveSelfK
  <2>2. QED
    BY <2>1 DEF Tried
<1>3. CASE c0 = num_chars[w] /\ NextPkt(w, d)
  <2>1. phase'[w] = "key" \/ pc'[w] = "end"
    BY <1>1, <1>3, MoveSelf DEF NextPkt
  <2>2. QED
    BY <1>3, <2>1 DEF Tried
<1>4. QED
  BY <1>2, <1>3 DEF NextChar

\* Until the loop over the characters goes on, the same ones are tried.
LEMMA TriedSame ==
  ASSUME TypeOK, ControlInv, LoopInv, FillInv, NEW w \in Writers, HasIds(w),
         AllocIds(w) \/ ClaimBytes(w) \/ (Middle(w) /\ ~Apply(w)),
         ~(Fill(w) /\ phase[w] = "char"),
         NEW m \in 1..Len(pkts[w]), NEW c \in Nat,
         AppendPkt(w) => c < num_chars[w]
  PROVE  Tried(w, m, c)' <=> Tried(w, m, c)
<1>1. /\ ControlType /\ pc \in [Writers -> Pcs] /\ n \in [Writers -> Nat]
      /\ phase \in [Writers -> {"time", "key", "char"}]
      /\ Len(pkts[w]) \in Nat /\ n[w] \in Nat /\ k[w] \in Nat
  BY DEF TypeOK, ControlType, BurstType
<1>2. LoopOf(w) /\ ControlOf(w)
  BY DEF LoopInv, ControlInv
<1>3. CASE AllocIds(w) \/ ClaimBytes(w) \/ AllocBytes(w) \/ LoadFilters(w)
  <2>1. n[w] = 0 /\ n'[w] = 0
    BY <1>1, <1>2, <1>3 DEF AllocIds, ClaimBytes, AllocBytes, LoadFilters, Goto, LoopOf
  <2>2. QED
    BY <2>1 DEF Tried
<1>4. CASE GetList(w) \/ SetOffLen(w)
  BY <1>1, <1>4 DEF GetList, SetOffLen, Goto, Tried
<1>5. CASE (Reserve(w) \/ Fill(w)) /\ ToLabel(w, "fill")
  <2>1. /\ pc[w] \in {"reserve", "fill"} /\ pc'[w] = "fill" /\ phase'[w] = phase[w]
        /\ k'[w] = k[w] /\ n' = n
    BY <1>1, <1>5, MoveSelf, MoveSelfK DEF Reserve, Fill
  <2>2. QED
    BY <2>1 DEF Tried
<1>6. CASE (Reserve(w) \/ Fill(w)) /\ AfterPush(w)
  <2>1. n' = n /\ pc[w] \in {"reserve", "fill"}
    BY <1>6 DEF Reserve, Fill
  <2>2. CASE phase[w] = "time"
    <3>1. n[w] = 0
      BY <1>2, <2>1, <2>2 DEF ControlOf
    <3>2. QED
      BY <2>1, <3>1 DEF Tried
  <2>3. CASE phase[w] = "key"
    <3>1. phase'[w] = "key"
      BY <1>1, <1>6, <2>3, MoveSelf DEF AfterPush
    <3>2. QED
      BY <2>1, <2>3, <3>1 DEF Tried
  <2>4. CASE phase[w] = "char"
    <3>1. Reserve(w)
      BY <1>6, <2>4
    <3>2. Count(w) = 1
      BY <2>4 DEF Count
    <3>3. ToLabel(w, "fill")
      BY <3>1, <3>2 DEF Reserve
    <3>4. QED
      BY <1>5, <3>1, <3>3
  <2>5. QED
    BY <1>1, <2>2, <2>3, <2>4
<1>7. CASE AppendPkt(w)
  <2>1. /\ phase[w] = "key" /\ NextChar(w, 0, n[w] + 1) /\ n'[w] = n[w] + 1 /\ pkts' = pkts
    BY <1>1, <1>2, <1>7 DEF AppendPkt, ControlOf
  <2>2. PICK d : d = n[w] + 1
    OBVIOUS
  <2>3. Tried(w, m, c)' <=> m < d \/ (m = d /\ c < 0)
    <3>1. PICK c0 : c0 = 0
      OBVIOUS
    <3>2. d \in Nat /\ c0 \in Nat /\ c < num_chars[w]
      BY <1>1, <1>7, <2>1, <2>2, <3>1
    <3>3. NextChar(w, c0, d) /\ n'[w] = d /\ pkts' = pkts
      BY <2>1, <2>2, <3>1
    <3>4. Tried(w, m, c)' <=> m < d \/ (m = d /\ c < c0)
      BY <3>2, <3>3, NextTried, SMTT(60)
    <3>5. QED
      BY <3>1, <3>4
  <2>4. m < d <=> m < n[w] \/ m = n[w]
    BY <1>1, <2>2
  <2>5. ~(c < 0)
    OBVIOUS
  <2>6. QED
    BY <2>1, <2>3, <2>4, <2>5 DEF Tried
<1>8. QED
  BY <1>3, <1>4, <1>5, <1>6, <1>7 DEF Middle, Reserve, Fill

\* The loop over the characters goes on: one more is tried.
LEMMA TriedNext ==
  ASSUME TypeOK, NEW w \in Writers, phase[w] = "char", pc[w] # "end",
         NextChar(w, k[w] + 1, n[w]), n' = n, pkts' = pkts,
         NEW m \in 1..Len(pkts[w]), NEW c \in Nat, c < num_chars[w]
  PROVE  Tried(w, m, c)' <=> Tried(w, m, c) \/ (m = n[w] /\ c = k[w])
<1>1. n[w] \in Nat /\ k[w] \in Nat
  BY DEF TypeOK, ControlType, BurstType
<1>2. PICK c0 : c0 = k[w] + 1
  OBVIOUS
<1>3. c0 \in Nat /\ NextChar(w, c0, n[w]) /\ n'[w] = n[w]
  BY <1>1, <1>2
<1>4. Tried(w, m, c)' <=> m < n[w] \/ (m = n[w] /\ c < c0)
  BY <1>1, <1>3, NextTried
<1>5. c < c0 <=> c < k[w] \/ c = k[w]
  BY <1>1, <1>2
<1>6. QED
  BY <1>4, <1>5 DEF Tried

\* A step of a writer keeps its own burst on the right lists of characters.
LEMMA OwnChars ==
  ASSUME TypeOK, ControlInv, IdInv, LoopInv, FillInv, IndexSound, KnownInv, [Next]_vars,
         NEW w \in Writers, Writer(w), Matched(w), HeldChars(w)
  PROVE  HeldChars(w)'
<1>1. /\ ControlType /\ pc \in [Writers -> Pcs] /\ start_id \in [Writers -> Nat]
      /\ start_id[w] \in Nat /\ Len(pkts[w]) \in Nat /\ n[w] \in Nat /\ known[w] \subseteq Nat
  BY DEF TypeOK, ControlType, BurstType
<1>2. SUFFICES ASSUME HasIds(w)', NEW m \in 1..Len(pkts'[w]), NEW c \in known'[w]
               PROVE  IsEntry(CharKey(c, now[w]), start_id[w] + m - 1)' <=>
                        (Tried(w, m, c) /\ pkts[w][m] \in filters[c])'
  BY DEF HeldChars
<1>3. CASE Poll(w) \/ End(w)
  BY <1>1, <1>2, <1>3 DEF Poll, End, Goto, HasIds
<1>4. CASE ClaimIds(w)
  <2>1. /\ start_id'[w] = current_write_id /\ pkts' = pkts /\ now' = now /\ lists' = lists
        /\ n' = n /\ pc[w] = "claim_ids"
    BY <1>1, <1>4 DEF ClaimIds, Goto
  <2>2. n[w] = 0
    BY <2>1 DEF LoopInv, LoopOf
  <2>3. PICK id : id = current_write_id + m - 1
    OBVIOUS
  <2>4. id \in Nat /\ id \notin DOMAIN accepted
    BY <1>1, <2>1, <2>3 DEF TypeOK, IdType
  <2>5. SoundOn
    BY SoundEntries
  <2>6. \A key : ~IsEntry(key, id)
    BY <2>4, <2>5 DEF SoundOn, Belongs
  <2>7. \A key : ~IsEntry(key, id)'
    BY <2>1, <2>6 DEF IsEntry
  <2>8. ~(m < 0) /\ m # 0
    BY <1>1, <2>1
  <2>9. ~Tried(w, m, c)'
    BY <2>1, <2>2, <2>8 DEF Tried
  <2>10. start_id'[w] + m - 1 = id
    BY <2>1, <2>3
  <2>11. QED
    BY <2>7, <2>9, <2>10
<1>5. ASSUME AllocIds(w) \/ ClaimBytes(w) \/ Middle(w)
      PROVE  IsEntry(CharKey(c, now[w]), start_id[w] + m - 1)' <=>
               (Tried(w, m, c) /\ pkts[w][m] \in filters[c])'
  <2>1. /\ HasIds(w) /\ pkts' = pkts /\ now' = now /\ start_id' = start_id /\ known' = known
    BY <1>5, MiddleStep DEF AllocIds, ClaimBytes, Goto, HasIds
  <2>2. m \in 1..Len(pkts[w]) /\ c \in known[w] /\ c \in Nat /\ Settled(c)
    BY <1>1, <1>2, <2>1 DEF KnownInv
  <2>3. filters'[c] = filters[c]
    BY <2>2, SettledKept
  <2>4. PICK id : id = start_id[w] + m - 1
    OBVIOUS
  <2>5. id \in Nat
    BY <2>1, <2>2, <2>4, HeldIds
  <2>6. PICK y : y = CharKey(c, now[w])
    OBVIOUS
  <2>7. IsEntry(y, id) <=> Tried(w, m, c) /\ pkts[w][m] \in filters[c]
    BY <2>1, <2>2, <2>4, <2>6 DEF HeldChars
  <2>8. SUFFICES IsEntry(y, id)' <=> Tried(w, m, c)' /\ pkts[w][m] \in filters[c]
    BY <2>1, <2>3, <2>4, <2>6
  <2>9. pc[w] \in {"get", "reserve", "fill", "set_offlen", "append", "apply"} => c < num_chars[w]
    BY <2>2 DEF KnownInv, HasBytes
  <2>10. CASE Apply(w)
    <3>1. PICK fl \in Seen(k[w]) :
            \/ CurPkt(w) \in fl /\ ToLabel(w, "get")
            \/ CurPkt(w) \notin fl /\ NextChar(w, k[w] + 1, n[w])
      BY <2>10 DEF Apply
    <3>2. /\ pc[w] = "apply" /\ phase[w] = "char" /\ n' = n /\ ~Fill(w)
      BY <2>10 DEF Apply, Fill, ControlInv, ControlOf
    <3>3. IsEntry(y, id)' <=> IsEntry(y, id)
      BY <2>5, <3>2, EntriesSame
    <3>4. CASE ToLabel(w, "get")
      <4>1. pc'[w] = "get" /\ phase'[w] = phase[w] /\ k'[w] = k[w]
        BY <1>1, <3>4, MoveSelf, MoveSelfK
      <4>2. Tried(w, m, c)' <=> Tried(w, m, c)
        BY <3>2, <4>1 DEF Tried
      <4>3. QED
        BY <2>7, <3>3, <4>2
    <3>5. CASE CurPkt(w) \notin fl /\ NextChar(w, k[w] + 1, n[w])
      <4>1. Tried(w, m, c)' <=> Tried(w, m, c) \/ (m = n[w] /\ c = k[w])
        BY <2>1, <2>2, <2>9, <3>2, <3>5, TriedNext
      <4>2. m = n[w] /\ c = k[w] => pkts[w][m] \notin filters[c]
        BY <2>2, <3>1, <3>2, <3>5, SettledSeen, TriedPacket
      <4>3. QED
        BY <2>7, <3>3, <4>1, <4>2
    <3>6. QED
      BY <3>1, <3>4, <3>5
  <2>11. CASE Fill(w) /\ phase[w] = "char"
    <3>1. PICK i \in 1..Len(pkts[w]) :
            /\ Puts(w, i)
            /\ \A z : \A x \in Nat :
                 IsEntry(z, x)' <=> IsEntry(z, x) \/ (z = Target(w) /\ x = start_id[w] + i - 1)
      BY <2>11, EntryStep
    <3>2. i = n[w] /\ Target(w) = CharKey(k[w], now[w])
      BY <2>11, <3>1 DEF Puts
    <3>3. id = start_id[w] + i - 1 <=> m = n[w]
      BY <1>1, <2>2, <2>4, <3>2
    <3>4. y = Target(w) <=> c = k[w]
      BY <2>6, <3>2, TagFacts
    <3>5. IsEntry(y, id)' <=> IsEntry(y, id) \/ (c = k[w] /\ m = n[w])
      BY <2>5, <3>1, <3>3, <3>4
    <3>6. pc[w] = "fill" /\ n' = n /\ f[w] < Count(w) /\ Count(w) = 1 /\ f[w] \in Nat
      BY <2>11, FillPlace DEF Fill, Count
    <3>7. AfterPush(w)
      BY <2>11, <3>6 DEF Fill
    <3>8. NextChar(w, k[w] + 1, n[w])
      BY <2>11, <3>7 DEF AfterPush
    <3>9. Tried(w, m, c)' <=> Tried(w, m, c) \/ (m = n[w] /\ c = k[w])
      BY <2>1, <2>2, <2>9, <2>11, <3>6, <3>8, TriedNext
    <3>10. m = n[w] /\ c = k[w] => pkts[w][m] \in filters[c]
      BY <2>2, <2>11, <3>6 DEF Matched, Pushing
    <3>11. QED
      BY <2>7, <3>5, <3>9, <3>10
  <2>12. CASE ~Apply(w) /\ ~(Fill(w) /\ phase[w] = "char")
    <3>1. Tried(w, m, c)' <=> Tried(w, m, c)
      <4>1. AppendPkt(w) => c < num_chars[w]
        BY <2>9 DEF AppendPkt
      <4>2. QED
        BY <1>5, <2>1, <2>2, <2>12, <4>1, TriedSame
    <3>2. IsEntry(y, id)' <=> IsEntry(y, id)
      <4>1. CASE ~Fill(w)
        BY <2>5, <4>1, EntriesSame
      <4>2. CASE Fill(w)
        <5>1. PICK i \in 1..Len(pkts[w]) :
                /\ Puts(w, i)
                /\ \A z : \A x \in Nat :
                     IsEntry(z, x)' <=> IsEntry(z, x) \/ (z = Target(w) /\ x = start_id[w] + i - 1)
          BY <4>2, EntryStep
        <5>2. y[1] = "char" /\ TimeKey(now[w])[1] = "timestamp"
          BY <2>6, TagFacts
        <5>3. k[w] \in 1..Len(IndexKeys(pkts[w][i])) => IndexKeys(pkts[w][i])[k[w]][1] # "char"
          BY KeyFacts
        <5>4. y # Target(w)
          BY <2>12, <4>2, <5>1, <5>2, <5>3 DEF Puts
        <5>5. QED
          BY <2>5, <5>1, <5>4
      <4>3. QED
        BY <4>1, <4>2
    <3>3. QED
      BY <2>7, <3>1, <3>2
  <2>13. QED
    BY <2>10, <2>11, <2>12
<1>6. QED
  BY <1>3, <1>4, <1>5 DEF Writer, Middle

\* A step of one writer leaves the characters of another's burst as they are.
LEMMA OtherChars ==
  ASSUME TypeOK, ControlInv, IdInv, LoopInv, FillInv, KnownInv, [Next]_vars,
         NEW w \in Writers, Writer(w), NEW v \in Writers, v # w, Matched(v), HeldChars(v)
  PROVE  Matched(v)' /\ HeldChars(v)'
<1>1. /\ SameLocals(v) /\ SamePush(v) /\ HasIds(v)' = HasIds(v)
  BY OtherPush
<1>2. \A c \in known[v] : filters'[c] = filters[c]
  BY SettledKept DEF KnownInv
<1>3. Matched(v)'
  BY <1>1, <1>2 DEF SameLocals, SamePush, Matched, Pushing
<1>4. SUFFICES ASSUME HasIds(v)', NEW m \in 1..Len(pkts'[v]), NEW c \in known'[v]
               PROVE  IsEntry(CharKey(c, now[v]), start_id[v] + m - 1)' <=>
                        (Tried(v, m, c) /\ pkts[v][m] \in filters[c])'
  BY <1>3 DEF HeldChars
<1>5. /\ HasIds(v) /\ pkts'[v] = pkts[v] /\ now'[v] = now[v] /\ start_id'[v] = start_id[v]
      /\ m \in 1..Len(pkts[v]) /\ c \in known[v]
  BY <1>1, <1>4 DEF SameLocals
<1>6. Tried(v, m, c)' <=> Tried(v, m, c)
  BY <1>1 DEF SameLocals, SamePush, Tried
<1>7. PICK id : id = start_id[v] + m - 1
  OBVIOUS
<1>8. PICK y : y = CharKey(c, now[v])
  OBVIOUS
<1>9. IsEntry(y, id) <=> Tried(v, m, c) /\ pkts[v][m] \in filters[c]
  BY <1>5, <1>7, <1>8 DEF HeldChars
<1>10. IsEntry(y, id)' <=> IsEntry(y, id)
  BY <1>5, <1>7, OthersEntries
<1>11. IsEntry(y, id)' <=> (Tried(v, m, c) /\ pkts[v][m] \in filters[c])'
  BY <1>2, <1>5, <1>6, <1>9, <1>10
<1>12. QED
  BY <1>5, <1>7, <1>8, <1>11

\* Every step keeps what the lists of the characters say of the bursts.
LEMMA CharStep ==
  ASSUME TypeOK, ControlInv, IdInv, LoopInv, FillInv, IndexSound, CharInv, [Next]_vars
  PROVE  CharInv'
<1>1. KnownInv /\ \A v \in Writers : Matched(v) /\ HeldChars(v)
  BY DEF CharInv
<1>2. KnownInv'
  BY <1>1, KnownStep
<1>3. ASSUME NEW w \in Writers, Writer(w)
      PROVE  CharInv'
  <2>1. \A v \in Writers : Matched(v)' /\ HeldChars(v)'
    BY <1>1, <1>3, OwnMatched, OwnChars, OtherChars
  <2>2. QED
    BY <1>2, <2>1 DEF CharInv
<1>4. CASE UNCHANGED <<lists, locals, known>>
  <2>1. ASSUME NEW v \in Writers
        PROVE  Matched(v)' /\ HeldChars(v)'
    <3>1. \A c \in known[v] : filters'[c] = filters[c]
      BY <1>1, SettledKept DEF KnownInv
    <3>2. Matched(v) /\ HeldChars(v)
      BY <1>1
    <3>3. Matched(v)'
      BY <1>4, <3>1, <3>2 DEF locals, Matched, Pushing
    <3>4. \A m, c : Tried(v, m, c)' <=> Tried(v, m, c)
      BY <1>4 DEF locals, Tried
    <3>5. HeldChars(v)'
      BY <1>4, <3>1, <3>2, <3>4 DEF locals, HeldChars, HasIds, IsEntry
    <3>6. QED
      BY <3>3, <3>5
  <2>2. QED
    BY <1>2, <2>1 DEF CharInv
<1>5. QED
  BY <1>3, <1>4 DEF Next, ClaimChar, AssignChar, Tick, vars, shared

\* Every step keeps the published ids on the lists of the characters that match.
LEMMA CompleteStep ==
  ASSUME TypeOK, ControlInv, IdInv, LoopInv, FillInv, CharInv, CharactersComplete, [Next]_vars
  PROVE  CharactersComplete'
<1>1. KnownInv
  BY DEF CharInv
<1>2. SUFFICES ASSUME NEW id \in 0..(current_read_id' - 1), NEW c \in accepted'[id].chars
               PROVE  (IsEntry(CharKey(c, accepted[id].ts), id) <=>
                         accepted[id].pkt \in filters[c])'
  BY DEF CharactersComplete
<1>3. CASE id \in 0..(current_read_id - 1)
  <2>1. id \in DOMAIN accepted
    BY <1>3 DEF TypeOK, IdType
  <2>2. accepted'[id] = accepted[id]
    BY <2>1, AcceptedKept
  <2>3. Settled(c) /\ c \in accepted[id].chars
    BY <1>1, <1>2, <2>1, <2>2 DEF KnownInv
  <2>4. filters'[c] = filters[c]
    BY <2>3, SettledKept
  <2>5. PICK y : y = CharKey(c, accepted[id].ts)
    OBVIOUS
  <2>6. IsEntry(y, id) <=> accepted[id].pkt \in filters[c]
    BY <1>3, <2>3, <2>5 DEF CharactersComplete
  <2>7. IsEntry(y, id)' <=> IsEntry(y, id)
    <3>1. ASSUME NEW w \in Writers, Writer(w)
          PROVE  IsEntry(y, id)' <=> IsEntry(y, id)
      BY <1>3, <3>1, PublishedEntries
    <3>2. CASE lists' = lists
      BY <3>2 DEF IsEntry
    <3>3. QED
      BY <3>1, <3>2 DEF Next, ClaimChar, AssignChar, Tick, vars, shared
  <2>8. QED
    BY <2>2, <2>4, <2>5, <2>6, <2>7
<1>4. ASSUME NEW w \in Writers, End(w), NEW m \in 1..Len(pkts[w]), id = start_id[w] + m - 1
      PROVE  (IsEntry(CharKey(c, accepted[id].ts), id) <=> accepted[id].pkt \in filters[c])'
  <2>1. /\ HasIds(w) /\ pc[w] = "end" /\ accepted' = accepted /\ lists' = lists
        /\ filters' = filters
    BY <1>4 DEF End, Goto, HasIds
  <2>2. accepted[id] = [ts |-> now[w], chars |-> known[w], pkt |-> pkts[w][m]]
    BY <1>4, <2>1, HeldIds
  <2>3. c \in known[w] /\ accepted[id].ts = now[w] /\ accepted[id].pkt = pkts[w][m]
    BY <1>2, <2>1, <2>2
  <2>4. n[w] = Len(pkts[w]) /\ Len(pkts[w]) \in Nat
    BY <2>1 DEF ControlInv, ControlOf, TypeOK, BurstType
  <2>5. Tried(w, m, c)
    BY <2>1, <2>4 DEF Tried
  <2>6. IsEntry(CharKey(c, now[w]), id) <=> pkts[w][m] \in filters[c]
    BY <1>4, <2>1, <2>3, <2>5 DEF CharInv, HeldChars
  <2>7. PICK y : y = CharKey(c, now[w])
    OBVIOUS
  <2>8. IsEntry(y, id)' <=> IsEntry(y, id)
    BY <2>1 DEF IsEntry
  <2>9. y = CharKey(c, accepted[id].ts)'
    BY <2>1, <2>3, <2>7
  <2>10. IsEntry(y, id)' <=> (accepted[id].pkt \in filters[c])'
    BY <2>1, <2>3, <2>6, <2>7, <2>8
  <2>11. QED
    BY <2>9, <2>10
<1>5. ASSUME NEW w \in Writers, Writer(w)
      PROVE  (IsEntry(CharKey(c, accepted[id].ts), id) <=> accepted[id].pkt \in filters[c])'
  BY <1>2, <1>3, <1>4, <1>5, NewlyPublished, ReadIdStep
<1>6. CASE current_read_id' = current_read_id
  BY <1>2, <1>3, <1>6
<1>7. QED
  BY <1>5, <1>6 DEF Next, ClaimChar, AssignChar, Tick, vars, shared

-----------------------------------------------------------------------------
(* The theorems                                                            *)

TypedIndexInv == TypeOK /\ ControlInv /\ IdInv /\ IndexInv

\* The empty store satisfies the invariant.
LEMMA IndexInit ==
  ASSUME Init
  PROVE  TypedIndexInv
<1>1. TypeOK /\ IdInv /\ ControlInv
  BY TypeInit, IdInit
<1>2. /\ \A w \in Writers : /\ pc[w] = "poll" /\ phase[w] = "time" /\ n[w] = 0
                            /\ num_chars[w] = 0 /\ known[w] = {}
      /\ DOMAIN lists = {} /\ DOMAIN accepted = {} /\ current_read_id = 0 /\ num_filters = 0
  BY DEF Init
<1>3. LoopInv /\ FillInv
  BY <1>2 DEF LoopInv, LoopOf, FillInv, FillOf, DisjointFills, Pushing
<1>4. IndexSound /\ ListedInv
  BY <1>2 DEF IndexSound, ListedInv, UniqueInv, HeldListed, HasIds, PublishedOn
<1>5. CharInv /\ CharactersComplete
  BY <1>2 DEF CharInv, KnownInv, Matched, Pushing, HeldChars, HasIds, CharactersComplete
<1>6. QED
  BY <1>1, <1>3, <1>4, <1>5 DEF TypedIndexInv, IndexInv

\* Every step of writers, adders and clock preserves it.
LEMMA IndexStep ==
  ASSUME TypedIndexInv, [Next]_vars
  PROVE  TypedIndexInv'
<1>1. /\ TypeOK /\ ControlInv /\ IdInv /\ LoopInv /\ FillInv /\ IndexSound
      /\ ListedInv /\ CharInv /\ CharactersComplete
  BY DEF TypedIndexInv, IndexInv
<1>2. TypeOK' /\ IdInv' /\ ControlInv'
  BY <1>1, TypeStep, IdStep, ControlStep
<1>3. LoopInv' /\ FillInv' /\ IndexSound'
  BY <1>1, <1>2, LoopStep, FillStep, SoundStep
<1>4. ListedInv' /\ CharInv' /\ CharactersComplete'
  BY <1>1, <1>2, ListedStep, CharStep, CompleteStep
<1>5. QED
  BY <1>2, <1>3, <1>4 DEF TypedIndexInv, IndexInv

\* The invariant of the index holds in every reachable state: the loops of
\* insert_pktburst, the entries reserved by its pushes, and the lists its ids are on.
THEOREM IndexCorrect == Spec => []TypedIndexInv
<1>1. Init => TypedIndexInv
  BY IndexInit
<1>2. TypedIndexInv /\ [Next]_vars => TypedIndexInv'
  BY IndexStep
<1>3. QED
  BY <1>1, <1>2, PTL DEF Spec

\* No list ever holds an id that is not claimed, or whose packet does not belong
\* to it: add_entry and push_back_range put no id under a foreign token.
THEOREM IndexSoundHolds == Spec => []IndexSound
<1>1. TypedIndexInv => IndexSound
  BY DEF TypedIndexInv, IndexInv
<1>2. QED
  BY <1>1, IndexCorrect, PTL

\* An id that is on a list of a second or of a key is there once.
LEMMA ListedOnce ==
  ASSUME TypedIndexInv, NEW id \in Nat, NEW key, ~IsChar(key), IsEntry(key, id)
  PROVE  /\ key \in DOMAIN lists
         /\ \E e \in DOMAIN lists[key] :
              \A x \in DOMAIN lists[key] : lists[key][x] = id <=> x = e
<1>1. UniqueInv /\ id # Unset
  BY UnsetAssumption DEF TypedIndexInv, IndexInv, ListedInv
<1>2. PICK e \in DOMAIN lists[key] : lists[key][e] = id
  BY DEF IsEntry
<1>3. \A x \in DOMAIN lists[key] : lists[key][x] = id <=> x = e
  BY <1>1, <1>2 DEF UniqueInv, IsEntry
<1>4. QED
  BY <1>2, <1>3 DEF IsEntry

\* Every published id is once on the list of its second and of each key of its
\* packet: what insert_pktburst has pushed when it calls end().
THEOREM PublishedIndexedHolds == Spec => []PublishedIndexed
<1>1. ASSUME TypedIndexInv
      PROVE  PublishedIndexed
  <2>1. SUFFICES ASSUME NEW id \in 0..(current_read_id - 1),
                        NEW key \in {TimeKey(accepted[id].ts)} \cup
                                    {IndexKeys(accepted[id].pkt)[m] :
                                       m \in DOMAIN IndexKeys(accepted[id].pkt)}
                 PROVE  /\ key \in DOMAIN lists
                        /\ \E e \in DOMAIN lists[key] :
                             \A x \in DOMAIN lists[key] : lists[key][x] = id <=> x = e
    BY DEF PublishedIndexed
  <2>2. DOMAIN IndexKeys(accepted[id].pkt) = 1..Len(IndexKeys(accepted[id].pkt))
    BY KeyFacts
  <2>3. key \in ListsOf(accepted[id].ts, accepted[id].pkt)
    BY <2>2 DEF ListsOf, KeysOf
  <2>4. IsEntry(key, id)
    BY <1>1, <2>3 DEF TypedIndexInv, IndexInv, ListedInv, PublishedOn
  <2>5. ~IsChar(key)
    <3>1. CASE key = TimeKey(accepted[id].ts)
      <4>1. key[1] = "timestamp"
        BY <3>1, TagFacts
      <4>2. QED
        BY <4>1 DEF IsChar
    <3>2. CASE \E m \in 1..Len(IndexKeys(accepted[id].pkt)) : key = IndexKeys(accepted[id].pkt)[m]
      BY <3>2, KeyFacts DEF IsChar
    <3>3. QED
      BY <2>1, <2>2, <3>1, <3>2
  <2>6. id \in Nat
    BY <1>1 DEF TypedIndexInv, TypeOK, IdType
  <2>7. QED
    BY <1>1, <2>4, <2>5, <2>6, ListedOnce
<1>2. QED
  BY <1>1, IndexCorrect, PTL

\* A published packet that was polled after add_complex_character had returned c
\* is on the list of c for its second exactly when the filters of c match it.
THEOREM CharactersCompleteHolds == Spec => []CharactersComplete
<1>1. TypedIndexInv => CharactersComplete
  BY DEF TypedIndexInv, IndexInv
<1>2. QED
  BY <1>1, IndexCorrect, PTL

=============================================================================
