--------------------------- MODULE LogStoreProofs ----------------------------
(***************************************************************************)
(* Proofs about the log store, for every number of threads, records,       *)
(* streams, ids and bytes: its type, the lists a published record is on,   *)
(* and, as long as no handle has run past its block, which ids get and     *)
(* extract accept and what they return.                                    *)
(***************************************************************************)
EXTENDS LogStoreInvariant, LinearLogProofs, SequenceTheorems

\* A step of a thread.
Act(t) == Begin(t) \/ Step(t)

\* A thread's step changes nothing of another thread's.
LEMMA Locality ==
  ASSUME ThreadType, NEW t \in Threads, Act(t), NEW u \in Threads, u # t
  PROVE  op'[u] = op[u] /\ (u \in Handles => handle'[u] = handle[u])
<1>1. op'[u] = op[u]
  BY DEF ThreadType, Act, Step, Begin, ClaimIds, ClaimBytes, AllocBytes, ClaimId,
         SetOffLen, AppendRecord, AddEntry, SetEntry, LoadStreams, CheckAndAdd,
         StreamSet, End, ToStream
<1>2. u \in Handles => handle'[u] = handle[u]
  BY DEF ThreadType, Act, Step, Begin, ClaimIds, ClaimBytes, AllocBytes, ClaimId,
         SetOffLen, AppendRecord, AddEntry, SetEntry, LoadStreams, CheckAndAdd,
         StreamSet, End, ToStream
<1>3. QED
  BY <1>1, <1>2

-----------------------------------------------------------------------------
(* Types                                                                   *)

\* The length and the tokens of a record.
LEMMA RecordFacts ==
  ASSUME NEW r \in Records
  PROVE  r.len \in Nat /\ r.len < LenValues /\ r.keys \in Seq(Nat) /\ Len(r.keys) \in Nat
<1>1. r.len \in 0..(LenValues - 1) /\ r.keys \in Seq(Nat)
  BY RecordAssumption
<1>2. \A l \in 0..(LenValues - 1) : l \in Nat /\ l < LenValues
  BY DEF LenValues
<1>3. Len(r.keys) \in Nat
  BY <1>1
<1>4. QED
  BY <1>1, <1>2, <1>3

\* The fields of an insert.
LEMMA OpFields ==
  ASSUME ThreadType, NEW t \in Threads
  PROVE  /\ op[t].pc \in Labels /\ op[t].rec \in Records \cup {Unset}
         /\ op[t].id \in Nat /\ op[t].off \in Nat /\ op[t].m \in Nat
         /\ op[t].ns \in Nat /\ op[t].slot \in Nat
         /\ t \in Handles =>
              /\ handle[t].ids \in 0..IdBlock /\ handle[t].ids \in Nat
              /\ handle[t].id \in Nat
              /\ handle[t].bytes \in {0, DataBlock} /\ handle[t].off \in Nat
BY BlockAssumption DEF ThreadType

\* The fetch_add on tail_ adds one entry that is not set to its list, which is
\* created if need be, and leaves the others alone.
LEMMA ReserveDef ==
  ASSUME ListType, NEW key, reserve(key)
  PROVE  /\ DOMAIN lists' = DOMAIN lists \cup {key}
         /\ \A x \in DOMAIN lists : x # key => lists'[x] = lists[x]
         /\ Size(key) \in Nat
         /\ key \in DOMAIN lists => Size(key) = Len(lists[key]) /\ DOMAIN lists[key] = 1..Size(key)
         /\ lists'[key] \in Seq(Nat \cup {Unset})
         /\ Len(lists'[key]) = Size(key) + 1
         /\ DOMAIN lists'[key] = 1..(Size(key) + 1)
         /\ lists'[key][Size(key) + 1] = Unset
         /\ \A e \in 1..Size(key) : key \in DOMAIN lists /\ lists'[key][e] = lists[key][e]
<1> DEFINE S == Nat \cup {Unset}
           old == IF key \in DOMAIN lists THEN lists[key] ELSE <<>>
           one == <<Unset>>
           new == old \o one
<1>1. old \in Seq(S) /\ one \in Seq(S) /\ Len(one) = 1 /\ one[1] = Unset /\ Len(old) = Size(key)
  BY DEF ListType, Size
<1>2. Size(key) \in Nat /\ DOMAIN old = 1..Size(key)
  BY <1>1
<1>3. /\ DOMAIN lists' = DOMAIN lists \cup {key}
      /\ lists'[key] = new
  BY DEF reserve
<1>4. ASSUME NEW x \in DOMAIN lists, x # key
      PROVE  lists'[x] = lists[x]
  <2>1. lists[x] \in Seq(S)
    BY DEF ListType
  <2>2. lists'[x] = lists[x] \o <<>>
    BY <1>4 DEF reserve
  <2>3. QED
    BY <2>1, <2>2
<1>5. key \in DOMAIN lists => old = lists[key]
  OBVIOUS
<1>6. key \notin DOMAIN lists => Size(key) = 0
  BY DEF Size
<1> HIDE DEF old, one, S
<1>7. /\ new \in Seq(S) /\ Len(new) = Len(old) + Len(one)
      /\ \A e \in 1..(Len(old) + Len(one)) :
           new[e] = IF e <= Len(old) THEN old[e] ELSE one[e - Len(old)]
  BY <1>1, ConcatProperties
<1> HIDE DEF new
<1>8. Len(new) = Size(key) + 1 /\ DOMAIN new = 1..(Size(key) + 1)
  BY <1>1, <1>2, <1>7
<1>9. new[Size(key) + 1] = Unset
  <2>1. PICK e : e = Size(key) + 1
    OBVIOUS
  <2>2. e \in 1..(Len(old) + Len(one)) /\ ~(e <= Len(old)) /\ e - Len(old) = 1
    BY <1>1, <1>2, <2>1
  <2>3. QED
    BY <1>1, <1>7, <2>1, <2>2
<1>10. ASSUME NEW e \in 1..Size(key)
       PROVE  key \in DOMAIN lists /\ new[e] = old[e]
  <2>1. e \in 1..(Len(old) + Len(one)) /\ e <= Len(old)
    BY <1>1, <1>2
  <2>2. QED
    BY <1>2, <1>6, <1>7, <2>1
<1>11. QED
  BY <1>1, <1>2, <1>3, <1>4, <1>5, <1>7, <1>8, <1>9, <1>10 DEF S

\* set changes one entry.
LEMMA SetEntryDef ==
  ASSUME ListType, NEW key \in DOMAIN lists, NEW idx \in Nat, NEW val \in Nat,
         idx < Len(lists[key]), set_entry(key, idx, val)
  PROVE  /\ DOMAIN lists' = DOMAIN lists
         /\ \A x \in DOMAIN lists : x # key => lists'[x] = lists[x]
         /\ DOMAIN lists'[key] = DOMAIN lists[key]
         /\ Len(lists'[key]) = Len(lists[key])
         /\ lists'[key] \in Seq(Nat \cup {Unset})
         /\ idx + 1 \in DOMAIN lists[key]
         /\ lists'[key][idx + 1] = val
         /\ \A e \in DOMAIN lists[key] : e # idx + 1 => lists'[key][e] = lists[key][e]
<1> DEFINE S == Nat \cup {Unset}
<1>1. /\ DOMAIN lists' = DOMAIN lists
      /\ \A x \in DOMAIN lists : x # key => lists'[x] = lists[x]
      /\ lists'[key] = [lists[key] EXCEPT ![idx + 1] = val]
  BY DEF set_entry
<1>2. lists[key] \in Seq(S)
  BY DEF ListType
<1>3. idx + 1 \in DOMAIN lists[key]
  BY <1>2
<1>4. lists[key] \in [1..Len(lists[key]) -> S] /\ Len(lists[key]) \in Nat
  BY <1>2
<1>5. lists'[key] \in [1..Len(lists[key]) -> S]
  BY <1>1, <1>4
<1>6. lists'[key] \in Seq(S) /\ Len(lists'[key]) = Len(lists[key])
  BY <1>4, <1>5
<1>7. QED
  BY <1>1, <1>3, <1>6

\* An insert that has its id holds it, and it stands for its record.
LEMMA OwnId ==
  ASSUME TypeOK, IdInv, NEW t \in Threads, HasId(t)
  PROVE  /\ op[t].id \in Nat
         /\ op[t].id \in HeldIds(t)
         /\ op[t].id \in DOMAIN inserted
         /\ inserted[op[t].id].rec = Rec(t)
         /\ current_read_id <= op[t].id
         /\ op[t].id < current_write_id
         /\ t \in Handles => op[t].id = handle[t].id /\ handle[t].ids > 0
<1>1. IdOf(t) /\ current_write_id \in Nat
  BY DEF IdInv, TypeOK, LogType
<1>2. /\ op[t].id \in DOMAIN inserted /\ op[t].id \in HeldIds(t)
      /\ inserted[op[t].id].rec = Rec(t)
      /\ t \in Handles => op[t].id = handle[t].id
      /\ current_read_id <= op[t].id
  BY <1>1 DEF IdOf
<1>3. op[t].id \in 0..(current_write_id - 1)
  BY <1>2 DEF HeldIds
<1>4. ASSUME t \in Handles PROVE handle[t].ids > 0
  <2>1. op[t].id < handle[t].id + handle[t].ids /\ op[t].id = handle[t].id
    BY <1>2, <1>4, ThreadAssumption DEF HeldIds
  <2>2. handle[t].ids \in Nat /\ handle[t].id \in Nat
    BY <1>4, OpFields DEF TypeOK
  <2>3. QED
    BY <2>1, <2>2
<1>5. QED
  BY <1>1, <1>2, <1>3, <1>4

\* The record of an insert that has begun, and what it asks of the data log.
LEMMA OwnRecord ==
  ASSUME TypeOK, ControlInv, NEW t \in Threads, op[t].pc # "idle"
  PROVE  /\ Rec(t) \in Records
         /\ Rec(t).len \in Nat /\ Rec(t).len < LenValues
         /\ Rec(t).keys \in Seq(Nat) /\ Len(Rec(t).keys) \in Nat
         /\ Request(t) \in Nat
<1>1. Rec(t) \in Records
  BY DEF ControlInv, ControlOf
<1>2. QED
  BY <1>1, RecordFacts, BlockAssumption DEF Request

\* A push keeps the type of the lists.
LEMMA PushType ==
  ASSUME ListType, NEW key,
         \/ reserve(key)
         \/ /\ key \in DOMAIN lists
            /\ \E idx, val \in Nat : idx < Len(lists[key]) /\ set_entry(key, idx, val)
  PROVE  \A x \in DOMAIN lists' : lists'[x] \in Seq(Nat \cup {Unset})
<1>1. CASE reserve(key)
  BY <1>1, ReserveDef DEF ListType
<1>2. ASSUME key \in DOMAIN lists, NEW idx \in Nat, NEW val \in Nat,
             idx < Len(lists[key]), set_entry(key, idx, val)
      PROVE  \A x \in DOMAIN lists' : lists'[x] \in Seq(Nat \cup {Unset})
  BY <1>2, SetEntryDef DEF ListType
<1>3. QED
  BY <1>1, <1>2

\* What the steps of a thread do to the lists.
LEMMA ListActions ==
  ASSUME TypeOK, PushInv, NEW t \in Threads, Act(t)
  PROVE  /\ streams' = streams
         /\ \/ lists' = lists /\ ~AddEntry(t) /\ ~SetEntry(t) /\ ~StreamSet(t)
            \/ AddEntry(t) /\ reserve(IndexKey(t))
            \/ /\ CheckAndAdd(t) /\ reserve(StreamKey(t))
               /\ op' = [op EXCEPT ![t].pc = "add", ![t].slot = Size(StreamKey(t))]
               /\ Rec(t) \in streams[op[t].m + 1]
            \/ /\ SetEntry(t) \/ StreamSet(t)
               /\ Pushing(t) /\ Target(t) \in DOMAIN lists
               /\ op[t].slot < Len(lists[Target(t)])
               /\ lists[Target(t)][op[t].slot + 1] = Unset
               /\ set_entry(Target(t), op[t].slot, op[t].id)
<1>1. CASE SetEntry(t) \/ StreamSet(t)
  <2>1. Pushing(t) /\ set_entry(Target(t), op[t].slot, op[t].id)
    BY <1>1 DEF SetEntry, StreamSet, Pushing, Target, At
  <2>2. PushOf(t)
    BY DEF PushInv
  <2>3. streams' = streams
    BY <1>1 DEF SetEntry, StreamSet
  <2>4. QED
    BY <1>1, <2>1, <2>2, <2>3 DEF PushOf
<1>2. CASE AddEntry(t)
  BY <1>2 DEF AddEntry
<1>3. CASE CheckAndAdd(t)
  BY <1>3 DEF CheckAndAdd, AddEntry, SetEntry, StreamSet, At
<1>4. CASE Begin(t)
  BY <1>4 DEF Begin, store, AddEntry, SetEntry, StreamSet, At
<1>5. CASE \/ ClaimIds(t) \/ ClaimBytes(t) \/ AllocBytes(t) \/ ClaimId(t)
           \/ SetOffLen(t) \/ AppendRecord(t) \/ LoadStreams(t) \/ End(t)
  BY <1>5 DEF ClaimIds, ClaimBytes, AllocBytes, ClaimId, SetOffLen, AppendRecord,
              LoadStreams, End, store, AddEntry, SetEntry, StreamSet, At
<1>6. QED
  BY <1>1, <1>2, <1>3, <1>4, <1>5 DEF Act, Step

\* The lists and streams keep their type.
LEMMA ListTypeStep ==
  ASSUME TypeOK, PushInv, [Next]_vars
  PROVE  ListType'
<1>1. ListType
  BY DEF TypeOK
<1>2. ASSUME NEW t \in Threads, Act(t)
      PROVE  ListType'
  <2>1. streams' = streams
    BY <1>2, ListActions
  <2>2. \A x \in DOMAIN lists' : lists'[x] \in Seq(Nat \cup {Unset})
    <3>1. CASE lists' = lists
      BY <1>1, <3>1 DEF ListType
    <3>2. ASSUME NEW key, reserve(key)
          PROVE  \A x \in DOMAIN lists' : lists'[x] \in Seq(Nat \cup {Unset})
      BY <1>1, <3>2, PushType
    <3>3. CASE /\ Target(t) \in DOMAIN lists
               /\ op[t].slot < Len(lists[Target(t)])
               /\ set_entry(Target(t), op[t].slot, op[t].id)
      <4>1. op[t].slot \in Nat /\ op[t].id \in Nat
        BY OpFields DEF TypeOK
      <4>2. PICK key : key = Target(t)
        OBVIOUS
      <4>3. QED
        BY <1>1, <3>3, <4>1, <4>2, PushType
    <3>4. QED
      BY <1>2, <3>1, <3>2, <3>3, ListActions
  <2>3. QED
    BY <1>1, <2>1, <2>2 DEF ListType
<1>3. CASE AddStream
  BY <1>1, <1>3 DEF AddStream, ListType
<1>4. CASE UNCHANGED vars
  BY <1>1, <1>4 DEF vars, store, ListType
<1>5. QED
  BY <1>2, <1>3, <1>4 DEF Next, Act


\* The fields of threads and handles keep their types.
LEMMA ThreadTypeStep ==
  ASSUME TypeOK, ControlInv, IdInv, [Next]_vars
  PROVE  ThreadType'
<1> DEFINE Op == [pc : Labels, rec : Records \cup {Unset}, id : Nat, off : Nat,
                  m : Nat, ns : Nat, slot : Nat]
           H == [ids : 0..IdBlock, id : Nat, bytes : {0, DataBlock}, off : Nat]
<1>1. ThreadType /\ handle \in [Handles -> H] /\ op \in [Threads -> Op]
  BY DEF TypeOK, ThreadType
<1>2. current_write_id \in Nat /\ dtail \in Nat /\ IdBlock \in 0..IdBlock
  BY BlockAssumption DEF TypeOK, LogType
<1>3. \A b, r : ToBytes(b, r) \in Labels /\ \A m : AfterTokens(m, r) \in Labels
  BY DEF ToBytes, AfterTokens, Labels
<1>4. ASSUME NEW t \in Threads, Act(t)
      PROVE  ThreadType'
  <2>1. /\ op[t] \in Op /\ (t \in Handles => handle[t] \in H)
        /\ op[t].m \in Nat /\ op[t].id \in Nat /\ op[t].off \in Nat /\ op[t].ns \in Nat
        /\ op[t].pc \in Labels
    BY <1>1
  <2>2. AfterStreams(t) \in Labels
    BY DEF AfterStreams, Labels
  <2>3. \A key : Size(key) \in Nat
    BY DEF Size, TypeOK, ListType
  <2>4. Len(streams) \in Nat
    BY DEF TypeOK, ListType
  <2>5. op' \in [Threads -> Op]
    <3>1. CASE Begin(t)
      <4>1. ASSUME NEW p \in Labels, NEW r \in Records, NEW i \in Nat, NEW o \in Nat,
                   op' = [op EXCEPT ![t] = [pc |-> p, rec |-> r, id |-> i, off |-> o,
                                            m |-> 0, ns |-> 0, slot |-> 0]]
            PROVE  op' \in [Threads -> Op]
        BY <1>1, <4>1
      <4>2. PICK r \in Records :
               \/ op' = [op EXCEPT ![t] = [Idle EXCEPT !.pc = "claim_bytes", !.rec = r]]
               \/ op' = [op EXCEPT ![t] = [Idle EXCEPT !.pc = "claim_ids", !.rec = r]]
               \/ /\ t \in Handles
                  /\ op' = [op EXCEPT ![t] =
                              [Idle EXCEPT !.pc = ToBytes(handle[t].bytes, r), !.rec = r,
                                           !.id = handle[t].id, !.off = handle[t].off]]
        BY <3>1 DEF Begin
      <4>3. PICK p \in Labels : p = ToBytes(handle[t].bytes, r)
        BY <1>3
      <4>4. \/ op' = [op EXCEPT ![t] = [pc |-> "claim_bytes", rec |-> r, id |-> 0,
                                        off |-> 0, m |-> 0, ns |-> 0, slot |-> 0]]
            \/ op' = [op EXCEPT ![t] = [pc |-> "claim_ids", rec |-> r, id |-> 0,
                                        off |-> 0, m |-> 0, ns |-> 0, slot |-> 0]]
            \/ /\ t \in Handles
               /\ op' = [op EXCEPT ![t] = [pc |-> p, rec |-> r, id |-> handle[t].id,
                                           off |-> handle[t].off,
                                           m |-> 0, ns |-> 0, slot |-> 0]]
        BY <4>2, <4>3 DEF Idle
      <4>5. "claim_bytes" \in Labels /\ "claim_ids" \in Labels
        BY DEF Labels
      <4>6. t \in Handles => handle[t].id \in Nat /\ handle[t].off \in Nat
        BY <2>1
      <4>7. QED
        BY <4>1, <4>4, <4>5, <4>6
    <3>2. CASE ClaimIds(t)
      <4>1. t \in Handles
        BY <3>2 DEF ClaimIds, At, ControlInv, ControlOf
      <4>2. QED
        BY <1>1, <1>2, <1>3, <2>1, <3>2, <4>1 DEF ClaimIds
    <3>3. CASE ClaimBytes(t) \/ AllocBytes(t) \/ ClaimId(t) \/ SetOffLen(t)
      <4>1. PICK p \in Labels :
              \/ op' = [op EXCEPT ![t].pc = p]
              \/ op' = [op EXCEPT ![t].pc = p, ![t].off = dtail]
              \/ op' = [op EXCEPT ![t].pc = p, ![t].id = current_write_id]
        BY <3>3 DEF ClaimBytes, AllocBytes, ClaimId, SetOffLen, Labels
      <4>2. QED
        BY <1>1, <1>2, <4>1
    <3>4. CASE AppendRecord(t)
      BY <1>1, <1>3, <3>4 DEF AppendRecord
    <3>5. CASE AddEntry(t)
      <4>1. PICK p \in Labels, n \in Nat : op' = [op EXCEPT ![t].pc = p, ![t].slot = n]
        BY <2>3, <3>5 DEF AddEntry, Labels
      <4>2. QED
        BY <1>1, <4>1
    <3>6. CASE SetEntry(t)
      BY <1>1, <1>3, <2>1, <3>6 DEF SetEntry
    <3>7. ASSUME NEW m \in Nat, NEW ns \in Nat, ToStream(t, m, ns)
          PROVE  op' \in [Threads -> Op]
      <4>1. PICK p \in Labels : op' = [op EXCEPT ![t].pc = p, ![t].m = m, ![t].ns = ns]
        BY <2>2, <3>7 DEF ToStream, Labels
      <4>2. QED
        BY <1>1, <4>1
    <3>8. CASE LoadStreams(t)
      BY <2>4, <3>7, <3>8 DEF LoadStreams
    <3>9. CASE StreamSet(t) \/ (CheckAndAdd(t) /\ ToStream(t, op[t].m + 1, op[t].ns))
      <4>1. PICK m \in Nat : m = op[t].m + 1
        BY <2>1
      <4>2. ToStream(t, m, op[t].ns)
        BY <3>9, <4>1 DEF StreamSet
      <4>3. QED
        BY <2>1, <3>7, <4>2
    <3>10. CASE /\ CheckAndAdd(t)
                /\ op' = [op EXCEPT ![t].pc = "add", ![t].slot = Size(StreamKey(t))]
      <4>1. PICK p \in Labels, n \in Nat : op' = [op EXCEPT ![t].pc = p, ![t].slot = n]
        BY <2>3, <3>10 DEF Labels
      <4>2. QED
        BY <1>1, <4>1
    <3>11. CASE End(t)
      BY <1>1, <2>1, <3>11 DEF End, Idle, Labels
    <3>12. CheckAndAdd(t) =>
             \/ ToStream(t, op[t].m + 1, op[t].ns)
             \/ op' = [op EXCEPT ![t].pc = "add", ![t].slot = Size(StreamKey(t))]
      BY DEF CheckAndAdd
    <3>13. QED
      <4>1. CASE CheckAndAdd(t)
        BY <4>1, <3>9, <3>10, <3>12
      <4>2. CASE StreamSet(t)
        BY <3>9, <4>2
      <4>3. CASE ClaimBytes(t) \/ AllocBytes(t) \/ ClaimId(t) \/ SetOffLen(t)
        BY <3>3, <4>3
      <4> HIDE DEF Op
      <4>4. Begin(t) \/ Step(t)
        BY <1>4 DEF Act
      <4>5. QED
        BY <3>1, <3>2, <3>4, <3>5, <3>6, <3>8, <3>11, <4>1, <4>2, <4>3, <4>4 DEF Step
  <2>6. handle' \in [Handles -> H]
    <3>1. CASE handle' = handle
      BY <1>1, <3>1
    <3>2. CASE ClaimIds(t)
      BY <1>1, <1>2, <3>2 DEF ClaimIds
    <3>3. CASE ClaimBytes(t)
      BY <1>1, <1>2, <3>3 DEF ClaimBytes
    <3>4. CASE End(t) /\ t \in Handles
      <4>1. HasId(t)
        BY <3>4 DEF End, At, HasId
      <4>2. handle[t].ids > 0
        BY <3>4, <4>1, OwnId
      <4>3. Rec(t).len \in Nat
        BY <3>4, OwnRecord DEF End, At
      <4>4. /\ handle[t].ids - 1 \in 0..IdBlock
            /\ handle[t].off + Rec(t).len \in Nat /\ handle[t].id + 1 \in Nat
        BY <1>2, <2>1, <3>4, <4>2, <4>3, BlockAssumption
      <4>5. handle' = [handle EXCEPT ![t].ids = handle[t].ids - 1,
                                     ![t].off = handle[t].off + Rec(t).len,
                                     ![t].id = handle[t].id + 1]
        BY <1>1, <3>4 DEF End
      <4>6. QED
        BY <1>1, <3>4, <4>4, <4>5
    <3>5. QED
      BY <1>4, <3>1, <3>2, <3>3, <3>4
      DEF Act, Step, Begin, AllocBytes, ClaimId, SetOffLen, AppendRecord, AddEntry,
          SetEntry, LoadStreams, CheckAndAdd, StreamSet, End
  <2>7. QED
    BY <2>5, <2>6 DEF ThreadType
<1>5. CASE AddStream
  BY <1>1, <1>5 DEF AddStream, ThreadType
<1>6. CASE UNCHANGED vars
  BY <1>1, <1>6 DEF vars, ThreadType
<1>7. QED
  BY <1>4, <1>5, <1>6 DEF Next, Act


\* Where an insert gets its id: it stood for nothing, is not published, and no
\* other thread holds it.
Gets(t, id, r) ==
  /\ id \in Nat /\ r \in Records
  /\ id \notin DOMAIN inserted
  /\ current_read_id <= id /\ id < current_write_id'
  /\ ~HasId(t) /\ HasId(t)' /\ op'[t].id = id /\ op'[t].rec = r
  /\ \A u \in Threads : u # t => id \notin HeldIds(u)
  /\ DOMAIN inserted' = DOMAIN inserted \cup {id}
  /\ inserted'[id] = [rec |-> r, ns |-> Len(streams)]
  /\ \A x \in DOMAIN inserted : inserted'[x] = inserted[x]
  /\ UNCHANGED <<current_read_id, offlens, dtail, dlog, data_buckets, lists, streams,
                 owner, overrun>>
  /\ op'[t].pc \in {"claim_bytes", "append", "set_offlen"}
  /\ op'[t].pc = "set_offlen" => t \in Inserters
  /\ op'[t].pc \in {"claim_bytes", "append"} => t \in Handles

LEMMA InsertedStep ==
  ASSUME TypeOK, ControlInv, IdInv, NEW t \in Threads, Act(t)
  PROVE  inserted' = inserted \/ \E id, r : Gets(t, id, r)
<1>1. /\ ThreadType /\ current_write_id \in Nat /\ current_read_id \in 0..current_write_id
      /\ DOMAIN inserted \subseteq 0..(current_write_id - 1)
  BY DEF TypeOK, LogType, HistoryType
<1>2. ASSUME NEW id, NEW r, Assign(id, r), id \notin DOMAIN inserted
      PROVE  /\ DOMAIN inserted' = DOMAIN inserted \cup {id}
             /\ inserted'[id] = [rec |-> r, ns |-> Len(streams)]
             /\ \A x \in DOMAIN inserted : inserted'[x] = inserted[x]
  BY <1>2 DEF Assign
<1>3. CASE Begin(t) /\ inserted' # inserted
  <2>1. PICK r \in Records :
          /\ t \in Handles /\ handle[t].ids > 0
          /\ op' = [op EXCEPT ![t] =
                      [Idle EXCEPT !.pc = ToBytes(handle[t].bytes, r), !.rec = r,
                                   !.id = handle[t].id, !.off = handle[t].off]]
          /\ Assign(handle[t].id, r)
    BY <1>3 DEF Begin
  <2>2. PICK p : p = ToBytes(handle[t].bytes, r)
    OBVIOUS
  <2>3. op'[t] = [pc |-> p, rec |-> r, id |-> handle[t].id, off |-> handle[t].off,
                  m |-> 0, ns |-> 0, slot |-> 0]
    BY <1>1, <2>1, <2>2 DEF Idle, ThreadType
  <2>4. p \in {"claim_bytes", "append"}
    BY <2>2 DEF ToBytes
  <2>5. ~HasId(t) /\ HasId(t)'
    <3>1. t \notin Inserters /\ op[t].pc = "idle" /\ op'[t].pc = p
      <4>1. t \notin Inserters
        BY <2>1, ThreadAssumption
      <4>2. op[t].pc = "idle"
        BY <1>3 DEF Begin, At
      <4>3. op'[t].pc = p
        BY <2>3
      <4>4. QED
        BY <4>1, <4>2, <4>3
    <3>2. QED
      BY <2>4, <3>1 DEF HasId
  <2>6. PICK id : id = handle[t].id
    OBVIOUS
  <2>7. id \in Nat /\ id \in HeldIds(t) /\ id < current_write_id
    <3>1. /\ handle[t].id \in Nat /\ handle[t].ids \in Nat
          /\ handle[t].id + handle[t].ids <= current_write_id
      BY <1>1, <2>1, OpFields DEF IdInv, IdOf
    <3>2. id \in 0..(current_write_id - 1) /\ handle[t].id <= id
          /\ id < handle[t].id + handle[t].ids
      BY <1>1, <2>1, <2>6, <3>1
    <3>3. QED
      BY <1>1, <2>1, <3>2 DEF HeldIds
  <2>8. id \notin DOMAIN inserted /\ current_read_id <= id
    BY <2>5, <2>7 DEF IdInv, IdOf
  <2>9. \A u \in Threads : u # t => id \notin HeldIds(u)
    BY <2>7 DEF IdInv
  <2>10. UNCHANGED <<current_write_id, current_read_id, offlens, dtail, dlog, data_buckets,
                     lists, streams, owner, overrun>>
    BY <1>3 DEF Begin, store
  <2>11. /\ DOMAIN inserted' = DOMAIN inserted \cup {id}
         /\ inserted'[id] = [rec |-> r, ns |-> Len(streams)]
         /\ \A x \in DOMAIN inserted : inserted'[x] = inserted[x]
    BY <1>2, <2>1, <2>6, <2>8
  <2>12. Gets(t, id, r)
    <3>1. op'[t].pc = p /\ op'[t].id = id /\ op'[t].rec = r
      BY <2>3, <2>6
    <3>2. id < current_write_id'
      BY <2>7, <2>10
    <3>3. QED
      BY <2>1, <2>4, <2>5, <2>7, <2>8, <2>9, <2>10, <2>11, <3>1, <3>2 DEF Gets
  <2>13. QED
    BY <2>12
<1>4. CASE ClaimIds(t) \/ ClaimId(t)
  <2>1. PICK id : id = current_write_id
    OBVIOUS
  <2>2. PICK p : p = op'[t].pc
    OBVIOUS
  <2>3. /\ op'[t].pc = p /\ op'[t].id = id /\ op'[t].rec = Rec(t) /\ Assign(id, Rec(t))
        /\ p \in {"claim_bytes", "append", "set_offlen"}
        /\ current_write_id' \in Nat /\ current_write_id < current_write_id'
    <3>1. CASE ClaimIds(t)
      BY <1>1, <2>1, <2>2, <3>1, BlockAssumption DEF ClaimIds, ToBytes, ThreadType, Rec
    <3>2. CASE ClaimId(t)
      BY <1>1, <2>1, <2>2, <3>2 DEF ClaimId, ThreadType, Rec
    <3>3. QED
      BY <1>4, <3>1, <3>2
  <2>4. /\ ClaimIds(t) => t \in Handles /\ t \notin Inserters /\ op'[t].pc # "set_offlen"
        /\ ClaimId(t) => t \in Inserters /\ t \notin Handles /\ op'[t].pc = "set_offlen"
    <3>1. /\ ClaimIds(t) => t \in Handles /\ t \notin Inserters
          /\ ClaimId(t) => t \in Inserters /\ t \notin Handles
      BY ThreadAssumption DEF ClaimIds, ClaimId, At, ControlInv, ControlOf
    <3>2. ClaimId(t) => op'[t].pc = "set_offlen"
      BY <1>1 DEF ClaimId, ThreadType
    <3>3. ClaimIds(t) => op'[t].pc # "set_offlen"
      BY <1>1 DEF ClaimIds, ThreadType, ToBytes
    <3>4. QED
      BY <3>1, <3>2, <3>3
  <2>5. ~HasId(t) /\ HasId(t)'
    BY <1>4, <2>2, <2>3, <2>4 DEF HasId, ClaimIds, ClaimId, At
  <2>6. id \in Nat /\ id \notin DOMAIN inserted /\ current_read_id <= id
        /\ id < current_write_id' /\ \A u \in Threads : id \notin HeldIds(u)
    BY <1>1, <2>1, <2>3 DEF HeldIds
  <2>7. Rec(t) \in Records
    BY <1>4, OwnRecord DEF ClaimIds, ClaimId, At
  <2>8. UNCHANGED <<current_read_id, offlens, dtail, dlog, data_buckets,
                    lists, streams, owner, overrun>>
    BY <1>4 DEF ClaimIds, ClaimId
  <2>9. PICK r : r = Rec(t)
    OBVIOUS
  <2>10. /\ DOMAIN inserted' = DOMAIN inserted \cup {id}
         /\ inserted'[id] = [rec |-> r, ns |-> Len(streams)]
         /\ \A x \in DOMAIN inserted : inserted'[x] = inserted[x]
    BY <1>2, <2>3, <2>6, <2>9
  <2>11. /\ op'[t].pc = "set_offlen" => t \in Inserters
         /\ op'[t].pc \in {"claim_bytes", "append"} => t \in Handles
    BY <1>4, <2>4
  <2>12. Gets(t, id, r)
    BY <2>2, <2>3, <2>5, <2>6, <2>7, <2>8, <2>9, <2>10, <2>11 DEF Gets
  <2>13. QED
    BY <2>12
<1>5. QED
  BY <1>3, <1>4
  DEF Act, Step, ClaimBytes, AllocBytes, SetOffLen, AppendRecord, AddEntry, SetEntry,
      LoadStreams, CheckAndAdd, StreamSet, End

\* What end() does: the id of the insert is published.
LEMMA EndStep ==
  ASSUME TypeOK, IdInv, NEW t \in Threads, Act(t)
  PROVE  \/ current_read_id' = current_read_id
         \/ /\ End(t) /\ HasId(t) /\ current_read_id = op[t].id
            /\ current_read_id' = current_read_id + 1
            /\ current_read_id < current_write_id
            /\ UNCHANGED <<inserted, offlens, lists, streams, current_write_id>>
<1>1. CASE End(t)
  <2>1. HasId(t) /\ current_read_id = op[t].id /\ current_read_id' = current_read_id + 1
    BY <1>1 DEF End, HasId, At
  <2>2. QED
    BY <1>1, <2>1, OwnId DEF End
<1>2. QED
  BY <1>1
  DEF Act, Step, Begin, ClaimIds, ClaimBytes, AllocBytes, ClaimId, SetOffLen, store,
      AppendRecord, AddEntry, SetEntry, LoadStreams, CheckAndAdd, StreamSet


\* Ids are only ever claimed.
LEMMA WriteIdGrows ==
  ASSUME current_write_id \in Nat, NEW t \in Threads, Act(t)
  PROVE  current_write_id' \in Nat /\ current_write_id <= current_write_id'
<1>1. CASE ClaimIds(t)
  BY <1>1, BlockAssumption DEF ClaimIds
<1>2. CASE ClaimId(t)
  BY <1>2 DEF ClaimId
<1>3. CASE current_write_id' = current_write_id
  BY <1>3
<1>4. QED
  BY <1>1, <1>2, <1>3
  DEF Act, Step, Begin, ClaimBytes, AllocBytes, SetOffLen, store,
      AppendRecord, AddEntry, SetEntry, LoadStreams, CheckAndAdd, StreamSet, End

\* The logs keep their types.
LEMMA LogTypeStep ==
  ASSUME TypeOK, ControlInv, IdInv, [Next]_vars
  PROVE  LogType'
<1>1. /\ LogType /\ HistoryType /\ current_write_id \in Nat /\ dtail \in Nat
      /\ current_read_id \in 0..current_write_id
      /\ DOMAIN offlens \subseteq DOMAIN inserted
      /\ \A id \in DOMAIN offlens : offlens[id] \in [off : Nat, len : Nat]
      /\ DOMAIN dlog \subseteq data_buckets \X Nat /\ data_buckets \subseteq Nat
  BY DEF TypeOK, LogType
<1>2. ASSUME NEW t \in Threads, Act(t)
      PROVE  LogType'
  <2>1. current_write_id' \in Nat /\ current_write_id <= current_write_id'
    BY <1>1, <1>2, WriteIdGrows
  <2>2. current_read_id' \in 0..current_write_id'
    BY <1>1, <1>2, <2>1, EndStep
  <2>3. DOMAIN inserted \subseteq DOMAIN inserted'
    BY <1>2, InsertedStep DEF Gets
  <2>4. /\ DOMAIN offlens' \subseteq DOMAIN inserted'
        /\ \A id \in DOMAIN offlens' : offlens'[id] \in [off : Nat, len : Nat]
    <3>1. CASE SetOffLen(t)
      <4>1. HasId(t)
        BY <3>1 DEF SetOffLen, At, HasId
      <4>2. op[t].id \in DOMAIN inserted /\ op[t].off \in Nat /\ Rec(t).len \in Nat
        BY <3>1, <4>1, OwnId, OwnRecord, OpFields DEF SetOffLen, At, TypeOK
      <4>3. QED
        BY <1>1, <2>3, <3>1, <4>2 DEF SetOffLen
    <3>2. CASE offlens' = offlens
      BY <1>1, <2>3, <3>2
    <3>3. QED
      BY <1>2, <3>1, <3>2
      DEF Act, Step, Begin, ClaimIds, ClaimBytes, AllocBytes, ClaimId, store,
          AppendRecord, AddEntry, SetEntry, LoadStreams, CheckAndAdd, StreamSet, End
  <2>5. dtail' \in Nat
    <3>1. CASE ClaimBytes(t)
      BY <1>1, <3>1, OwnRecord DEF ClaimBytes, At
    <3>2. QED
      BY <1>1, <1>2, <3>1
      DEF Act, Step, Begin, ClaimIds, AllocBytes, ClaimId, SetOffLen, store,
          AppendRecord, AddEntry, SetEntry, LoadStreams, CheckAndAdd, StreamSet, End
  <2>6. DOMAIN dlog' \subseteq data_buckets' \X Nat /\ data_buckets' \subseteq Nat
    <3>1. CASE AllocBytes(t)
      <4>1. op[t].off \in Nat /\ Request(t) \in Nat
        BY <3>1, OwnRecord, OpFields DEF AllocBytes, At, TypeOK
      <4>2. PICK e \in Nat : e = op[t].off + Request(t)
        BY <4>1
      <4>3. op[t].off \div BlockSize \in Nat /\ e \div BlockSize \in Nat
        BY <4>1, BlockAssumption, DivMod
      <4>4. Buckets(op[t].off, e, BlockSize) \subseteq Nat
        BY <4>3 DEF Buckets, BucketIdx
      <4>5. QED
        BY <1>1, <3>1, <4>2, <4>4 DEF AllocBytes
    <3>2. CASE AppendRecord(t)
      <4>1. op[t].off \in Nat /\ Rec(t).len \in Nat
        BY <3>2, OwnRecord, OpFields DEF AppendRecord, At, TypeOK
      <4>2. PICK o \in Nat : o = op[t].off
        BY <4>1
      <4>3. PICK l \in Nat : l = Rec(t).len
        BY <4>1
      <4>4. /\ BucketIdx(o, BlockSize) \in Nat
            /\ Run(o, l, BlockSize) \subseteq {BucketIdx(o, BlockSize)} \X Nat
        BY RunCells, BlockAssumption
      <4>5. /\ DOMAIN dlog' = DOMAIN dlog \cup Run(o, l, BlockSize)
            /\ data_buckets' = data_buckets \cup {BucketIdx(o, BlockSize)}
        BY <3>2, <4>2, <4>3 DEF AppendRecord
      <4>6. QED
        BY <1>1, <4>4, <4>5
    <3>3. CASE dlog' = dlog /\ data_buckets' = data_buckets
      BY <1>1, <3>3
    <3>4. QED
      BY <1>2, <3>1, <3>2, <3>3
      DEF Act, Step, Begin, ClaimIds, ClaimBytes, ClaimId, SetOffLen, store,
          AddEntry, SetEntry, LoadStreams, CheckAndAdd, StreamSet, End
  <2>7. QED
    BY <2>1, <2>2, <2>4, <2>5, <2>6 DEF LogType
<1>3. CASE AddStream
  BY <1>1, <1>3 DEF AddStream, LogType
<1>4. CASE UNCHANGED vars
  BY <1>1, <1>4 DEF vars, store, LogType
<1>5. QED
  BY <1>2, <1>3, <1>4 DEF Next, Act

\* Streams are added at the end.
LEMMA StreamsGrow ==
  ASSUME TypeOK, PushInv, [Next]_vars
  PROVE  /\ Len(streams) \in Nat /\ Len(streams') \in Nat
         /\ Len(streams) <= Len(streams')
         /\ \A s \in 1..Len(streams) : streams'[s] = streams[s]
<1>1. streams \in Seq(StreamFns) /\ Len(streams) \in Nat
  BY DEF TypeOK, ListType
<1>2. CASE AddStream
  BY <1>1, <1>2 DEF AddStream
<1>3. ASSUME NEW t \in Threads, Act(t)
      PROVE  streams' = streams
  BY <1>3, ListActions
<1>4. CASE UNCHANGED vars
  BY <1>1, <1>4 DEF vars, store
<1>5. QED
  BY <1>1, <1>2, <1>3, <1>4 DEF Next, Act

\* The history keeps its type.
LEMMA HistoryTypeStep ==
  ASSUME TypeOK, ControlInv, IdInv, PushInv, LogType', [Next]_vars
  PROVE  HistoryType'
<1>1. /\ HistoryType /\ current_write_id \in Nat /\ dtail \in Nat
      /\ started \in 0..MaxRecords /\ overrun \in BOOLEAN
      /\ DOMAIN inserted \subseteq 0..(current_write_id - 1)
      /\ \A id \in DOMAIN inserted : inserted[id] \in [rec : Records, ns : 0..Len(streams)]
      /\ owner \in [0..(dtail - 1) -> Threads]
  BY DEF TypeOK, LogType, HistoryType
<1>2. /\ Len(streams) \in Nat /\ Len(streams') \in Nat /\ Len(streams) <= Len(streams')
  BY StreamsGrow
<1>3. ASSUME NEW t \in Threads, Act(t)
      PROVE  HistoryType'
  <2>1. started' \in 0..MaxRecords
    <3>1. CASE Begin(t)
      BY <1>1, <3>1, LimitAssumption DEF Begin
    <3>2. CASE started' = started
      BY <1>1, <3>2
    <3>3. QED
      BY <1>3, <3>1, <3>2
      DEF Act, Step, ClaimIds, ClaimBytes, AllocBytes, ClaimId, SetOffLen, 
          AppendRecord, AddEntry, SetEntry, LoadStreams, CheckAndAdd, StreamSet, End
  <2>2. overrun' \in BOOLEAN
    <3>1. CASE AppendRecord(t)
      BY <3>1 DEF AppendRecord
    <3>2. CASE overrun' = overrun
      BY <1>1, <3>2
    <3>3. QED
      BY <1>3, <3>1, <3>2
      DEF Act, Step, Begin, ClaimIds, ClaimBytes, AllocBytes, ClaimId, SetOffLen,
          AddEntry, SetEntry, LoadStreams, CheckAndAdd, StreamSet, End
  <2>3. owner' \in [0..(dtail' - 1) -> Threads]
    <3>1. CASE ClaimBytes(t)
      <4>1. owner' = [b \in 0..(dtail' - 1) |-> IF b < dtail THEN owner[b] ELSE t]
        BY <3>1 DEF ClaimBytes
      <4>2. dtail' \in Nat
        BY DEF LogType
      <4>3. ASSUME NEW b \in 0..(dtail' - 1)
            PROVE  (IF b < dtail THEN owner[b] ELSE t) \in Threads
        <5>1. CASE b < dtail
          <6>1. b \in 0..(dtail - 1)
            BY <1>1, <4>2, <5>1
          <6>2. QED
            BY <1>1, <5>1, <6>1
        <5>2. QED
          BY <5>1
      <4>4. QED
        BY <4>1, <4>3
    <3>2. CASE owner' = owner /\ dtail' = dtail
      BY <1>1, <3>2
    <3>3. QED
      BY <1>3, <3>1, <3>2
      DEF Act, Step, Begin, ClaimIds, AllocBytes, ClaimId, SetOffLen, store, AppendRecord,
          AddEntry, SetEntry, LoadStreams, CheckAndAdd, StreamSet, End
  <2>4. /\ DOMAIN inserted' \subseteq 0..(current_write_id' - 1)
        /\ \A id \in DOMAIN inserted' : inserted'[id] \in [rec : Records, ns : 0..Len(streams')]
    <3>1. current_write_id' \in Nat /\ current_write_id <= current_write_id'
      BY <1>1, <1>3, WriteIdGrows
    <3>2. streams' = streams
      BY <1>3, ListActions
    <3>3. CASE inserted' = inserted
      BY <1>1, <3>1, <3>2, <3>3
    <3>4. ASSUME NEW id, NEW r, Gets(t, id, r)
          PROVE  /\ DOMAIN inserted' \subseteq 0..(current_write_id' - 1)
                 /\ \A x \in DOMAIN inserted' :
                      inserted'[x] \in [rec : Records, ns : 0..Len(streams')]
      <4>1. /\ id \in Nat /\ r \in Records /\ id < current_write_id'
            /\ DOMAIN inserted' = DOMAIN inserted \cup {id}
            /\ inserted'[id] = [rec |-> r, ns |-> Len(streams)]
            /\ \A x \in DOMAIN inserted : inserted'[x] = inserted[x]
        BY <3>4 DEF Gets
      <4>2. DOMAIN inserted' \subseteq 0..(current_write_id' - 1)
        BY <1>1, <3>1, <4>1
      <4>3. inserted'[id] \in [rec : Records, ns : 0..Len(streams')]
        BY <1>2, <3>2, <4>1
      <4>4. QED
        BY <1>1, <3>2, <4>1, <4>2, <4>3
    <3>5. QED
      BY <1>3, <3>3, <3>4, InsertedStep
  <2>5. QED
    BY <2>1, <2>2, <2>3, <2>4 DEF HistoryType
<1>4. CASE AddStream
  <2>1. UNCHANGED <<started, current_write_id, inserted, owner, overrun, dtail>>
    BY <1>4 DEF AddStream
  <2>2. ASSUME NEW id \in DOMAIN inserted
        PROVE  inserted[id] \in [rec : Records, ns : 0..Len(streams')]
    BY <1>1, <1>2
  <2>3. QED
    BY <1>1, <2>1, <2>2 DEF HistoryType
<1>5. CASE UNCHANGED vars
  BY <1>1, <1>5 DEF vars, store, HistoryType
<1>6. QED
  BY <1>3, <1>4, <1>5 DEF Next, Act


-----------------------------------------------------------------------------
(* Control                                                                 *)

\* The fields of a thread after a step.
Becomes(t, p, i, o, m, ns, s) ==
  /\ op'[t].pc = p /\ op'[t].rec = op[t].rec /\ op'[t].id = i /\ op'[t].off = o
  /\ op'[t].m = m /\ op'[t].ns = ns /\ op'[t].slot = s

LEMMA OpAfter ==
  ASSUME ThreadType, NEW t \in Threads
  PROVE  /\ ClaimIds(t) =>
              Becomes(t, ToBytes(handle[t].bytes, Rec(t)), current_write_id, handle[t].off,
                      op[t].m, op[t].ns, op[t].slot)
         /\ ClaimBytes(t) =>
              Becomes(t, "alloc_bytes", op[t].id, dtail, op[t].m, op[t].ns, op[t].slot)
         /\ AllocBytes(t) =>
              Becomes(t, IF t \in Handles THEN "append" ELSE "claim_id", op[t].id, op[t].off,
                      op[t].m, op[t].ns, op[t].slot)
         /\ ClaimId(t) =>
              Becomes(t, "set_offlen", current_write_id, op[t].off, op[t].m, op[t].ns,
                      op[t].slot)
         /\ SetOffLen(t) =>
              Becomes(t, IF t \in Handles THEN "end" ELSE "append", op[t].id, op[t].off,
                      op[t].m, op[t].ns, op[t].slot)
         /\ AppendRecord(t) =>
              Becomes(t, AfterTokens(0, Rec(t)), op[t].id, op[t].off, op[t].m, op[t].ns,
                      op[t].slot)
         /\ AddEntry(t) =>
              Becomes(t, "set", op[t].id, op[t].off, op[t].m, op[t].ns, Size(IndexKey(t)))
         /\ SetEntry(t) =>
              Becomes(t, AfterTokens(op[t].m + 1, Rec(t)), op[t].id, op[t].off, op[t].m + 1,
                      op[t].ns, op[t].slot)
         /\ \A m, ns : ToStream(t, m, ns) =>
              Becomes(t, IF m < ns THEN "check" ELSE AfterStreams(t), op[t].id, op[t].off,
                      m, ns, op[t].slot)
         /\ op' = [op EXCEPT ![t].pc = "add", ![t].slot = Size(StreamKey(t))] =>
              Becomes(t, "add", op[t].id, op[t].off, op[t].m, op[t].ns, Size(StreamKey(t)))
         /\ End(t) => op'[t].pc = "idle" /\ op'[t].m = 0 /\ op'[t].ns = 0
<1>1. op \in [Threads -> [pc : Labels, rec : Records \cup {Unset}, id : Nat, off : Nat,
                          m : Nat, ns : Nat, slot : Nat]]
  BY DEF ThreadType
<1>2. ClaimIds(t) =>
        Becomes(t, ToBytes(handle[t].bytes, Rec(t)), current_write_id, handle[t].off,
                op[t].m, op[t].ns, op[t].slot)
  BY <1>1 DEF ClaimIds, Becomes
<1>3. /\ ClaimBytes(t) =>
           Becomes(t, "alloc_bytes", op[t].id, dtail, op[t].m, op[t].ns, op[t].slot)
      /\ ClaimId(t) =>
           Becomes(t, "set_offlen", current_write_id, op[t].off, op[t].m, op[t].ns, op[t].slot)
  BY <1>1 DEF ClaimBytes, ClaimId, Becomes
<1>4. AllocBytes(t) =>
        Becomes(t, IF t \in Handles THEN "append" ELSE "claim_id", op[t].id, op[t].off,
                op[t].m, op[t].ns, op[t].slot)
  BY <1>1 DEF AllocBytes, Becomes
<1>5. SetOffLen(t) =>
        Becomes(t, IF t \in Handles THEN "end" ELSE "append", op[t].id, op[t].off,
                op[t].m, op[t].ns, op[t].slot)
  BY <1>1 DEF SetOffLen, Becomes
<1>6. AppendRecord(t) =>
        Becomes(t, AfterTokens(0, Rec(t)), op[t].id, op[t].off, op[t].m, op[t].ns, op[t].slot)
  BY <1>1 DEF AppendRecord, Becomes
<1>7. AddEntry(t) =>
        Becomes(t, "set", op[t].id, op[t].off, op[t].m, op[t].ns, Size(IndexKey(t)))
  BY <1>1 DEF AddEntry, Becomes
<1>8. op' = [op EXCEPT ![t].pc = "add", ![t].slot = Size(StreamKey(t))] =>
        Becomes(t, "add", op[t].id, op[t].off, op[t].m, op[t].ns, Size(StreamKey(t)))
  BY <1>1 DEF Becomes
<1>9. SetEntry(t) =>
        Becomes(t, AfterTokens(op[t].m + 1, Rec(t)), op[t].id, op[t].off, op[t].m + 1,
                op[t].ns, op[t].slot)
  BY <1>1 DEF SetEntry, Becomes
<1>10. ASSUME NEW m, NEW ns, ToStream(t, m, ns)
       PROVE  Becomes(t, IF m < ns THEN "check" ELSE AfterStreams(t), op[t].id, op[t].off,
                      m, ns, op[t].slot)
  BY <1>1, <1>10 DEF ToStream, Becomes
<1>11. End(t) => op'[t].pc = "idle" /\ op'[t].m = 0 /\ op'[t].ns = 0
  <2>1. End(t) => op'[t] = Idle
    BY <1>1 DEF End
  <2>2. QED
    BY <2>1 DEF Idle
<1>12. QED
  BY <1>2, <1>3, <1>4, <1>5, <1>6, <1>7, <1>8, <1>9, <1>10, <1>11

\* A call of insert.
LEMMA BeginAfter ==
  ASSUME ThreadType, NEW t \in Threads, Begin(t)
  PROVE  /\ op[t].pc = "idle"
         /\ op'[t].rec \in Records /\ op'[t].m = 0 /\ op'[t].ns = 0
         /\ \/ t \in Inserters /\ op'[t].pc = "claim_bytes" /\ inserted' = inserted
            \/ t \in Handles /\ op'[t].pc = "claim_ids" /\ inserted' = inserted
            \/ /\ t \in Handles /\ op'[t].pc \in {"claim_bytes", "append"}
               /\ op'[t].id = handle[t].id /\ op'[t].off = handle[t].off
               /\ handle[t].ids > 0
<1>1. op \in [Threads -> [pc : Labels, rec : Records \cup {Unset}, id : Nat, off : Nat,
                          m : Nat, ns : Nat, slot : Nat]]
  BY DEF ThreadType
<1>2. PICK r \in Records :
        \/ /\ t \in Inserters /\ inserted' = inserted
           /\ op' = [op EXCEPT ![t] = [Idle EXCEPT !.pc = "claim_bytes", !.rec = r]]
        \/ /\ t \in Handles /\ inserted' = inserted
           /\ op' = [op EXCEPT ![t] = [Idle EXCEPT !.pc = "claim_ids", !.rec = r]]
        \/ /\ t \in Handles /\ handle[t].ids > 0
           /\ op' = [op EXCEPT ![t] =
                      [Idle EXCEPT !.pc = ToBytes(handle[t].bytes, r), !.rec = r,
                                   !.id = handle[t].id, !.off = handle[t].off]]
  BY DEF Begin
<1>3. PICK p \in {"claim_bytes", "append"} : p = ToBytes(handle[t].bytes, r)
  BY DEF ToBytes
<1>4. op[t].pc = "idle"
  BY DEF Begin, At
<1>5. CASE /\ t \in Inserters /\ inserted' = inserted
           /\ op' = [op EXCEPT ![t] = [Idle EXCEPT !.pc = "claim_bytes", !.rec = r]]
  <2>1. op'[t] = [Idle EXCEPT !.pc = "claim_bytes", !.rec = r]
    BY <1>1, <1>5
  <2>2. QED
    BY <1>4, <1>5, <2>1 DEF Idle
<1>6. CASE /\ t \in Handles /\ inserted' = inserted
           /\ op' = [op EXCEPT ![t] = [Idle EXCEPT !.pc = "claim_ids", !.rec = r]]
  <2>1. op'[t] = [Idle EXCEPT !.pc = "claim_ids", !.rec = r]
    BY <1>1, <1>6
  <2>2. QED
    BY <1>4, <1>6, <2>1 DEF Idle
<1>7. CASE /\ t \in Handles /\ handle[t].ids > 0
           /\ op' = [op EXCEPT ![t] =
                      [Idle EXCEPT !.pc = ToBytes(handle[t].bytes, r), !.rec = r,
                                   !.id = handle[t].id, !.off = handle[t].off]]
  <2>1. op'[t] = [Idle EXCEPT !.pc = p, !.rec = r, !.id = handle[t].id, !.off = handle[t].off]
    BY <1>1, <1>3, <1>7
  <2>2. /\ op'[t].pc = p /\ op'[t].rec = r /\ op'[t].m = 0 /\ op'[t].ns = 0
        /\ op'[t].id = handle[t].id /\ op'[t].off = handle[t].off
    BY <2>1 DEF Idle
  <2>3. QED
    BY <1>3, <1>4, <1>7, <2>2
<1>8. QED
  BY <1>2, <1>5, <1>6, <1>7


\* The loops of an insert: each of its steps leaves its fields as the next one
\* expects them.
LEMMA OwnControl ==
  ASSUME TypeOK, ControlInv, PushInv, NEW t \in Threads, Act(t)
  PROVE  ControlOf(t)'
<1>1. /\ ThreadType /\ ControlOf(t) /\ op[t].m \in Nat /\ op[t].ns \in Nat
      /\ op[t] \in [pc : Labels, rec : Records \cup {Unset}, id : Nat, off : Nat,
                    m : Nat, ns : Nat, slot : Nat]
  BY DEF ControlInv, TypeOK, ThreadType
<1>2. streams' = streams /\ Len(streams) \in Nat
  <2>1. streams \in Seq(StreamFns)
    BY DEF TypeOK, ListType
  <2>2. streams' = streams
    BY ListActions
  <2>3. QED
    BY <2>1, <2>2
<1>3. t \in Inserters <=> t \notin Handles
  BY ThreadAssumption DEF Threads
<1>4. op[t].pc # "idle" => Rec(t) \in Records /\ Len(Rec(t).keys) \in Nat
  BY OwnRecord
<1>5. CASE Begin(t)
  BY <1>1, <1>2, <1>3, <1>5, BeginAfter DEF ControlOf, Appended, Listed, Rec
<1>6. ASSUME NEW p, NEW i, NEW o, NEW x, Becomes(t, p, i, o, op[t].m, op[t].ns, x)
      PROVE  /\ op'[t].pc = p /\ op'[t].rec = op[t].rec /\ op'[t].m = op[t].m
             /\ op'[t].ns = op[t].ns
  BY <1>6 DEF Becomes
<1>7. CASE ClaimIds(t)
  <2>1. PICK p : p = ToBytes(handle[t].bytes, Rec(t))
    OBVIOUS
  <2>2. op'[t].pc = p /\ op'[t].rec = op[t].rec /\ op'[t].m = op[t].m /\ op'[t].ns = op[t].ns
    BY <1>1, <1>6, <1>7, <2>1, OpAfter
  <2>3. p \in {"claim_bytes", "append"}
    BY <2>1 DEF ToBytes
  <2>4. op[t].pc = "claim_ids"
    BY <1>7 DEF ClaimIds, At
  <2>5. QED
    BY <1>1, <1>2, <1>3, <1>4, <2>2, <2>3, <2>4 DEF ControlOf, Appended, Listed, Rec
<1>8. CASE ClaimBytes(t)
  <2>1. op'[t].pc = "alloc_bytes" /\ op'[t].rec = op[t].rec /\ op'[t].m = op[t].m
        /\ op'[t].ns = op[t].ns
    BY <1>1, <1>6, <1>8, OpAfter
  <2>2. op[t].pc = "claim_bytes"
    BY <1>8 DEF ClaimBytes, At
  <2>3. QED
    BY <1>1, <1>2, <1>3, <1>4, <2>1, <2>2 DEF ControlOf, Appended, Listed, Rec
<1>9. CASE AllocBytes(t)
  <2>1. PICK p : p = IF t \in Handles THEN "append" ELSE "claim_id"
    OBVIOUS
  <2>2. op'[t].pc = p /\ op'[t].rec = op[t].rec /\ op'[t].m = op[t].m /\ op'[t].ns = op[t].ns
    BY <1>1, <1>6, <1>9, <2>1, OpAfter
  <2>3. op[t].pc = "alloc_bytes"
    BY <1>9 DEF AllocBytes, At
  <2>4. QED
    BY <1>1, <1>2, <1>3, <1>4, <2>1, <2>2, <2>3 DEF ControlOf, Appended, Listed, Rec
<1>10. CASE ClaimId(t)
  <2>1. op'[t].pc = "set_offlen" /\ op'[t].rec = op[t].rec /\ op'[t].m = op[t].m
        /\ op'[t].ns = op[t].ns
    BY <1>1, <1>6, <1>10, OpAfter
  <2>2. op[t].pc = "claim_id"
    BY <1>10 DEF ClaimId, At
  <2>3. QED
    BY <1>1, <1>2, <1>3, <1>4, <2>1, <2>2 DEF ControlOf, Appended, Listed, Rec
<1>11. CASE SetOffLen(t)
  <2>1. PICK p : p = IF t \in Handles THEN "end" ELSE "append"
    OBVIOUS
  <2>2. op'[t].pc = p /\ op'[t].rec = op[t].rec /\ op'[t].m = op[t].m /\ op'[t].ns = op[t].ns
    BY <1>1, <1>6, <1>11, <2>1, OpAfter
  <2>3. op[t].pc = "set_offlen"
    BY <1>11 DEF SetOffLen, At
  <2>4. QED
    BY <1>1, <1>2, <1>3, <1>4, <2>1, <2>2, <2>3 DEF ControlOf, Appended, Listed, Rec
<1>12. CASE AppendRecord(t)
  <2>1. PICK p : p = AfterTokens(0, Rec(t))
    OBVIOUS
  <2>2. op'[t].pc = p /\ op'[t].rec = op[t].rec /\ op'[t].m = op[t].m /\ op'[t].ns = op[t].ns
    BY <1>1, <1>6, <1>12, <2>1, OpAfter
  <2>3. op[t].pc = "append" /\ op[t].m = 0
    BY <1>1, <1>12 DEF AppendRecord, At, ControlOf, Appended, Listed
  <2>4. (p = "reserve" /\ 0 < Len(Rec(t).keys)) \/ p = "load_streams"
    BY <2>1 DEF AfterTokens
  <2>5. QED
    BY <1>1, <1>2, <1>3, <1>4, <2>2, <2>3, <2>4 DEF ControlOf, Appended, Listed, Rec
<1>13. CASE AddEntry(t)
  <2>1. op'[t].pc = "set" /\ op'[t].rec = op[t].rec /\ op'[t].m = op[t].m
        /\ op'[t].ns = op[t].ns
    BY <1>1, <1>6, <1>13, OpAfter
  <2>2. op[t].pc = "reserve"
    BY <1>13 DEF AddEntry, At
  <2>3. QED
    BY <1>1, <1>2, <1>3, <1>4, <2>1, <2>2 DEF ControlOf, Appended, Listed, Rec
<1>14. CASE SetEntry(t)
  <2>1. PICK p : p = AfterTokens(op[t].m + 1, Rec(t))
    OBVIOUS
  <2>2. /\ op'[t].pc = p /\ op'[t].rec = op[t].rec /\ op'[t].m = op[t].m + 1
        /\ op'[t].ns = op[t].ns
    BY <1>1, <1>14, <2>1, OpAfter DEF Becomes
  <2>3. op[t].pc = "set"
    BY <1>14 DEF SetEntry, At
  <2>4. \/ p = "reserve" /\ op[t].m + 1 < Len(Rec(t).keys)
        \/ p = "load_streams"
    BY <2>1 DEF AfterTokens
  <2>5. QED
    BY <1>1, <1>2, <1>3, <1>4, <2>2, <2>3, <2>4 DEF ControlOf, Appended, Listed, Rec
<1>15. ASSUME NEW m \in Nat, NEW ns \in Nat, ns <= Len(streams), ToStream(t, m, ns),
              op[t].pc # "idle"
       PROVE  ControlOf(t)'
  <2>1. PICK p : p = IF m < ns THEN "check" ELSE AfterStreams(t)
    OBVIOUS
  <2>2. op'[t].pc = p /\ op'[t].rec = op[t].rec /\ op'[t].m = m /\ op'[t].ns = ns
    <3>1. Becomes(t, p, op[t].id, op[t].off, m, ns, op[t].slot)
      BY <1>1, <1>15, <2>1, OpAfter
    <3>2. QED
      BY <3>1 DEF Becomes
  <2>3. \/ p = "check" /\ m < ns
        \/ p = "end"
        \/ p = "set_offlen" /\ t \in Handles
    BY <2>1 DEF AfterStreams
  <2>4. QED
    BY <1>1, <1>2, <1>3, <1>4, <1>15, <2>2, <2>3 DEF ControlOf, Appended, Listed, Rec
<1>16. CASE LoadStreams(t)
  BY <1>2, <1>15, <1>16 DEF LoadStreams, At
<1>17. ASSUME ToStream(t, op[t].m + 1, op[t].ns), op[t].pc # "idle"
       PROVE  ControlOf(t)'
  <2>1. PICK m \in Nat : m = op[t].m + 1
    BY <1>1
  <2>2. ToStream(t, m, op[t].ns) /\ op[t].ns <= Len(streams)
    BY <1>1, <1>17, <2>1 DEF ControlOf
  <2>3. QED
    BY <1>1, <1>15, <1>17, <2>2
<1>18. CASE StreamSet(t)
  BY <1>17, <1>18 DEF StreamSet, At
<1>19. CASE CheckAndAdd(t)
  <2>1. CASE ToStream(t, op[t].m + 1, op[t].ns)
    BY <1>17, <1>19, <2>1 DEF CheckAndAdd, At
  <2>2. CASE /\ Rec(t) \in streams[op[t].m + 1]
             /\ op' = [op EXCEPT ![t].pc = "add", ![t].slot = Size(StreamKey(t))]
    <3>1. op'[t].pc = "add" /\ op'[t].rec = op[t].rec /\ op'[t].m = op[t].m
          /\ op'[t].ns = op[t].ns
      BY <1>1, <1>6, <2>2, OpAfter
    <3>2. op[t].pc = "check"
      BY <1>19 DEF CheckAndAdd, At
    <3>3. QED
      BY <1>1, <1>2, <1>3, <1>4, <2>2, <3>1, <3>2 DEF ControlOf, Appended, Listed, Rec
  <2>3. QED
    BY <1>19, <2>1, <2>2 DEF CheckAndAdd
<1>20. CASE End(t)
  <2>1. op'[t].pc = "idle" /\ op'[t].m = 0 /\ op'[t].ns = 0
    BY <1>1, <1>20, OpAfter
  <2>2. QED
    BY <1>2, <2>1 DEF ControlOf
<1>21. QED
  BY <1>5, <1>7, <1>8, <1>9, <1>10, <1>11, <1>12, <1>13, <1>14, <1>16, <1>18, <1>19, <1>20
  DEF Act, Step

\* Control is kept.
LEMMA ControlStep ==
  ASSUME TypeOK, ControlInv, PushInv, [Next]_vars
  PROVE  ControlInv'
<1>1. SUFFICES ASSUME NEW u \in Threads
               PROVE  ControlOf(u)'
  BY DEF ControlInv
<1>2. /\ ControlOf(u) /\ op[u].m \in Nat /\ op[u].ns \in Nat
  BY OpFields DEF ControlInv, TypeOK
<1>3. ASSUME op'[u] = op[u]
      PROVE  ControlOf(u)'
  <2>1. /\ Len(streams) \in Nat /\ Len(streams') \in Nat
        /\ Len(streams) <= Len(streams')
        /\ \A s \in 1..Len(streams) : streams'[s] = streams[s]
    BY StreamsGrow
  <2>2. op[u].pc = "add" => streams'[op[u].m + 1] = streams[op[u].m + 1]
    BY <1>2, <2>1 DEF ControlOf
  <2>3. QED
    BY <1>2, <1>3, <2>1, <2>2 DEF ControlOf, Appended, Listed, Rec
<1>4. ASSUME NEW t \in Threads, Act(t)
      PROVE  ControlOf(u)'
  <2>1. CASE u = t
    BY <1>4, <2>1, OwnControl
  <2>2. CASE u # t
    BY <1>3, <1>4, <2>2, Locality DEF TypeOK
  <2>3. QED
    BY <2>1, <2>2
<1>5. CASE AddStream
  BY <1>3, <1>5 DEF AddStream
<1>6. CASE UNCHANGED vars
  BY <1>3, <1>6 DEF vars
<1>7. QED
  BY <1>4, <1>5, <1>6 DEF Next, Act


-----------------------------------------------------------------------------
(* Ids                                                                     *)

\* Every other step leaves the ids of its thread alone.
LEMMA MiddleStep ==
  ASSUME TypeOK, ControlInv, IdInv, NEW t \in Threads, Act(t), inserted' = inserted, ~End(t)
  PROVE  /\ HasId(t)' <=> HasId(t)
         /\ HasId(t) => op'[t].id = op[t].id
         /\ ~Begin(t) => op'[t].rec = op[t].rec
         /\ HasId(t) => ~Begin(t)
         /\ t \in Handles => handle'[t].id = handle[t].id /\ handle'[t].ids = handle[t].ids
         /\ current_write_id' = current_write_id
         /\ current_read_id' = current_read_id
<1>1. ThreadType /\ op[t].pc \in Labels /\ (t \in Inserters <=> t \notin Handles)
  BY ThreadAssumption, OpFields DEF TypeOK, Threads
<1>2. ~ClaimIds(t) /\ ~ClaimId(t)
  <2>1. current_write_id \notin DOMAIN inserted
    BY DEF TypeOK, HistoryType, LogType
  <2>2. ClaimIds(t) \/ ClaimId(t) => current_write_id \in DOMAIN inserted'
    BY DEF ClaimIds, ClaimId, Assign
  <2>3. QED
    BY <2>1, <2>2
<1>3. CASE Begin(t)
  <2>1. op[t].pc = "idle" /\ op'[t].pc \in {"claim_bytes", "claim_ids", "append"}
    BY <1>1, <1>3, BeginAfter
  <2>2. UNCHANGED <<handle, current_write_id, current_read_id>>
    BY <1>3 DEF Begin, store
  <2>3. ~HasId(t)
    BY <2>1 DEF HasId
  <2>4. ~HasId(t)'
    <3>1. CASE t \in Inserters
      BY <1>1, <1>3, <3>1, BeginAfter DEF HasId
    <3>2. CASE t \in Handles /\ op'[t].pc = "claim_ids"
      BY <3>2 DEF HasId
    <3>3. CASE t \in Handles /\ op'[t].pc # "claim_ids"
      <4>1. handle[t].ids > 0 /\ handle[t].id \notin DOMAIN inserted
        <5>1. handle[t].ids > 0
          BY <1>1, <1>3, <3>3, BeginAfter
        <5>2. /\ handle[t].id \in Nat /\ handle[t].ids \in Nat /\ current_write_id \in Nat
              /\ handle[t].id + handle[t].ids <= current_write_id
          BY <1>1, <3>3, OpFields DEF IdInv, IdOf, TypeOK, LogType
        <5>3. handle[t].id \in HeldIds(t)
          BY <3>3, <5>1, <5>2 DEF HeldIds
        <5>4. QED
          BY <2>3, <5>1, <5>3 DEF IdInv, IdOf
      <4>2. PICK r \in Records : handle[t].ids = 0 \/ Assign(handle[t].id, r)
        BY <1>1, <1>3, <3>3 DEF Begin
      <4>3. handle[t].id \in DOMAIN inserted'
        BY <4>1, <4>2 DEF Assign
      <4>4. QED
        BY <4>1, <4>3
    <3>4. QED
      BY <1>1, <3>1, <3>2, <3>3
  <2>5. QED
    BY <1>3, <2>2, <2>3, <2>4
<1>4. ASSUME NEW p, NEW i, NEW o, NEW m, NEW ns, NEW s, Becomes(t, p, i, o, m, ns, s)
      PROVE  op'[t].pc = p /\ op'[t].id = i /\ op'[t].rec = op[t].rec
  BY <1>4 DEF Becomes
<1>5. CASE Step(t)
  <2>1. op'[t].id = op[t].id /\ op'[t].rec = op[t].rec
    BY <1>1, <1>2, <1>4, <1>5, OpAfter DEF Step, LoadStreams, StreamSet, CheckAndAdd
  <2>2. HasId(t)' <=> HasId(t)
    <3>1. CASE ClaimBytes(t)
      <4>1. op[t].pc = "claim_bytes" /\ op'[t].pc = "alloc_bytes"
        BY <1>1, <1>4, <3>1, OpAfter DEF ClaimBytes, At
      <4>2. QED
        BY <4>1 DEF HasId
    <3>2. CASE AllocBytes(t)
      <4>1. op[t].pc = "alloc_bytes"
            /\ op'[t].pc = IF t \in Handles THEN "append" ELSE "claim_id"
        BY <1>1, <1>4, <3>2, OpAfter DEF AllocBytes, At
      <4>2. QED
        BY <1>1, <4>1 DEF HasId
    <3>3. CASE SetOffLen(t)
      <4>1. op[t].pc = "set_offlen" /\ op'[t].pc \in {"end", "append"}
        BY <1>1, <1>4, <3>3, OpAfter DEF SetOffLen, At
      <4>2. QED
        BY <4>1 DEF HasId
    <3>4. CASE AppendRecord(t) \/ SetEntry(t)
      <4>1. op[t].pc \in {"append", "set"}
            /\ \E m : op'[t].pc = AfterTokens(m, Rec(t))
        BY <1>1, <1>4, <3>4, OpAfter DEF AppendRecord, SetEntry, At
      <4>2. QED
        BY <4>1 DEF HasId, AfterTokens
    <3>5. CASE AddEntry(t)
      <4>1. op[t].pc = "reserve" /\ op'[t].pc = "set"
        BY <1>1, <1>4, <3>5, OpAfter DEF AddEntry, At
      <4>2. QED
        BY <4>1 DEF HasId
    <3>6. CASE LoadStreams(t) \/ StreamSet(t) \/ CheckAndAdd(t)
      <4>1. op[t].pc \in {"load_streams", "add", "check"}
        BY <3>6 DEF LoadStreams, StreamSet, CheckAndAdd, At
      <4>2. ASSUME NEW m, NEW ns, ToStream(t, m, ns)
            PROVE  op'[t].pc \in {"check", AfterStreams(t)}
        <5>1. Becomes(t, IF m < ns THEN "check" ELSE AfterStreams(t), op[t].id, op[t].off,
                      m, ns, op[t].slot)
          BY <1>1, <4>2, OpAfter
        <5>2. QED
          BY <5>1 DEF Becomes
      <4>3. op' = [op EXCEPT ![t].pc = "add", ![t].slot = Size(StreamKey(t))] =>
              op'[t].pc = "add"
        BY <1>1, <1>4, OpAfter
      <4>4. op'[t].pc \in {"check", "add", "set_offlen", "end"}
        BY <3>6, <4>2, <4>3 DEF LoadStreams, StreamSet, CheckAndAdd, AfterStreams
      <4>5. QED
        BY <4>1, <4>4 DEF HasId
    <3>7. QED
      BY <1>2, <1>5, <3>1, <3>2, <3>3, <3>4, <3>5, <3>6 DEF Step
  <2>3. UNCHANGED <<current_write_id, current_read_id>>
    BY <1>2, <1>5
    DEF Step, ClaimBytes, AllocBytes, SetOffLen, AppendRecord, AddEntry, SetEntry, store,
        LoadStreams, CheckAndAdd, StreamSet
  <2>4. t \in Handles => handle'[t].id = handle[t].id /\ handle'[t].ids = handle[t].ids
    <3>1. CASE ClaimBytes(t)
      BY <1>1, <3>1 DEF ClaimBytes, ThreadType
    <3>2. QED
      BY <1>2, <1>5, <3>1
      DEF Step, AllocBytes, SetOffLen, AppendRecord, AddEntry, SetEntry,
          LoadStreams, CheckAndAdd, StreamSet
  <2>5. HasId(t) => ~Begin(t)
    BY DEF HasId, Begin, At
  <2>6. QED
    BY <2>1, <2>2, <2>3, <2>4, <2>5
<1>6. QED
  BY <1>3, <1>5 DEF Act


\* The ids a thread holds after its step are those it held, without the one it
\* publishes, or ones just claimed.
LEMMA OwnHeld ==
  ASSUME TypeOK, ControlInv, IdInv, NEW t \in Threads, Act(t), NEW id \in HeldIds(t)'
  PROVE  /\ id \in HeldIds(t) \/ (current_write_id <= id /\ id < current_write_id')
         /\ End(t) => id \in HeldIds(t) /\ id # op[t].id
<1>1. /\ ThreadType /\ current_write_id \in Nat /\ (t \in Inserters <=> t \notin Handles)
      /\ current_write_id' \in Nat
  BY ThreadAssumption, WriteIdGrows DEF TypeOK, LogType, Threads
<1>2. /\ id \in 0..(current_write_id' - 1) /\ id \in Nat /\ id < current_write_id'
      /\ \/ t \in Handles /\ handle'[t].id <= id /\ id < handle'[t].id + handle'[t].ids
         \/ t \in Inserters /\ HasId(t)' /\ id = op'[t].id
  <2>1. PICK d : d = current_write_id'
    OBVIOUS
  <2>2. /\ id \in 0..(d - 1)
        /\ \/ t \in Handles /\ handle'[t].id <= id /\ id < handle'[t].id + handle'[t].ids
           \/ t \in Inserters /\ HasId(t)' /\ id = op'[t].id
    BY <2>1 DEF HeldIds
  <2>3. d \in Nat
    BY <1>1, <2>1
  <2>4. id \in Nat /\ id < d
    BY <2>2, <2>3
  <2>5. QED
    BY <2>1, <2>2, <2>4
<1>3. CASE End(t)
  <2>1. current_write_id' = current_write_id /\ HasId(t) /\ ~HasId(t)'
    BY <1>1, <1>3, OpAfter DEF End, HasId, At
  <2>2. t \in Handles
    BY <1>1, <1>2, <2>1
  <2>3. handle'[t].id = handle[t].id + 1 /\ handle'[t].ids = handle[t].ids - 1
    BY <1>1, <1>3, <2>2 DEF End, ThreadType
  <2>4. handle[t].id \in Nat /\ handle[t].ids \in Nat /\ op[t].id = handle[t].id
    BY <1>1, <2>1, <2>2, OpFields, OwnId
  <2>5. /\ id \in 0..(current_write_id - 1) /\ handle[t].id <= id
        /\ id < handle[t].id + handle[t].ids /\ id # op[t].id
    BY <1>1, <1>2, <2>1, <2>2, <2>3, <2>4
  <2>6. QED
    BY <2>2, <2>5 DEF HeldIds
<1>4. CASE ~End(t) /\ inserted' = inserted
  <2>1. /\ HasId(t)' <=> HasId(t)
        /\ HasId(t) => op'[t].id = op[t].id
        /\ t \in Handles => handle'[t].id = handle[t].id /\ handle'[t].ids = handle[t].ids
        /\ current_write_id' = current_write_id
    BY <1>4, MiddleStep
  <2>2. id \in HeldIds(t)
    BY <1>2, <2>1 DEF HeldIds
  <2>3. QED
    BY <1>4, <2>2
<1>5. ASSUME NEW i, NEW r, Gets(t, i, r), ~End(t)
      PROVE  id \in HeldIds(t) \/ (current_write_id <= id /\ id < current_write_id')
  <2>1. CASE ClaimIds(t)
    <3>1. t \in Handles
      BY <2>1 DEF ClaimIds, At, ControlInv, ControlOf
    <3>2. handle'[t].id = current_write_id
      BY <1>1, <2>1, <3>1 DEF ClaimIds, ThreadType
    <3>3. QED
      BY <1>1, <1>2, <3>1, <3>2
  <2>2. CASE ClaimId(t)
    <3>1. t \in Inserters
      BY <2>2 DEF ClaimId, At, ControlInv, ControlOf
    <3>2. op'[t].id = current_write_id
      BY <1>1, <2>2, OpAfter DEF Becomes
    <3>3. QED
      BY <1>1, <1>2, <3>1, <3>2
  <2>3. CASE Begin(t)
    <3>1. handle' = handle /\ current_write_id' = current_write_id /\ inserted' # inserted
      BY <1>5, <2>3 DEF Begin, store, Gets
    <3>2. t \in Handles
      BY <1>1, <2>3, <3>1, BeginAfter
    <3>3. QED
      BY <1>1, <1>2, <3>1, <3>2 DEF HeldIds
  <2>4. inserted' # inserted
    BY <1>5 DEF Gets
  <2>5. QED
    BY <1>5, <2>1, <2>2, <2>3, <2>4
    DEF Act, Step, ClaimBytes, AllocBytes, SetOffLen, AppendRecord, AddEntry, SetEntry,
        LoadStreams, CheckAndAdd, StreamSet
<1>6. End(t) => inserted' = inserted
  BY DEF End
<1>7. QED
  BY <1>3, <1>4, <1>5, <1>6, InsertedStep

\* The ids of another thread are not touched.
LEMMA OtherHeld ==
  ASSUME TypeOK, IdInv, NEW t \in Threads, Act(t), NEW u \in Threads, u # t
  PROVE  HeldIds(u)' = HeldIds(u) /\ HasId(u)' = HasId(u)
<1>1. op'[u] = op[u] /\ (u \in Handles => handle'[u] = handle[u])
  BY Locality DEF TypeOK
<1>2. HasId(u)' = HasId(u)
  BY <1>1 DEF HasId
<1>3. /\ current_write_id \in Nat /\ current_write_id' \in Nat
      /\ current_write_id <= current_write_id'
  BY WriteIdGrows DEF TypeOK, LogType
<1>4. /\ u \in Handles => /\ handle[u].id + handle[u].ids <= current_write_id
                          /\ handle[u].id \in Nat /\ handle[u].ids \in Nat
      /\ HasId(u) => op[u].id \in Nat /\ op[u].id < current_write_id
  BY OpFields, OwnId DEF IdInv, IdOf, TypeOK
<1>5. ASSUME NEW id
      PROVE  id \in HeldIds(u)' <=> id \in HeldIds(u)
  <2>1. /\ u \in Handles /\ id \in Nat /\ id < handle[u].id + handle[u].ids =>
             id < current_write_id
    BY <1>3, <1>4
  <2>2. id \in HeldIds(u)' => id \in HeldIds(u)
    BY <1>1, <1>2, <1>3, <1>4, <2>1 DEF HeldIds
  <2>3. id \in HeldIds(u) => id \in HeldIds(u)'
    BY <1>1, <1>2, <1>3 DEF HeldIds
  <2>4. QED
    BY <2>2, <2>3
<1>6. QED
  BY <1>2, <1>5

\* The id of an insert that gets one.
LEMMA OwnGets ==
  ASSUME TypeOK, ControlInv, IdInv, NEW t \in Threads, Act(t), NEW id, NEW r, Gets(t, id, r)
  PROVE  IdOf(t)'
<1>1. /\ ThreadType /\ current_write_id \in Nat /\ (t \in Inserters <=> t \notin Handles)
      /\ current_write_id' \in Nat /\ current_write_id <= current_write_id'
      /\ DOMAIN inserted \subseteq 0..(current_write_id - 1)
      /\ current_read_id \in 0..current_write_id
  BY ThreadAssumption, WriteIdGrows DEF TypeOK, LogType, HistoryType, Threads
<1>2. /\ id \in Nat /\ id < current_write_id' /\ HasId(t)' /\ ~HasId(t) /\ op'[t].id = id
      /\ op'[t].rec = r /\ id \in DOMAIN inserted' /\ inserted'[id].rec = r
      /\ inserted' # inserted /\ current_read_id' = current_read_id
      /\ DOMAIN inserted' = DOMAIN inserted \cup {id} /\ ~End(t)
  <2>1. inserted'[id] = [rec |-> r, ns |-> Len(streams)]
    BY DEF Gets
  <2>2. inserted'[id].rec = r
    BY <2>1
  <2>3. End(t) => inserted' = inserted
    BY DEF End
  <2>4. QED
    BY <2>2, <2>3 DEF Gets
<1>3. \/ ClaimIds(t) \/ ClaimId(t) \/ Begin(t)
  BY <1>2
  DEF Act, Step, ClaimBytes, AllocBytes, SetOffLen, AppendRecord, AddEntry, SetEntry,
      LoadStreams, CheckAndAdd, StreamSet
<1>4. t \in Handles => /\ op'[t].id = handle'[t].id /\ handle'[t].ids \in Nat \ {0}
                       /\ handle'[t].id + handle'[t].ids <= current_write_id'
  <2>1. CASE ClaimIds(t) /\ t \in Handles
    <3>1. /\ handle'[t].id = current_write_id /\ handle'[t].ids = IdBlock
          /\ current_write_id' = current_write_id + IdBlock
      BY <1>1, <2>1 DEF ClaimIds, ThreadType
    <3>2. op'[t].id = current_write_id
      BY <1>1, <2>1, OpAfter DEF Becomes
    <3>3. QED
      BY <1>1, <3>1, <3>2, BlockAssumption
  <2>2. CASE ClaimId(t)
    BY <1>1, <2>2 DEF ClaimId, At, ControlInv, ControlOf
  <2>3. CASE Begin(t) /\ t \in Handles
    <3>1. handle' = handle /\ current_write_id' = current_write_id
      BY <2>3 DEF Begin, store
    <3>2. handle[t].ids > 0 /\ op'[t].id = handle[t].id
      BY <1>1, <1>2, <2>3, BeginAfter
    <3>3. handle[t].ids \in Nat /\ handle[t].id + handle[t].ids <= current_write_id
      BY <1>1, <2>3, OpFields DEF IdInv, IdOf
    <3>4. QED
      BY <1>1, <3>1, <3>2, <3>3
  <2>4. QED
    BY <1>3, <2>1, <2>2, <2>3
<1>5. id \in HeldIds(t)'
  <2>1. id \in 0..(current_write_id' - 1)
    <3>1. PICK d : d = current_write_id'
      OBVIOUS
    <3>2. id \in Nat /\ id < d /\ d \in Nat
      BY <1>1, <1>2, <3>1
    <3>3. id \in 0..(d - 1)
      BY <3>2
    <3>4. QED
      BY <3>1, <3>3
  <2>2. CASE t \in Handles
    <3>1. handle'[t].id <= id /\ id < handle'[t].id + handle'[t].ids
      BY <1>2, <1>4, <2>2
    <3>2. QED
      BY <2>1, <2>2, <3>1 DEF HeldIds
  <2>3. CASE t \in Inserters
    BY <1>2, <2>1, <2>3 DEF HeldIds
  <2>4. QED
    BY <1>1, <2>2, <2>3
<1>6. ASSUME NEW i \in HeldIds(t)'
      PROVE  /\ current_read_id' <= i
             /\ i \in DOMAIN inserted' => i = id
  <2>1. i \in HeldIds(t) \/ (current_write_id <= i /\ i < current_write_id')
    BY OwnHeld
  <2>2. CASE i \in HeldIds(t)
    BY <1>2, <2>2 DEF IdInv, IdOf
  <2>3. CASE current_write_id <= i /\ i < current_write_id'
    <3>1. i \in Nat
      BY DEF HeldIds
    <3>2. QED
      BY <1>1, <1>2, <2>3, <3>1
  <2>4. QED
    BY <2>1, <2>2, <2>3
<1>7. QED
  BY <1>2, <1>4, <1>5, <1>6 DEF IdOf, Rec


\* What an id stands for does not change once it stands for something.
LEMMA InsertedKept ==
  ASSUME TypeOK, ControlInv, IdInv, NEW t \in Threads, Act(t)
  PROVE  /\ DOMAIN inserted \subseteq DOMAIN inserted'
         /\ \A x \in DOMAIN inserted : inserted'[x] = inserted[x]
         /\ \A u \in Threads : \A x \in HeldIds(u) :
              u # t /\ x \in DOMAIN inserted' => x \in DOMAIN inserted
<1>1. CASE inserted' = inserted
  BY <1>1
<1>2. ASSUME NEW id, NEW r, Gets(t, id, r)
      PROVE  /\ DOMAIN inserted \subseteq DOMAIN inserted'
             /\ \A x \in DOMAIN inserted : inserted'[x] = inserted[x]
             /\ \A u \in Threads : \A x \in HeldIds(u) :
                  u # t /\ x \in DOMAIN inserted' => x \in DOMAIN inserted
  BY <1>2 DEF Gets
<1>3. QED
  BY <1>1, <1>2, InsertedStep

\* The ids of all threads stay apart and unpublished.
LEMMA IdStep ==
  ASSUME TypeOK, ControlInv, IdInv, [Next]_vars
  PROVE  IdInv'
<1>1. /\ current_write_id \in Nat /\ current_read_id \in 0..current_write_id
      /\ DOMAIN inserted \subseteq 0..(current_write_id - 1)
  BY DEF TypeOK, LogType, HistoryType
<1>2. ASSUME NEW t \in Threads, Act(t)
      PROVE  IdInv'
  <2>1. /\ DOMAIN inserted \subseteq DOMAIN inserted'
        /\ \A x \in DOMAIN inserted : inserted'[x] = inserted[x]
        /\ \A u \in Threads : \A x \in HeldIds(u) :
             u # t /\ x \in DOMAIN inserted' => x \in DOMAIN inserted
    BY <1>2, InsertedKept
  <2>2. /\ current_write_id' \in Nat /\ current_write_id <= current_write_id'
    BY <1>1, <1>2, WriteIdGrows
  <2>3. ASSUME NEW u \in Threads, u # t
        PROVE  IdOf(u)'
    <3>1. /\ op'[u] = op[u] /\ (u \in Handles => handle'[u] = handle[u])
          /\ HeldIds(u)' = HeldIds(u) /\ HasId(u)' = HasId(u)
      BY <1>2, <2>3, Locality, OtherHeld DEF TypeOK
    <3>2. IdOf(u)
      BY DEF IdInv
    <3>3. HasId(u) =>
            /\ op[u].id \in DOMAIN inserted'
            /\ inserted'[op[u].id].rec = Rec(u)
      BY <2>1, <3>2 DEF IdOf
    <3>4. u \in Handles => handle[u].id + handle[u].ids <= current_write_id'
      <4>1. u \in Handles => handle[u].id \in Nat /\ handle[u].ids \in Nat
        BY OpFields DEF TypeOK
      <4>2. QED
        BY <1>1, <2>2, <3>2, <4>1 DEF IdOf
    <3>5. ASSUME NEW i \in HeldIds(u)
          PROVE  /\ current_read_id' <= i
                 /\ i \in DOMAIN inserted' => HasId(u) /\ i = op[u].id
      <4>1. current_read_id <= i /\ (i \in DOMAIN inserted => HasId(u) /\ i = op[u].id)
        BY <3>2 DEF IdOf
      <4>2. i \in Nat
        BY DEF HeldIds
      <4>3. End(t) => i # op[t].id
        <5>1. End(t) => HasId(t)
          BY DEF End, At, HasId
        <5>2. End(t) => op[t].id \in HeldIds(t)
          BY <5>1, OwnId
        <5>3. QED
          BY <2>3, <5>2 DEF IdInv
      <4>4. current_read_id' <= i
        BY <1>1, <1>2, <4>1, <4>2, <4>3, EndStep
      <4>5. QED
        BY <2>1, <2>3, <4>1, <4>4
    <3>6. QED
      BY <3>1, <3>2, <3>3, <3>4, <3>5 DEF IdOf, Rec
  <2>4. IdOf(t)'
    <3>1. IdOf(t)
      BY DEF IdInv
    <3>2. ASSUME NEW id, NEW r, Gets(t, id, r)
          PROVE  IdOf(t)'
      BY <1>2, <3>2, OwnGets
    <3>3. CASE End(t)
      <4>1. /\ HasId(t) /\ ~HasId(t)' /\ inserted' = inserted
            /\ current_write_id' = current_write_id
            /\ current_read_id = op[t].id /\ current_read_id' = current_read_id + 1
        BY <3>3, OpAfter DEF End, At, HasId, TypeOK
      <4>2. t \in Handles => handle'[t].id + handle'[t].ids <= current_write_id'
        <5>1. SUFFICES ASSUME t \in Handles
                       PROVE  handle'[t].id + handle'[t].ids <= current_write_id'
          OBVIOUS
        <5>2. handle'[t].id = handle[t].id + 1 /\ handle'[t].ids = handle[t].ids - 1
          BY <3>3, <5>1 DEF End, TypeOK, ThreadType
        <5>3. handle[t].id \in Nat /\ handle[t].ids \in Nat
          BY <5>1, OpFields DEF TypeOK
        <5>4. QED
          BY <1>1, <3>1, <4>1, <5>1, <5>2, <5>3 DEF IdOf
      <4>3. ASSUME NEW i \in HeldIds(t)'
            PROVE  current_read_id' <= i /\ i \notin DOMAIN inserted'
        <5>1. i \in HeldIds(t) /\ i # op[t].id
          BY <1>2, <3>3, OwnHeld
        <5>2. i \in Nat /\ current_read_id <= i
          BY <3>1, <5>1 DEF HeldIds, IdOf
        <5>3. QED
          BY <1>1, <3>1, <4>1, <5>1, <5>2 DEF IdOf
      <4>4. QED
        BY <4>1, <4>2, <4>3 DEF IdOf
    <3>4. CASE ~End(t) /\ inserted' = inserted
      <4>1. /\ HasId(t)' <=> HasId(t)
            /\ HasId(t) => op'[t].id = op[t].id /\ op'[t].rec = op[t].rec
            /\ t \in Handles => handle'[t].id = handle[t].id /\ handle'[t].ids = handle[t].ids
            /\ current_write_id' = current_write_id /\ current_read_id' = current_read_id
        BY <1>2, <3>4, MiddleStep
      <4>2. HeldIds(t)' = HeldIds(t)
        BY <4>1 DEF HeldIds
      <4>3. QED
        BY <3>1, <3>4, <4>1, <4>2 DEF IdOf, Rec
    <3>5. QED
      BY <1>2, <3>2, <3>3, <3>4, InsertedStep
  <2>5. ASSUME NEW u \in Threads, u # t
        PROVE  HeldIds(t)' \cap HeldIds(u)' = {}
    <3>1. HeldIds(u)' = HeldIds(u)
      BY <1>2, <2>5, OtherHeld
    <3>2. ASSUME NEW i \in HeldIds(t)', i \in HeldIds(u)
          PROVE  FALSE
      <4>1. i \in HeldIds(t) \/ current_write_id <= i
        BY <1>2, OwnHeld
      <4>2. i \in 0..(current_write_id - 1)
        BY <3>2 DEF HeldIds
      <4>3. QED
        BY <1>1, <2>5, <3>2, <4>1, <4>2 DEF IdInv
    <3>3. QED
      BY <3>1, <3>2
  <2>6. ASSUME NEW u \in Threads, NEW v \in Threads, u # v
        PROVE  HeldIds(u)' \cap HeldIds(v)' = {}
    <3>1. CASE u = t
      BY <2>5, <2>6, <3>1
    <3>2. CASE v = t
      BY <2>5, <2>6, <3>2
    <3>3. CASE u # t /\ v # t
      BY <1>2, <2>6, <3>3, OtherHeld DEF IdInv
    <3>4. QED
      BY <3>1, <3>2, <3>3
  <2>7. 0..(current_read_id' - 1) \subseteq DOMAIN inserted'
    <3>1. 0..(current_read_id - 1) \subseteq DOMAIN inserted
      BY DEF IdInv
    <3>2. CASE current_read_id' = current_read_id
      BY <2>1, <3>1, <3>2
    <3>3. CASE /\ HasId(t) /\ current_read_id = op[t].id
               /\ current_read_id' = current_read_id + 1
      <4>1. current_read_id \in DOMAIN inserted
        BY <3>3, OwnId
      <4>2. \A i \in 0..((current_read_id + 1) - 1) :
              i \in 0..(current_read_id - 1) \/ i = current_read_id
        BY <1>1
      <4>3. QED
        BY <2>1, <3>1, <3>3, <4>1, <4>2
    <3>4. QED
      BY <1>2, <3>2, <3>3, EndStep
  <2>8. QED
    BY <2>3, <2>4, <2>6, <2>7 DEF IdInv
<1>3. CASE UNCHANGED <<current_write_id, current_read_id, inserted, handle, op>>
  BY <1>3 DEF IdInv, IdOf, HeldIds, HasId, Rec
<1>4. QED
  BY <1>2, <1>3 DEF Next, Act, AddStream, vars, store


\* A handle asks for ids only when it has none left.
LEMMA OwnEmpty ==
  ASSUME TypeOK, HeldInv, NEW t \in Threads, Act(t), NEW h \in Handles, op'[h].pc = "claim_ids"
  PROVE  handle'[h].ids = 0
<1>1. ThreadType /\ h \in Threads /\ h \notin Inserters
  BY ThreadAssumption DEF TypeOK, Threads
<1>2. CASE h # t
  <2>1. op'[h] = op[h] /\ handle'[h] = handle[h]
    BY <1>1, <1>2, Locality DEF TypeOK
  <2>2. QED
    BY <2>1 DEF HeldInv, At
<1>3. CASE h = t /\ Begin(t)
  <2>1. PICK r \in Records :
          \/ handle[t].ids = 0
          \/ handle[t].ids > 0 /\ op'[t].pc = ToBytes(handle[t].bytes, r)
    <3>1. op \in [Threads -> [pc : Labels, rec : Records \cup {Unset}, id : Nat, off : Nat,
                              m : Nat, ns : Nat, slot : Nat]]
      BY <1>1 DEF ThreadType
    <3>2. PICK r \in Records :
            \/ handle[t].ids = 0
            \/ /\ handle[t].ids > 0
               /\ op' = [op EXCEPT ![t] =
                          [Idle EXCEPT !.pc = ToBytes(handle[t].bytes, r), !.rec = r,
                                       !.id = handle[t].id, !.off = handle[t].off]]
      BY <1>1, <1>3 DEF Begin
    <3>3. ASSUME op' = [op EXCEPT ![t] =
                         [Idle EXCEPT !.pc = ToBytes(handle[t].bytes, r), !.rec = r,
                                      !.id = handle[t].id, !.off = handle[t].off]]
          PROVE  op'[t].pc = ToBytes(handle[t].bytes, r)
      <4>1. op'[t] = [Idle EXCEPT !.pc = ToBytes(handle[t].bytes, r), !.rec = r,
                                  !.id = handle[t].id, !.off = handle[t].off]
        BY <3>1, <3>3
      <4>2. QED
        BY <4>1 DEF Idle
    <3>4. QED
      BY <3>2, <3>3
  <2>2. handle' = handle
    BY <1>3 DEF Begin
  <2>3. QED
    BY <1>3, <2>1, <2>2 DEF ToBytes
<1>4. CASE h = t /\ ~Begin(t)
  <2>1. PICK p : p = op'[t].pc
    OBVIOUS
  <2>2. Step(t) /\ p = "claim_ids"
    BY <1>4, <2>1 DEF Act
  <2>3. ASSUME NEW q, NEW i, NEW o, NEW m, NEW ns, NEW x, Becomes(t, q, i, o, m, ns, x)
        PROVE  p = q
    BY <2>1, <2>3 DEF Becomes
  <2>4. \A b, r, m : ToBytes(b, r) # "claim_ids" /\ AfterTokens(m, r) # "claim_ids"
    BY DEF ToBytes, AfterTokens
  <2>5. ~ClaimIds(t) /\ ~AppendRecord(t) /\ ~SetEntry(t)
    BY <1>1, <2>2, <2>3, <2>4, OpAfter
  <2>6. ~ClaimBytes(t) /\ ~AllocBytes(t) /\ ~ClaimId(t) /\ ~SetOffLen(t) /\ ~AddEntry(t)
    BY <1>1, <2>2, <2>3, OpAfter
  <2>7. \A m, ns : ~ToStream(t, m, ns)
    <3>1. \A m, ns : (IF m < ns THEN "check" ELSE AfterStreams(t)) # "claim_ids"
      BY DEF AfterStreams
    <3>2. ASSUME NEW m, NEW ns, ToStream(t, m, ns)
          PROVE  FALSE
      <4>1. Becomes(t, IF m < ns THEN "check" ELSE AfterStreams(t), op[t].id, op[t].off,
                    m, ns, op[t].slot)
        BY <1>1, <3>2, OpAfter
      <4>2. p = IF m < ns THEN "check" ELSE AfterStreams(t)
        BY <2>3, <4>1
      <4>3. QED
        BY <2>2, <3>1, <4>2
    <3>3. QED
      BY <3>2
  <2>8. op' # [op EXCEPT ![t].pc = "add", ![t].slot = Size(StreamKey(t))]
    BY <1>1, <2>2, <2>3, OpAfter
  <2>9. ~End(t)
    BY <1>1, <2>1, <2>2, OpAfter
  <2>10. QED
    BY <2>2, <2>5, <2>6, <2>7, <2>8, <2>9 DEF Step, LoadStreams, CheckAndAdd, StreamSet
<1>5. QED
  BY <1>2, <1>3, <1>4

\* An id that is claimed and not published stays with the thread that holds it,
\* and one just claimed is its thread's.
LEMMA HeldKept ==
  ASSUME TypeOK, ControlInv, IdInv, HeldInv, NEW t \in Threads, Act(t),
         NEW id \in current_read_id'..(current_write_id' - 1)
  PROVE  \E u \in Threads : id \in HeldIds(u)'
<1>1. /\ ThreadType /\ current_write_id \in Nat /\ (t \in Inserters <=> t \notin Handles)
      /\ current_write_id' \in Nat /\ current_write_id <= current_write_id'
      /\ current_read_id \in Nat
  BY ThreadAssumption, WriteIdGrows DEF TypeOK, LogType, Threads
<1>2. \/ current_read_id' = current_read_id
      \/ current_read_id' = current_read_id + 1
  BY EndStep
<1>3. /\ id \in Nat /\ current_read_id <= id /\ current_read_id' <= id
      /\ id < current_write_id'
  <2>1. PICK c : c = current_read_id'
    OBVIOUS
  <2>2. PICK d : d = current_write_id'
    OBVIOUS
  <2>3. c \in Nat /\ d \in Nat /\ current_read_id <= c /\ id \in c..(d - 1)
    <3>1. id \in c..(d - 1)
      BY <2>1, <2>2
    <3>2. d \in Nat
      BY <1>1, <2>2
    <3>3. c \in Nat /\ current_read_id <= c
      BY <1>1, <1>2, <2>1
    <3>4. QED
      BY <3>1, <3>2, <3>3
  <2>4. id \in Nat /\ current_read_id <= id /\ c <= id /\ id < d
    BY <1>1, <2>3
  <2>5. QED
    BY <2>1, <2>2, <2>4
<1>4. ASSUME NEW u \in Threads, u # t, id \in HeldIds(u)
      PROVE  \E v \in Threads : id \in HeldIds(v)'
  BY <1>4, OtherHeld
<1>5. CASE id < current_write_id
  <2>1. id \in current_read_id..(current_write_id - 1)
    BY <1>1, <1>3, <1>5
  <2>2. PICK u \in Threads : id \in HeldIds(u)
    BY <2>1 DEF HeldInv
  <2>3. CASE u = t
    <3>1. /\ id \in 0..(current_write_id - 1)
          /\ \/ t \in Handles /\ handle[t].id <= id /\ id < handle[t].id + handle[t].ids
             \/ t \in Inserters /\ HasId(t) /\ id = op[t].id
      BY <2>2, <2>3 DEF HeldIds
    <3>2. CASE End(t)
      <4>1. /\ current_read_id = op[t].id /\ current_read_id' = current_read_id + 1
            /\ HasId(t) /\ current_write_id' = current_write_id
        BY <3>2 DEF End, At, HasId
      <4>2. id # op[t].id /\ t \in Handles
        BY <1>1, <1>3, <3>1, <4>1
      <4>3. handle'[t].id = handle[t].id + 1 /\ handle'[t].ids = handle[t].ids - 1
        BY <1>1, <3>2, <4>2 DEF End, ThreadType
      <4>4. handle[t].id \in Nat /\ handle[t].ids \in Nat /\ op[t].id = handle[t].id
        BY <4>1, <4>2, OpFields, OwnId DEF TypeOK
      <4>5. handle'[t].id <= id /\ id < handle'[t].id + handle'[t].ids
        BY <1>1, <1>3, <3>1, <4>2, <4>3, <4>4
      <4>6. id \in HeldIds(t)'
        BY <3>1, <4>1, <4>2, <4>5 DEF HeldIds
      <4>7. QED
        BY <4>6
    <3>3. CASE ~End(t) /\ inserted' = inserted
      <4>1. /\ HasId(t)' <=> HasId(t)
            /\ HasId(t) => op'[t].id = op[t].id
            /\ t \in Handles => handle'[t].id = handle[t].id /\ handle'[t].ids = handle[t].ids
            /\ current_write_id' = current_write_id
        BY <3>3, MiddleStep
      <4>2. id \in HeldIds(t)'
        BY <3>1, <4>1 DEF HeldIds
      <4>3. QED
        BY <4>2
    <3>4. ASSUME NEW i, NEW r, Gets(t, i, r)
          PROVE  \E v \in Threads : id \in HeldIds(v)'
      <4>1. ~HasId(t) /\ inserted' # inserted
        BY <3>4 DEF Gets
      <4>2. t \in Handles /\ handle[t].id <= id /\ id < handle[t].id + handle[t].ids
        BY <3>1, <4>1
      <4>3. ~ClaimIds(t)
        <5>1. ClaimIds(t) => handle[t].ids = 0
          BY <4>2 DEF ClaimIds, HeldInv
        <5>2. handle[t].id \in Nat
          BY <4>2, OpFields DEF TypeOK
        <5>3. QED
          BY <1>3, <4>2, <5>1, <5>2
      <4>4. ~ClaimId(t)
        BY <1>1, <4>2 DEF ClaimId, At, ControlInv, ControlOf
      <4>5. Begin(t)
        BY <4>1, <4>3, <4>4
        DEF Act, Step, ClaimBytes, AllocBytes, SetOffLen, AppendRecord, AddEntry, SetEntry,
            LoadStreams, CheckAndAdd, StreamSet, End
      <4>6. handle' = handle /\ current_write_id' = current_write_id
        BY <4>5 DEF Begin, store
      <4>7. id \in HeldIds(t)'
        BY <3>1, <4>2, <4>6 DEF HeldIds
      <4>8. QED
        BY <4>7
    <3>5. QED
      BY <3>2, <3>3, <3>4, InsertedStep
  <2>4. QED
    BY <1>4, <2>2, <2>3
<1>6. CASE current_write_id <= id
  <2>1. id \in 0..(current_write_id' - 1)
    <3>1. PICK d : d = current_write_id'
      OBVIOUS
    <3>2. id < d /\ d \in Nat
      BY <1>1, <1>3, <3>1
    <3>3. id \in 0..(d - 1)
      BY <1>3, <3>2
    <3>4. QED
      BY <3>1, <3>3
  <2>2. current_write_id' # current_write_id
    BY <1>1, <1>3, <1>6
  <2>3. CASE ClaimIds(t)
    <3>1. t \in Handles
      BY <2>3 DEF ClaimIds, At, ControlInv, ControlOf
    <3>2. /\ handle'[t].id = current_write_id /\ handle'[t].ids = IdBlock
          /\ current_write_id' = current_write_id + IdBlock
      BY <1>1, <2>3, <3>1 DEF ClaimIds, ThreadType
    <3>3. handle'[t].id <= id /\ id < handle'[t].id + handle'[t].ids
      BY <1>3, <1>6, <3>2
    <3>4. id \in HeldIds(t)'
      BY <2>1, <3>1, <3>3 DEF HeldIds
    <3>5. QED
      BY <3>4
  <2>4. CASE ClaimId(t)
    <3>1. t \in Inserters
      BY <2>4 DEF ClaimId, At, ControlInv, ControlOf
    <3>2. op'[t].pc = "set_offlen" /\ op'[t].id = current_write_id
      BY <1>1, <2>4, OpAfter DEF Becomes
    <3>3. HasId(t)'
      BY <3>2 DEF HasId
    <3>4. current_write_id' = current_write_id + 1
      BY <2>4 DEF ClaimId
    <3>5. id = op'[t].id
      BY <1>1, <1>3, <1>6, <3>2, <3>4
    <3>6. id \in HeldIds(t)'
      BY <2>1, <3>1, <3>3, <3>5 DEF HeldIds
    <3>7. QED
      BY <3>6
  <2>5. QED
    BY <2>2, <2>3, <2>4
    DEF Act, Begin, Step, ClaimBytes, AllocBytes, SetOffLen, AppendRecord, AddEntry, SetEntry,
        LoadStreams, CheckAndAdd, StreamSet, End, store
<1>7. QED
  BY <1>1, <1>3, <1>5, <1>6

\* No step loses an id.
LEMMA HeldStep ==
  ASSUME TypeOK, ControlInv, IdInv, HeldInv, [Next]_vars
  PROVE  HeldInv'
<1>1. ASSUME NEW t \in Threads, Act(t)
      PROVE  HeldInv'
  <2>1. \A h \in Handles : At(h, "claim_ids")' => handle'[h].ids = 0
    BY <1>1, OwnEmpty DEF At
  <2>2. \A id \in current_read_id'..(current_write_id' - 1) :
          \E u \in Threads : id \in HeldIds(u)'
    BY <1>1, HeldKept
  <2>3. QED
    BY <2>1, <2>2 DEF HeldInv
<1>2. CASE UNCHANGED <<current_write_id, current_read_id, handle, op>>
  BY <1>2 DEF HeldInv, HeldIds, HasId, At
<1>3. QED
  BY <1>1, <1>2 DEF Next, Act, AddStream, vars, store

-----------------------------------------------------------------------------
(* Pushes                                                                  *)

\* A push begins with a reservation.
LEMMA PushBegins ==
  ASSUME TypeOK, ControlInv, PushInv, NEW t \in Threads, Act(t), Pushing(t)'
  PROVE  /\ reserve(Target(t)')
         /\ op'[t].slot = Size(Target(t)')
         /\ HasId(t)
<1>1. ThreadType
  BY DEF TypeOK
<1>2. ASSUME NEW p, NEW i, NEW o, NEW m, NEW ns, NEW s, Becomes(t, p, i, o, m, ns, s),
             p \notin {"set", "add"}
      PROVE  FALSE
  BY <1>2 DEF Becomes, Pushing
<1>3. CASE AddEntry(t)
  <2>1. Becomes(t, "set", op[t].id, op[t].off, op[t].m, op[t].ns, Size(IndexKey(t)))
    BY <1>1, <1>3, OpAfter
  <2>2. Target(t)' = IndexKey(t)
    BY <2>1 DEF Target, IndexKey, Rec, Becomes
  <2>3. op[t].pc = "reserve" /\ reserve(IndexKey(t)) /\ op'[t].slot = Size(IndexKey(t))
    BY <1>3, <2>1 DEF AddEntry, At, Becomes
  <2>4. HasId(t)
    BY <2>3 DEF HasId
  <2>5. QED
    BY <2>2, <2>3, <2>4
<1>4. ASSUME NEW m, NEW ns, ToStream(t, m, ns)
      PROVE  FALSE
  <2>1. PICK p : p = IF m < ns THEN "check" ELSE AfterStreams(t)
    OBVIOUS
  <2>2. Becomes(t, p, op[t].id, op[t].off, m, ns, op[t].slot)
    BY <1>1, <1>4, <2>1, OpAfter
  <2>3. p \notin {"set", "add"}
    BY <2>1 DEF AfterStreams
  <2>4. QED
    BY <1>2, <2>2, <2>3
<1>5. CASE CheckAndAdd(t)
  <2>1. /\ reserve(StreamKey(t))
        /\ op' = [op EXCEPT ![t].pc = "add", ![t].slot = Size(StreamKey(t))]
    BY <1>4, <1>5 DEF CheckAndAdd
  <2>2. Becomes(t, "add", op[t].id, op[t].off, op[t].m, op[t].ns, Size(StreamKey(t)))
    BY <1>1, <2>1, OpAfter
  <2>3. Target(t)' = StreamKey(t) /\ op'[t].slot = Size(StreamKey(t))
    BY <2>2 DEF Target, StreamKey, Becomes
  <2>4. HasId(t)
    BY <1>5 DEF CheckAndAdd, At, HasId
  <2>5. QED
    BY <2>1, <2>3, <2>4
<1>6. ~Begin(t)
  BY <1>1, BeginAfter DEF Pushing
<1>7. ~ClaimIds(t)
  <2>1. ToBytes(handle[t].bytes, Rec(t)) \notin {"set", "add"}
    BY DEF ToBytes
  <2>2. QED
    BY <1>1, <1>2, <2>1, OpAfter
<1>8. ~ClaimBytes(t) /\ ~ClaimId(t)
  <2>1. "alloc_bytes" \notin {"set", "add"} /\ "set_offlen" \notin {"set", "add"}
    OBVIOUS
  <2>2. QED
    BY <1>1, <1>2, <2>1, OpAfter
<1>9. ~AllocBytes(t) /\ ~SetOffLen(t)
  <2>1. /\ (IF t \in Handles THEN "append" ELSE "claim_id") \notin {"set", "add"}
        /\ (IF t \in Handles THEN "end" ELSE "append") \notin {"set", "add"}
    OBVIOUS
  <2>2. QED
    BY <1>1, <1>2, <2>1, OpAfter
<1>10. ~AppendRecord(t) /\ ~SetEntry(t)
  <2>1. \A m : AfterTokens(m, Rec(t)) \notin {"set", "add"}
    BY DEF AfterTokens
  <2>2. QED
    BY <1>1, <1>2, <2>1, OpAfter
<1>11. ~LoadStreams(t) /\ ~StreamSet(t)
  BY <1>4 DEF LoadStreams, StreamSet
<1>12. ~End(t)
  BY <1>1, OpAfter DEF Pushing
<1>13. QED
  BY <1>3, <1>5, <1>6, <1>7, <1>8, <1>9, <1>10, <1>11, <1>12 DEF Act, Step

\* What a thread's step does to the lists: nothing, one entry reserved, or its
\* own reserved entry set to its own id.
Reserves(t) == Pushing(t)' /\ reserve(Target(t)') /\ op'[t].slot = Size(Target(t)')
Sets(t) ==
  /\ Pushing(t) /\ ~Pushing(t)' /\ HasId(t)
  /\ SetEntry(t) \/ StreamSet(t)
  /\ Target(t) \in DOMAIN lists
  /\ op[t].slot < Len(lists[Target(t)])
  /\ lists[Target(t)][op[t].slot + 1] = Unset
  /\ set_entry(Target(t), op[t].slot, op[t].id)

LEMMA ListCases ==
  ASSUME TypeOK, ControlInv, PushInv, NEW t \in Threads, Act(t)
  PROVE  /\ \/ lists' = lists /\ ~Pushing(t)' /\ ~SetEntry(t) /\ ~StreamSet(t)
            \/ Reserves(t)
            \/ Sets(t)
         /\ SetEntry(t) \/ StreamSet(t) => Sets(t)
         /\ streams' = streams
<1>1. CASE Pushing(t)'
  <2>1. Reserves(t)
    BY <1>1, PushBegins DEF Reserves
  <2>2. ~SetEntry(t)
    <3>1. SUFFICES ASSUME SetEntry(t)
                   PROVE  ~Pushing(t)'
      BY <1>1
    <3>2. op'[t].pc = AfterTokens(op[t].m + 1, Rec(t))
      BY <3>1, OpAfter DEF Becomes, TypeOK
    <3>3. QED
      BY <3>2 DEF Pushing, AfterTokens
  <2>3. ~StreamSet(t)
    <3>1. SUFFICES ASSUME StreamSet(t)
                   PROVE  ~Pushing(t)'
      BY <1>1
    <3>2. PICK m, ns : ToStream(t, m, ns)
      BY <3>1 DEF StreamSet
    <3>3. PICK p : p = IF m < ns THEN "check" ELSE AfterStreams(t)
      OBVIOUS
    <3>4. Becomes(t, p, op[t].id, op[t].off, m, ns, op[t].slot)
      BY <3>2, <3>3, OpAfter DEF TypeOK
    <3>5. QED
      BY <3>3, <3>4 DEF Pushing, AfterStreams, Becomes
  <2>4. QED
    BY <2>1, <2>2, <2>3, ListActions
<1>2. CASE ~Pushing(t)'
  <2>1. ~AddEntry(t)
    BY <1>2, OpAfter DEF Becomes, Pushing, TypeOK
  <2>2. op' # [op EXCEPT ![t].pc = "add", ![t].slot = Size(StreamKey(t))]
    BY <1>2, OpAfter DEF Becomes, Pushing, TypeOK
  <2>3. Pushing(t) => HasId(t)
    BY DEF Pushing, HasId
  <2>4. QED
    BY <1>2, <2>1, <2>2, <2>3, ListActions DEF Sets
<1>3. QED
  BY <1>1, <1>2

\* The list and the place of a push.
LEMMA PushPlace ==
  ASSUME TypeOK, PushInv, NEW u \in Threads, Pushing(u)
  PROVE  /\ Target(u) \in DOMAIN lists
         /\ lists[Target(u)] \in Seq(Nat \cup {Unset})
         /\ Len(lists[Target(u)]) \in Nat
         /\ DOMAIN lists[Target(u)] = 1..Len(lists[Target(u)])
         /\ op[u].slot \in Nat /\ op[u].slot < Len(lists[Target(u)])
         /\ op[u].slot + 1 \in DOMAIN lists[Target(u)]
         /\ lists[Target(u)][op[u].slot + 1] = Unset
<1>1. /\ Target(u) \in DOMAIN lists /\ op[u].slot < Len(lists[Target(u)])
      /\ lists[Target(u)][op[u].slot + 1] = Unset
  BY DEF PushInv, PushOf
<1>2. op[u].slot \in Nat /\ lists[Target(u)] \in Seq(Nat \cup {Unset})
  BY <1>1, OpFields DEF TypeOK, ListType
<1>3. PICK s \in Seq(Nat \cup {Unset}) : s = lists[Target(u)]
  BY <1>2
<1>4. Len(s) \in Nat /\ DOMAIN s = 1..Len(s)
  OBVIOUS
<1>5. op[u].slot + 1 \in 1..Len(s)
  BY <1>1, <1>2, <1>3, <1>4
<1>6. QED
  BY <1>1, <1>2, <1>3, <1>4, <1>5

\* An entry that is reserved stays reserved until its push sets it.
LEMMA OtherPush ==
  ASSUME TypeOK, ControlInv, PushInv, NEW t \in Threads, Act(t), NEW u \in Threads, u # t
  PROVE  PushOf(u)'
<1>1. op'[u] = op[u]
  BY Locality DEF TypeOK
<1>2. Pushing(u)' = Pushing(u) /\ Target(u)' = Target(u)
  BY <1>1 DEF Pushing, Target, IndexKey, StreamKey, Rec
<1>3. SUFFICES ASSUME Pushing(u)
               PROVE  /\ Target(u) \in DOMAIN lists'
                      /\ op[u].slot < Len(lists'[Target(u)])
                      /\ lists'[Target(u)][op[u].slot + 1] = Unset
  BY <1>1, <1>2 DEF PushOf
<1>4. PICK k : k = Target(u)
  OBVIOUS
<1>5. /\ k \in DOMAIN lists /\ Len(lists[k]) \in Nat /\ DOMAIN lists[k] = 1..Len(lists[k])
      /\ op[u].slot \in Nat /\ op[u].slot < Len(lists[k])
      /\ op[u].slot + 1 \in DOMAIN lists[k] /\ lists[k][op[u].slot + 1] = Unset
  BY <1>3, <1>4, PushPlace
<1>6. CASE lists' = lists
  BY <1>4, <1>5, <1>6
<1>7. CASE Reserves(t)
  <2>1. PICK x : x = Target(t)'
    OBVIOUS
  <2>2. reserve(x) /\ ListType
    BY <1>7, <2>1 DEF Reserves, TypeOK
  <2>3. /\ DOMAIN lists' = DOMAIN lists \cup {x}
        /\ \A y \in DOMAIN lists : y # x => lists'[y] = lists[y]
        /\ x \in DOMAIN lists => Size(x) = Len(lists[x]) /\ DOMAIN lists[x] = 1..Size(x)
        /\ Len(lists'[x]) = Size(x) + 1
        /\ \A e \in 1..Size(x) : lists'[x][e] = lists[x][e]
    BY <2>2, ReserveDef
  <2>4. CASE k = x
    <3>1. op[u].slot < Size(k) + 1 /\ op[u].slot + 1 \in 1..Size(k)
      BY <1>5, <2>3, <2>4
    <3>2. QED
      BY <1>4, <1>5, <2>3, <2>4, <3>1
  <2>5. CASE k # x
    BY <1>4, <1>5, <2>3, <2>5
  <2>6. QED
    BY <2>4, <2>5
<1>8. CASE Sets(t)
  <2>1. PICK x : x = Target(t)
    OBVIOUS
  <2>2. /\ set_entry(x, op[t].slot, op[t].id) /\ ListType /\ x \in DOMAIN lists
        /\ op[t].slot < Len(lists[x]) /\ op[t].slot \in Nat /\ op[t].id \in Nat
    BY <1>8, <2>1, OpFields DEF Sets, TypeOK
  <2>3. /\ DOMAIN lists' = DOMAIN lists
        /\ \A y \in DOMAIN lists : y # x => lists'[y] = lists[y]
        /\ Len(lists'[x]) = Len(lists[x])
        /\ \A e \in DOMAIN lists[x] : e # op[t].slot + 1 => lists'[x][e] = lists[x][e]
    BY <2>2, SetEntryDef
  <2>4. CASE k = x
    <3>1. op[u].slot # op[t].slot
      BY <1>3, <1>4, <1>8, <2>1, <2>4 DEF PushInv, Sets
    <3>2. op[u].slot + 1 # op[t].slot + 1
      BY <1>5, <2>2, <3>1
    <3>3. QED
      BY <1>4, <1>5, <2>3, <2>4, <3>2
  <2>5. CASE k # x
    BY <1>4, <1>5, <2>3, <2>5
  <2>6. QED
    BY <2>4, <2>5
<1>9. QED
  BY <1>6, <1>7, <1>8, ListCases

\* Pushes keep their entries to themselves.
LEMMA PushStep ==
  ASSUME TypeOK, ControlInv, PushInv, [Next]_vars
  PROVE  PushInv'
<1>1. ASSUME NEW t \in Threads, Act(t)
      PROVE  PushInv'
  <2>1. ASSUME NEW u \in Threads, u # t
        PROVE  PushOf(u)'
    BY <1>1, <2>1, OtherPush
  <2>2. ASSUME NEW x, Reserves(t), x = Target(t)'
        PROVE  /\ x \in DOMAIN lists' /\ Len(lists'[x]) = Size(x) + 1 /\ Size(x) \in Nat
               /\ lists'[x][Size(x) + 1] = Unset
               /\ x \in DOMAIN lists => Size(x) = Len(lists[x])
               /\ op'[t].slot = Size(x)
    <3>1. reserve(x) /\ ListType /\ op'[t].slot = Size(x)
      BY <2>2 DEF Reserves, TypeOK
    <3>2. QED
      BY <3>1, ReserveDef
  <2>3. Pushing(t)' => Reserves(t)
    BY <1>1, ListCases DEF Sets
  <2>4. PushOf(t)'
    <3>1. SUFFICES ASSUME Pushing(t)'
                   PROVE  /\ Target(t)' \in DOMAIN lists'
                          /\ op'[t].slot < Len(lists'[Target(t)'])
                          /\ lists'[Target(t)'][op'[t].slot + 1] = Unset
      BY DEF PushOf
    <3>2. PICK x : x = Target(t)'
      OBVIOUS
    <3>3. /\ x \in DOMAIN lists' /\ Len(lists'[x]) = Size(x) + 1 /\ Size(x) \in Nat
          /\ lists'[x][Size(x) + 1] = Unset
          /\ op'[t].slot = Size(x)
      BY <2>2, <2>3, <3>1, <3>2
    <3>4. QED
      BY <3>2, <3>3
  <2>5. ASSUME NEW u \in Threads, u # t, Pushing(t)', Pushing(u)', Target(t)' = Target(u)'
        PROVE  op'[t].slot # op'[u].slot
    <3>1. op'[u] = op[u]
      BY <1>1, <2>5, Locality DEF TypeOK
    <3>2. Pushing(u) /\ Target(u)' = Target(u)
      BY <2>5, <3>1 DEF Pushing, Target, IndexKey, StreamKey, Rec
    <3>3. PICK x : x = Target(u)
      OBVIOUS
    <3>4. x \in DOMAIN lists /\ op[u].slot < Len(lists[x]) /\ op[u].slot \in Nat
          /\ Len(lists[x]) \in Nat
      BY <3>2, <3>3, PushPlace
    <3>5. op'[t].slot = Len(lists[x])
      BY <2>2, <2>3, <2>5, <3>2, <3>3, <3>4
    <3>6. QED
      BY <3>1, <3>4, <3>5
  <2>6. ASSUME NEW u \in Threads, NEW v \in Threads, u # t, v # t, u # v,
               Pushing(u)', Pushing(v)', Target(u)' = Target(v)'
        PROVE  op'[u].slot # op'[v].slot
    <3>1. op'[u] = op[u] /\ op'[v] = op[v]
      BY <1>1, <2>6, Locality DEF TypeOK
    <3>2. Pushing(u) /\ Target(u)' = Target(u) /\ Pushing(v) /\ Target(v)' = Target(v)
      BY <2>6, <3>1 DEF Pushing, Target, IndexKey, StreamKey, Rec
    <3>3. QED
      BY <2>6, <3>1, <3>2 DEF PushInv
  <2>7. \A u, v \in Threads :
          u # v /\ Pushing(u)' /\ Pushing(v)' /\ Target(u)' = Target(v)' =>
            op'[u].slot # op'[v].slot
    BY <2>5, <2>6
  <2>8. QED
    BY <2>1, <2>4, <2>7 DEF PushInv
<1>2. CASE UNCHANGED <<lists, op>>
  BY <1>2 DEF PushInv, PushOf, Pushing, Target, IndexKey, StreamKey, Rec
<1>3. QED
  BY <1>1, <1>2 DEF Next, Act, AddStream, vars, store


-----------------------------------------------------------------------------
(* Which ids the lists hold                                                *)

\* Only the setting of an entry puts an id on a list; none is ever lost.
LEMMA EntriesSame ==
  ASSUME TypeOK, NEW t \in Threads, lists' = lists \/ Reserves(t), NEW key, NEW id \in Nat
  PROVE  IsEntry(key, id)' <=> IsEntry(key, id)
<1>1. ListType /\ id # Unset
  BY UnsetAssumption DEF TypeOK
<1>2. CASE lists' = lists
  BY <1>2 DEF IsEntry
<1>3. CASE Reserves(t)
  <2>1. PICK x : x = Target(t)'
    OBVIOUS
  <2>2. reserve(x)
    BY <1>3, <2>1 DEF Reserves
  <2>3. /\ DOMAIN lists' = DOMAIN lists \cup {x}
        /\ \A y \in DOMAIN lists : y # x => lists'[y] = lists[y]
        /\ Size(x) \in Nat
        /\ x \in DOMAIN lists => DOMAIN lists[x] = 1..Size(x)
        /\ DOMAIN lists'[x] = 1..(Size(x) + 1)
        /\ lists'[x][Size(x) + 1] = Unset
        /\ \A e \in 1..Size(x) : x \in DOMAIN lists /\ lists'[x][e] = lists[x][e]
    BY <1>1, <2>2, ReserveDef
  <2>4. CASE key # x
    BY <2>3, <2>4 DEF IsEntry
  <2>5. CASE key = x
    <3>1. ASSUME IsEntry(x, id)
          PROVE  IsEntry(x, id)'
      <4>1. PICK e \in 1..Size(x) : lists[x][e] = id
        BY <2>3, <3>1 DEF IsEntry
      <4>2. e \in 1..(Size(x) + 1) /\ lists'[x][e] = id
        BY <2>3, <4>1
      <4>3. QED
        BY <2>3, <4>2 DEF IsEntry
    <3>2. ASSUME IsEntry(x, id)'
          PROVE  IsEntry(x, id)
      <4>1. PICK e \in 1..(Size(x) + 1) : lists'[x][e] = id
        BY <2>3, <3>2 DEF IsEntry
      <4>2. e # Size(x) + 1
        BY <1>1, <2>3, <4>1
      <4>3. e \in 1..Size(x)
        BY <2>3, <4>1, <4>2
      <4>4. QED
        BY <2>3, <4>1, <4>3 DEF IsEntry
    <3>3. QED
      BY <2>5, <3>1, <3>2
  <2>6. QED
    BY <2>4, <2>5
<1>4. QED
  BY <1>2, <1>3

\* The setting of an entry puts one id on one list.
LEMMA EntryAdded ==
  ASSUME TypeOK, NEW t \in Threads, Sets(t), NEW key, NEW id \in Nat
  PROVE  IsEntry(key, id)' <=> IsEntry(key, id) \/ (key = Target(t) /\ id = op[t].id)
<1>1. ListType /\ id # Unset
  BY UnsetAssumption DEF TypeOK
<1>2. PICK x : x = Target(t)
  OBVIOUS
<1>3. PICK p : p = op[t].slot
  OBVIOUS
<1>4. /\ x \in DOMAIN lists /\ p \in Nat /\ p < Len(lists[x]) /\ lists[x][p + 1] = Unset
      /\ set_entry(x, p, op[t].id) /\ op[t].id \in Nat
  BY <1>2, <1>3, OpFields DEF Sets, TypeOK
<1>5. /\ DOMAIN lists' = DOMAIN lists
      /\ \A y \in DOMAIN lists : y # x => lists'[y] = lists[y]
      /\ DOMAIN lists'[x] = DOMAIN lists[x]
      /\ p + 1 \in DOMAIN lists[x]
      /\ lists'[x][p + 1] = op[t].id
      /\ \A e \in DOMAIN lists[x] : e # p + 1 => lists'[x][e] = lists[x][e]
  BY <1>1, <1>4, SetEntryDef
<1>6. CASE key # x
  BY <1>2, <1>5, <1>6 DEF IsEntry
<1>7. CASE key = x
  <2>1. ASSUME IsEntry(x, id)
        PROVE  IsEntry(x, id)'
    <3>1. PICK e \in DOMAIN lists[x] : lists[x][e] = id
      BY <2>1 DEF IsEntry
    <3>2. lists'[x][e] = id
      BY <1>1, <1>4, <1>5, <3>1
    <3>3. QED
      BY <1>4, <1>5, <3>1, <3>2 DEF IsEntry
  <2>2. ASSUME id = op[t].id
        PROVE  IsEntry(x, id)'
    BY <1>4, <1>5, <2>2 DEF IsEntry
  <2>3. ASSUME IsEntry(x, id)', id # op[t].id
        PROVE  IsEntry(x, id)
    <3>1. PICK e \in DOMAIN lists'[x] : lists'[x][e] = id
      BY <2>3 DEF IsEntry
    <3>2. QED
      BY <1>4, <1>5, <2>3, <3>1 DEF IsEntry
  <2>4. QED
    BY <1>2, <1>7, <2>1, <2>2, <2>3
<1>8. QED
  BY <1>6, <1>7

\* A thread puts no id on a list but its own.
LEMMA EntriesKept ==
  ASSUME TypeOK, ControlInv, PushInv, NEW t \in Threads, Act(t), NEW key, NEW id \in Nat,
         ~HasId(t) \/ id # op[t].id
  PROVE  IsEntry(key, id)' <=> IsEntry(key, id)
<1>1. CASE lists' = lists \/ Reserves(t)
  BY <1>1, EntriesSame
<1>2. CASE Sets(t)
  <2>1. id # op[t].id
    BY <1>2 DEF Sets
  <2>2. QED
    BY <1>2, <2>1, EntryAdded
<1>3. QED
  BY <1>1, <1>2, ListCases

\* The same as OnlyInserted, in terms of IsEntry.
LEMMA OnlyEntries ==
  TypeOK => (OnlyInserted <=> \A key : \A id \in Nat : IsEntry(key, id) => id \in DOMAIN inserted)
<1>1. SUFFICES ASSUME TypeOK
               PROVE  OnlyInserted <=>
                        \A key : \A id \in Nat : IsEntry(key, id) => id \in DOMAIN inserted
  OBVIOUS
<1>2. Unset \notin Nat
  BY UnsetAssumption
<1>3. ASSUME NEW key \in DOMAIN lists, NEW e \in DOMAIN lists[key], lists[key][e] # Unset
      PROVE  lists[key][e] \in Nat /\ IsEntry(key, lists[key][e])
  <2>1. lists[key] \in Seq(Nat \cup {Unset})
    BY <1>1 DEF TypeOK, ListType
  <2>2. lists[key][e] \in Nat
    BY <1>3, <2>1
  <2>3. QED
    BY <2>2 DEF IsEntry
<1>4. ASSUME OnlyInserted
      PROVE  \A key : \A id \in Nat : IsEntry(key, id) => id \in DOMAIN inserted
  BY <1>2, <1>4 DEF OnlyInserted, IsEntry
<1>5. ASSUME \A key : \A id \in Nat : IsEntry(key, id) => id \in DOMAIN inserted
      PROVE  OnlyInserted
  BY <1>3, <1>5 DEF OnlyInserted
<1>6. QED
  BY <1>4, <1>5

LEMMA OnlyEntriesPrime ==
  (TypeOK =>
    (OnlyInserted <=> \A key : \A id \in Nat : IsEntry(key, id) => id \in DOMAIN inserted))'
BY OnlyEntries, PTL

\* Ids that stand for nothing stay off the lists.
LEMMA OnlyStep ==
  ASSUME TypeOK, TypeOK', ControlInv, IdInv, PushInv, OnlyInserted, [Next]_vars
  PROVE  OnlyInserted'
<1>1. \A key : \A id \in Nat : IsEntry(key, id) => id \in DOMAIN inserted
  BY OnlyEntries
<1>2. ASSUME NEW t \in Threads, Act(t)
      PROVE  OnlyInserted'
  <2>1. DOMAIN inserted \subseteq DOMAIN inserted'
    BY <1>2, InsertedKept
  <2>2. ASSUME NEW key, NEW id \in Nat, IsEntry(key, id)'
        PROVE  id \in DOMAIN inserted'
    <3>1. CASE HasId(t) /\ id = op[t].id
      BY <2>1, <3>1, OwnId
    <3>2. CASE ~HasId(t) \/ id # op[t].id
      BY <1>1, <1>2, <2>1, <2>2, <3>2, EntriesKept
    <3>3. QED
      BY <3>1, <3>2
  <2>3. QED
    BY <2>2, OnlyEntriesPrime
<1>3. CASE UNCHANGED <<lists, inserted>>
  BY <1>3 DEF OnlyInserted
<1>4. QED
  BY <1>2, <1>3 DEF Next, Act, AddStream, vars, store


\* How an insert proceeds through its tokens and its streams.
InStreams(t) == op[t].pc \in {"check", "add"} \/ Listed(t)

Stays(t) ==
  /\ TokensDone(t)' = TokensDone(t) /\ StreamsDone(t)' = StreamsDone(t)
  /\ ~SetEntry(t) /\ ~StreamSet(t)
  /\ InStreams(t)' => (InStreams(t) /\ op'[t].ns = op[t].ns) \/ op'[t].ns = Len(streams)
TokenDone(t) ==
  /\ SetEntry(t) /\ Target(t) = <<"index", Rec(t).keys[op[t].m + 1]>>
  /\ TokensDone(t) = op[t].m /\ TokensDone(t)' = op[t].m + 1
  /\ StreamsDone(t) = 0 /\ StreamsDone(t)' = 0
  /\ ~InStreams(t)'
StreamDone(t) ==
  /\ TokensDone(t)' = TokensDone(t)
  /\ StreamsDone(t) = op[t].m /\ StreamsDone(t)' = op[t].m + 1
  /\ InStreams(t) /\ op'[t].ns = op[t].ns
  /\ ~SetEntry(t)
  /\ \/ /\ StreamSet(t) /\ Target(t) = <<"stream", op[t].m>>
        /\ Rec(t) \in streams[op[t].m + 1]
     \/ ~StreamSet(t) /\ Rec(t) \notin streams[op[t].m + 1]

LEMMA Progress ==
  ASSUME TypeOK, ControlInv, NEW t \in Threads, Step(t), ~End(t), HasId(t)
  PROVE  Stays(t) \/ TokenDone(t) \/ StreamDone(t)
<1>1. /\ ThreadType /\ ControlOf(t) /\ op[t].m \in Nat /\ op[t].ns \in Nat
      /\ (t \in Inserters <=> t \notin Handles)
      /\ op[t].pc # "idle" /\ op[t].pc # "claim_ids"
      /\ (t \in Inserters => op[t].pc \notin {"claim_bytes", "alloc_bytes", "claim_id"})
  BY OpFields, ThreadAssumption DEF TypeOK, ControlInv, HasId, Threads
<1>2. Rec(t) \in Records /\ Len(Rec(t).keys) \in Nat
  BY <1>1, OwnRecord
<1>3. ~ClaimIds(t) /\ ~ClaimId(t)
  BY <1>1 DEF ClaimIds, ClaimId, At, ControlOf
<1>4. CASE ClaimBytes(t)
  <2>1. t \in Handles /\ op[t].pc = "claim_bytes" /\ op'[t].pc = "alloc_bytes"
    BY <1>1, <1>4, OpAfter DEF ClaimBytes, At, Becomes
  <2>2. QED
    BY <1>1, <2>1 DEF Stays, TokensDone, StreamsDone, InStreams, Listed, SetEntry, StreamSet, At
<1>5. CASE AllocBytes(t)
  <2>1. t \in Handles /\ op[t].pc = "alloc_bytes" /\ op'[t].pc = "append"
    BY <1>1, <1>5, OpAfter DEF AllocBytes, At, Becomes
  <2>2. QED
    BY <1>1, <2>1 DEF Stays, TokensDone, StreamsDone, InStreams, Listed, SetEntry, StreamSet, At
<1>6. CASE SetOffLen(t)
  <2>1. /\ op[t].pc = "set_offlen" /\ op'[t].pc = IF t \in Handles THEN "end" ELSE "append"
        /\ op'[t].rec = op[t].rec /\ op'[t].ns = op[t].ns
    BY <1>1, <1>6, OpAfter DEF SetOffLen, At, Becomes
  <2>2. QED
    BY <1>1, <2>1
    DEF Stays, TokensDone, StreamsDone, InStreams, Listed, SetEntry, StreamSet, At, Rec
<1>7. CASE AppendRecord(t)
  <2>1. /\ op[t].pc = "append" /\ op'[t].pc = AfterTokens(0, Rec(t))
        /\ op'[t].rec = op[t].rec /\ op'[t].m = op[t].m
    BY <1>1, <1>7, OpAfter DEF AppendRecord, At, Becomes
  <2>2. op[t].m = 0
    BY <1>1, <2>1 DEF ControlOf, Appended, Listed
  <2>3. \/ op'[t].pc = "reserve"
        \/ op'[t].pc = "load_streams" /\ Len(Rec(t).keys) = 0
    BY <1>2, <2>1 DEF AfterTokens
  <2>4. QED
    BY <1>1, <2>1, <2>2, <2>3
    DEF Stays, TokensDone, StreamsDone, InStreams, Listed, SetEntry, StreamSet, At, Rec
<1>8. CASE AddEntry(t)
  <2>1. /\ op[t].pc = "reserve" /\ op'[t].pc = "set"
        /\ op'[t].rec = op[t].rec /\ op'[t].m = op[t].m
    BY <1>1, <1>8, OpAfter DEF AddEntry, At, Becomes
  <2>2. QED
    BY <1>1, <2>1
    DEF Stays, TokensDone, StreamsDone, InStreams, Listed, SetEntry, StreamSet, At, Rec
<1>9. CASE SetEntry(t)
  <2>1. /\ op[t].pc = "set" /\ op'[t].pc = AfterTokens(op[t].m + 1, Rec(t))
        /\ op'[t].rec = op[t].rec /\ op'[t].m = op[t].m + 1
    BY <1>1, <1>9, OpAfter DEF SetEntry, At, Becomes
  <2>2. op[t].m < Len(Rec(t).keys)
    BY <1>1, <2>1 DEF ControlOf
  <2>3. \/ op'[t].pc = "reserve"
        \/ op'[t].pc = "load_streams" /\ Len(Rec(t).keys) = op[t].m + 1
    BY <1>1, <1>2, <2>1, <2>2 DEF AfterTokens
  <2>4. Target(t) = <<"index", Rec(t).keys[op[t].m + 1]>>
    BY <2>1 DEF Target, IndexKey
  <2>5. /\ TokensDone(t) = op[t].m /\ TokensDone(t)' = op[t].m + 1
        /\ StreamsDone(t) = 0 /\ StreamsDone(t)' = 0 /\ ~InStreams(t)'
    BY <2>1, <2>3 DEF TokensDone, StreamsDone, InStreams, Listed, Rec
  <2>6. QED
    BY <1>9, <2>4, <2>5 DEF TokenDone
<1>10. CASE LoadStreams(t)
  <2>1. ToStream(t, 0, Len(streams)) /\ op[t].pc = "load_streams"
    BY <1>10 DEF LoadStreams, At
  <2>2. PICK p : p = IF 0 < Len(streams) THEN "check" ELSE AfterStreams(t)
    OBVIOUS
  <2>3. Becomes(t, p, op[t].id, op[t].off, 0, Len(streams), op[t].slot)
    BY <1>1, <2>1, <2>2, OpAfter
  <2>4. op'[t].pc = p /\ op'[t].rec = op[t].rec /\ op'[t].m = 0 /\ op'[t].ns = Len(streams)
    BY <2>3 DEF Becomes
  <2>5. Len(streams) \in Nat
    BY DEF TypeOK, ListType
  <2>6. \/ p = "check"
        \/ Len(streams) = 0 /\ (p = "end" \/ (p = "set_offlen" /\ t \in Handles))
    BY <2>2, <2>5 DEF AfterStreams
  <2>7. QED
    BY <1>1, <2>1, <2>4, <2>6
    DEF Stays, TokensDone, StreamsDone, InStreams, Listed, SetEntry, StreamSet, At, Rec
<1>11. ASSUME op[t].pc \in {"check", "add"}, ToStream(t, op[t].m + 1, op[t].ns)
       PROVE  /\ TokensDone(t)' = TokensDone(t)
              /\ StreamsDone(t) = op[t].m /\ StreamsDone(t)' = op[t].m + 1
              /\ InStreams(t) /\ op'[t].ns = op[t].ns
  <2>1. PICK p : p = IF op[t].m + 1 < op[t].ns THEN "check" ELSE AfterStreams(t)
    OBVIOUS
  <2>2. Becomes(t, p, op[t].id, op[t].off, op[t].m + 1, op[t].ns, op[t].slot)
    BY <1>1, <1>11, <2>1, OpAfter
  <2>3. /\ op'[t].pc = p /\ op'[t].rec = op[t].rec /\ op'[t].m = op[t].m + 1
        /\ op'[t].ns = op[t].ns
    BY <2>2 DEF Becomes
  <2>4. op[t].m < op[t].ns
    BY <1>1, <1>11 DEF ControlOf
  <2>5. \/ p = "check"
        \/ op[t].ns = op[t].m + 1 /\ (p = "end" \/ (p = "set_offlen" /\ t \in Handles))
    BY <1>1, <2>1, <2>4 DEF AfterStreams
  <2>6. QED
    BY <1>1, <1>11, <2>3, <2>5 DEF TokensDone, StreamsDone, InStreams, Listed, Rec
<1>12. CASE StreamSet(t)
  <2>1. op[t].pc = "add" /\ ToStream(t, op[t].m + 1, op[t].ns)
    BY <1>12 DEF StreamSet, At
  <2>2. Target(t) = <<"stream", op[t].m>> /\ Rec(t) \in streams[op[t].m + 1] /\ ~SetEntry(t)
    BY <1>1, <2>1 DEF Target, StreamKey, ControlOf, SetEntry, At
  <2>3. QED
    BY <1>11, <1>12, <2>1, <2>2 DEF StreamDone
<1>13. CASE CheckAndAdd(t)
  <2>1. op[t].pc = "check" /\ ~SetEntry(t) /\ ~StreamSet(t)
    BY <1>13 DEF CheckAndAdd, SetEntry, StreamSet, At
  <2>2. CASE op' = [op EXCEPT ![t].pc = "add", ![t].slot = Size(StreamKey(t))]
    <3>1. /\ op'[t].pc = "add" /\ op'[t].rec = op[t].rec /\ op'[t].m = op[t].m
          /\ op'[t].ns = op[t].ns
      BY <1>1, <2>2, OpAfter DEF Becomes
    <3>2. QED
      BY <1>1, <2>1, <3>1 DEF Stays, TokensDone, StreamsDone, InStreams, Listed, Rec
  <2>3. CASE Rec(t) \notin streams[op[t].m + 1] /\ ToStream(t, op[t].m + 1, op[t].ns)
    BY <1>11, <2>1, <2>3 DEF StreamDone
  <2>4. QED
    BY <1>13, <2>2, <2>3 DEF CheckAndAdd
<1>14. QED
  BY <1>3, <1>4, <1>5, <1>6, <1>7, <1>8, <1>9, <1>10, <1>12, <1>13 DEF Step


\* Lists of tokens are not lists of streams.
LEMMA KeysApart ==
  /\ \A k, s : <<"index", k>> # <<"stream", s>>
  /\ \A r, s : <<"stream", r>> = <<"stream", s>> => r = s
OBVIOUS

\* The bounds of TokensDone and StreamsDone.
LEMMA DoneBounds ==
  ASSUME TypeOK, ControlInv, NEW t \in Threads, HasId(t)
  PROVE  /\ TokensDone(t) \in Nat /\ StreamsDone(t) \in Nat
         /\ StreamsDone(t) <= Len(streams) /\ Len(streams) \in Nat
<1>1. /\ op[t].m \in Nat /\ op[t].ns \in Nat /\ op[t].pc # "idle" /\ ControlOf(t)
  BY OpFields DEF TypeOK, HasId, ControlInv
<1>2. Len(Rec(t).keys) \in Nat
  BY <1>1, OwnRecord
<1>3. Len(streams) \in Nat
  BY DEF TypeOK, ListType
<1>4. QED
  BY <1>1, <1>2, <1>3 DEF TokensDone, StreamsDone, ControlOf

\* An insert comes on its lists as it proceeds.
LEMMA OwnListed ==
  ASSUME TypeOK, ControlInv, IdInv, PushInv, ListedInv, NEW t \in Threads, Act(t)
  PROVE  HeldListed(t)'
<1>1. SUFFICES ASSUME HasId(t)'
               PROVE  HeldListed(t)'
  BY DEF HeldListed
<1>2. /\ streams' = streams /\ Len(streams) \in Nat
      /\ (t \in Inserters <=> t \notin Handles)
  BY ListCases, ThreadAssumption DEF TypeOK, ListType, Threads
<1>3. ASSUME NEW id, NEW r, Gets(t, id, r)
      PROVE  HeldListed(t)'
  <2>1. /\ id \in Nat /\ id \notin DOMAIN inserted /\ lists' = lists /\ op'[t].id = id
        /\ op'[t].pc \in {"claim_bytes", "append", "set_offlen"}
        /\ op'[t].pc = "set_offlen" => t \in Inserters
    BY <1>3 DEF Gets
  <2>2. \A key : ~IsEntry(key, id)
    BY <2>1, OnlyEntries DEF ListedInv
  <2>3. \A key : ~IsEntry(key, id)'
    BY <2>1, <2>2 DEF IsEntry
  <2>4. TokensDone(t)' = 0 /\ StreamsDone(t)' = 0 /\ ~InStreams(t)'
    BY <1>2, <2>1 DEF TokensDone, StreamsDone, InStreams, Listed
  <2>5. QED
    BY <2>1, <2>3, <2>4 DEF HeldListed, InStreams
<1>4. CASE inserted' = inserted
  <2>1. ~End(t)
    BY <1>1, OpAfter DEF HasId, TypeOK
  <2>2. HasId(t) /\ op'[t].id = op[t].id /\ op'[t].rec = op[t].rec /\ Step(t)
    BY <1>1, <1>4, <2>1, MiddleStep DEF Act
  <2>3. PICK id : id = op[t].id
    OBVIOUS
  <2>4. /\ id \in Nat /\ id \in DOMAIN inserted /\ inserted[id].ns <= Len(streams)
        /\ inserted[id].ns \in Nat
    <3>1. id \in Nat /\ id \in DOMAIN inserted
      BY <2>2, <2>3, OwnId
    <3>2. inserted[id] \in [rec : Records, ns : 0..Len(streams)]
      BY <3>1 DEF TypeOK, HistoryType
    <3>3. QED
      BY <1>2, <3>1, <3>2
  <2>5. /\ \A j \in 1..TokensDone(t) : IsEntry(<<"index", Rec(t).keys[j]>>, id)
        /\ \A s \in Nat :
             IsEntry(<<"stream", s>>, id) <=> s < StreamsDone(t) /\ Rec(t) \in streams[s + 1]
        /\ InStreams(t) => inserted[id].ns <= op[t].ns
    BY <2>2, <2>3 DEF ListedInv, HeldListed, InStreams
  <2>6. Rec(t)' = Rec(t) /\ op'[t].id = id
    BY <2>2, <2>3 DEF Rec
  <2>7. /\ TokensDone(t) \in Nat /\ StreamsDone(t) \in Nat /\ op[t].m \in Nat
    BY <2>2, DoneBounds, OpFields DEF TypeOK
  <2>8. SUFFICES /\ \A j \in 1..(TokensDone(t)') : IsEntry(<<"index", Rec(t).keys[j]>>, id)'
                 /\ \A s \in Nat : IsEntry(<<"stream", s>>, id)' <=>
                                     s < StreamsDone(t)' /\ Rec(t) \in streams[s + 1]
                 /\ InStreams(t)' => inserted[id].ns <= op'[t].ns
    BY <1>2, <1>4, <2>6 DEF HeldListed, InStreams
  <2>9. CASE Stays(t)
    <3>1. \A key : IsEntry(key, id)' <=> IsEntry(key, id)
      <4>1. lists' = lists \/ Reserves(t)
        BY <2>9, ListCases DEF Stays, Sets
      <4>2. QED
        BY <2>4, <4>1, EntriesSame
    <3>2. InStreams(t)' => inserted[id].ns <= op'[t].ns
      BY <2>4, <2>5, <2>9 DEF Stays
    <3>3. TokensDone(t)' = TokensDone(t) /\ StreamsDone(t)' = StreamsDone(t)
      BY <2>9 DEF Stays
    <3>4. ASSUME NEW j \in 1..TokensDone(t)
          PROVE  IsEntry(<<"index", Rec(t).keys[j]>>, id)'
      <4>1. PICK key : key = <<"index", Rec(t).keys[j]>>
        OBVIOUS
      <4>2. IsEntry(key, id)'
        BY <2>5, <3>1, <4>1
      <4>3. QED
        BY <2>6, <4>1, <4>2
    <3>5. ASSUME NEW s \in Nat
          PROVE  IsEntry(<<"stream", s>>, id)' <=>
                   s < StreamsDone(t) /\ Rec(t) \in streams[s + 1]
      BY <2>5, <3>1
    <3>6. QED
      BY <3>2, <3>3, <3>4, <3>5
  <2>10. CASE TokenDone(t)
    <3>1. /\ TokensDone(t) = op[t].m /\ TokensDone(t)' = op[t].m + 1
          /\ StreamsDone(t) = 0 /\ StreamsDone(t)' = 0 /\ ~InStreams(t)'
          /\ SetEntry(t) /\ Target(t) = <<"index", Rec(t).keys[op[t].m + 1]>>
      BY <2>10 DEF TokenDone
    <3>2. \A key : IsEntry(key, id)' <=> IsEntry(key, id) \/ key = Target(t)
      <4>1. Sets(t)
        BY <3>1, ListCases
      <4>2. QED
        BY <2>3, <2>4, <4>1, EntryAdded
    <3>3. ASSUME NEW j \in 1..(op[t].m + 1)
          PROVE  IsEntry(<<"index", Rec(t).keys[j]>>, id)'
      <4>1. j \in 1..op[t].m \/ j = op[t].m + 1
        BY <2>7
      <4>2. PICK key : key = <<"index", Rec(t).keys[j]>>
        OBVIOUS
      <4>3. IsEntry(key, id) \/ key = Target(t)
        BY <2>5, <3>1, <4>1, <4>2
      <4>4. IsEntry(key, id)'
        BY <3>2, <4>3
      <4>5. QED
        BY <2>6, <4>2, <4>4
    <3>4. \A s \in Nat : IsEntry(<<"stream", s>>, id)' <=> IsEntry(<<"stream", s>>, id)
      BY <3>1, <3>2, KeysApart
    <3>5. QED
      BY <2>5, <3>1, <3>3, <3>4
  <2>11. CASE StreamDone(t)
    <3>1. /\ TokensDone(t)' = TokensDone(t)
          /\ StreamsDone(t) = op[t].m /\ StreamsDone(t)' = op[t].m + 1
          /\ InStreams(t) /\ op'[t].ns = op[t].ns
      BY <2>11 DEF StreamDone
    <3>2. ASSUME NEW key
          PROVE  IsEntry(key, id)' <=>
                   \/ IsEntry(key, id)
                   \/ key = <<"stream", op[t].m>> /\ Rec(t) \in streams[op[t].m + 1]
      <4>1. CASE StreamSet(t)
        <5>1. Sets(t) /\ Target(t) = <<"stream", op[t].m>> /\ Rec(t) \in streams[op[t].m + 1]
          BY <2>11, <4>1, ListCases DEF StreamDone
        <5>2. QED
          BY <2>3, <2>4, <5>1, EntryAdded
      <4>2. CASE ~StreamSet(t)
        <5>1. (lists' = lists \/ Reserves(t)) /\ Rec(t) \notin streams[op[t].m + 1]
          BY <2>11, <4>2, ListCases DEF StreamDone, Sets
        <5>2. QED
          BY <2>4, <5>1, EntriesSame
      <4>3. QED
        BY <4>1, <4>2
    <3>3. ASSUME NEW j \in 1..TokensDone(t)
          PROVE  IsEntry(<<"index", Rec(t).keys[j]>>, id)'
      <4>1. PICK key : key = <<"index", Rec(t).keys[j]>>
        OBVIOUS
      <4>2. IsEntry(key, id)'
        BY <2>5, <3>2, <4>1
      <4>3. QED
        BY <2>6, <4>1, <4>2
    <3>4. ASSUME NEW s \in Nat
          PROVE  IsEntry(<<"stream", s>>, id)' <=> s < op[t].m + 1 /\ Rec(t) \in streams[s + 1]
      <4>1. CASE s = op[t].m
        <5>1. ~IsEntry(<<"stream", s>>, id)
          BY <2>5, <2>7, <3>1, <4>1
        <5>2. QED
          BY <2>7, <3>2, <4>1, <5>1
      <4>2. CASE s # op[t].m
        <5>1. <<"stream", s>> # <<"stream", op[t].m>>
          BY <4>2, KeysApart
        <5>2. IsEntry(<<"stream", s>>, id)' <=> IsEntry(<<"stream", s>>, id)
          BY <3>2, <5>1
        <5>3. s < op[t].m + 1 <=> s < op[t].m
          BY <2>7, <4>2
        <5>4. QED
          BY <2>5, <3>1, <5>2, <5>3
      <4>3. QED
        BY <4>1, <4>2
    <3>5. QED
      BY <2>5, <3>1, <3>3, <3>4
  <2>12. QED
    BY <2>1, <2>2, <2>9, <2>10, <2>11, Progress
<1>5. QED
  BY <1>3, <1>4, InsertedStep

\* The lists of another insert are not touched.
LEMMA OtherListed ==
  ASSUME TypeOK, ControlInv, IdInv, PushInv, ListedInv, NEW t \in Threads, Act(t),
         NEW u \in Threads, u # t
  PROVE  HeldListed(u)'
<1>1. op'[u] = op[u] /\ HasId(u)' = HasId(u)
  BY Locality, OtherHeld DEF TypeOK
<1>2. SUFFICES ASSUME HasId(u)
               PROVE  HeldListed(u)'
  BY <1>1 DEF HeldListed
<1>3. streams' = streams
  BY ListCases
<1>4. PICK id : id = op[u].id
  OBVIOUS
<1>5. id \in Nat /\ id \in HeldIds(u) /\ id \in DOMAIN inserted
  BY <1>2, <1>4, OwnId
<1>6. ~HasId(t) \/ id # op[t].id
  BY <1>5, OwnId DEF IdInv
<1>7. \A key : IsEntry(key, id)' <=> IsEntry(key, id)
  BY <1>5, <1>6, EntriesKept
<1>8. inserted'[id] = inserted[id]
  BY <1>5, InsertedKept
<1>9. /\ TokensDone(u)' = TokensDone(u) /\ StreamsDone(u)' = StreamsDone(u)
      /\ Listed(u)' = Listed(u) /\ Rec(u)' = Rec(u)
  BY <1>1 DEF TokensDone, StreamsDone, Listed, Rec
<1>10. HeldListed(u)
  BY DEF ListedInv
<1>11. /\ \A j \in 1..TokensDone(u) : IsEntry(<<"index", Rec(u).keys[j]>>, id)
       /\ \A s \in Nat :
            IsEntry(<<"stream", s>>, id) <=> s < StreamsDone(u) /\ Rec(u) \in streams[s + 1]
       /\ op[u].pc \in {"check", "add"} \/ Listed(u) => inserted[id].ns <= op[u].ns
  BY <1>2, <1>4, <1>10 DEF HeldListed
<1>12. QED
  BY <1>1, <1>3, <1>4, <1>7, <1>8, <1>9, <1>11 DEF HeldListed

\* A new stream leaves what an insert has done.
LEMMA StreamListed ==
  ASSUME TypeOK, ControlInv, ListedInv, AddStream, NEW u \in Threads
  PROVE  HeldListed(u)'
<1>1. UNCHANGED <<op, lists, inserted, handle>>
  BY DEF AddStream
<1>2. /\ HasId(u)' = HasId(u) /\ TokensDone(u)' = TokensDone(u)
      /\ StreamsDone(u)' = StreamsDone(u)
      /\ Listed(u)' = Listed(u) /\ Rec(u)' = Rec(u)
      /\ \A key, id : IsEntry(key, id)' = IsEntry(key, id)
  BY <1>1 DEF HasId, TokensDone, StreamsDone, Listed, Rec, IsEntry
<1>3. SUFFICES ASSUME HasId(u)
               PROVE  HeldListed(u)'
  BY <1>2 DEF HeldListed
<1>4. streams \in Seq(StreamFns) /\ Len(streams) \in Nat
  BY DEF TypeOK, ListType
<1>5. StreamsDone(u) \in Nat /\ StreamsDone(u) <= Len(streams)
  BY <1>3, DoneBounds
<1>6. ASSUME NEW s \in Nat, s < StreamsDone(u)
      PROVE  streams'[s + 1] = streams[s + 1]
  <2>1. s + 1 \in 1..Len(streams)
    BY <1>4, <1>5, <1>6
  <2>2. QED
    BY <1>4, <2>1 DEF AddStream
<1>7. HeldListed(u)
  BY DEF ListedInv
<1>8. QED
  BY <1>1, <1>2, <1>3, <1>6, <1>7 DEF HeldListed


\* The lists and streams of a record, as PublishedListed wants them.
OnLists(id) ==
  /\ \A m \in DOMAIN inserted[id].rec.keys : IsEntry(<<"index", inserted[id].rec.keys[m]>>, id)
  /\ \A s \in 1..inserted[id].ns :
       IsEntry(<<"stream", s - 1>>, id) <=> inserted[id].rec \in streams[s]

LEMMA PublishedLists ==
  PublishedListed <=> \A id \in 0..(current_read_id - 1) \cap DOMAIN inserted : OnLists(id)
BY DEF PublishedListed, OnLists, IsEntry

LEMMA PublishedListsPrime ==
  (PublishedListed <=>
     \A id \in 0..(current_read_id - 1) \cap DOMAIN inserted : OnLists(id))'
BY PublishedLists, PTL

\* What end() publishes is on its lists.
LEMMA EndLists ==
  ASSUME TypeOK, ControlInv, IdInv, ListedInv, NEW t \in Threads, op[t].pc = "end", HasId(t)
  PROVE  OnLists(op[t].id)
<1>1. PICK id : id = op[t].id
  OBVIOUS
<1>2. /\ id \in DOMAIN inserted /\ inserted[id].rec = Rec(t)
      /\ inserted[id] \in [rec : Records, ns : 0..Len(streams)]
  BY <1>1, OwnId DEF TypeOK, HistoryType
<1>3. /\ Rec(t).keys \in Seq(Nat) /\ DOMAIN Rec(t).keys = 1..Len(Rec(t).keys)
  BY OwnRecord
<1>4. /\ TokensDone(t) = Len(Rec(t).keys) /\ StreamsDone(t) = op[t].ns
      /\ op[t].ns \in Nat /\ Len(streams) \in Nat
  BY OpFields DEF TokensDone, StreamsDone, Listed, TypeOK, ListType
<1>5. HeldListed(t)
  BY DEF ListedInv
<1>6. /\ \A j \in 1..TokensDone(t) : IsEntry(<<"index", Rec(t).keys[j]>>, id)
      /\ \A s \in Nat :
           IsEntry(<<"stream", s>>, id) <=> s < StreamsDone(t) /\ Rec(t) \in streams[s + 1]
      /\ inserted[id].ns <= op[t].ns
  BY <1>1, <1>5 DEF HeldListed, Listed
<1>7. ASSUME NEW s \in 1..inserted[id].ns
      PROVE  IsEntry(<<"stream", s - 1>>, id) <=> Rec(t) \in streams[s]
  <2>1. s - 1 \in Nat /\ (s - 1) + 1 = s /\ s - 1 < op[t].ns
    BY <1>2, <1>4, <1>6
  <2>2. PICK q \in Nat : q = s - 1 /\ q + 1 = s
    BY <2>1
  <2>3. QED
    BY <1>4, <1>6, <2>1, <2>2
<1>8. QED
  BY <1>1, <1>2, <1>3, <1>4, <1>6, <1>7 DEF OnLists

\* Published records stay on their lists.
LEMMA ListsKept ==
  ASSUME TypeOK, ControlInv, IdInv, PushInv, [Next]_vars,
         NEW id \in DOMAIN inserted, id < current_read_id, OnLists(id)
  PROVE  OnLists(id)'
<1>1. /\ id \in Nat /\ inserted[id] \in [rec : Records, ns : 0..Len(streams)]
      /\ current_read_id \in Nat /\ Len(streams) \in Nat
  BY DEF TypeOK, HistoryType, LogType, ListType
<1>2. inserted'[id] = inserted[id] /\ \A key : IsEntry(key, id)' <=> IsEntry(key, id)
  <2>1. ASSUME NEW t \in Threads, Act(t)
        PROVE  inserted'[id] = inserted[id] /\ \A key : IsEntry(key, id)' <=> IsEntry(key, id)
    <3>1. inserted'[id] = inserted[id]
      BY <2>1, InsertedKept
    <3>2. ~HasId(t) \/ id # op[t].id
      BY <1>1, OwnId
    <3>3. QED
      BY <1>1, <2>1, <3>1, <3>2, EntriesKept
  <2>2. CASE UNCHANGED <<lists, inserted>>
    BY <2>2 DEF IsEntry
  <2>3. QED
    BY <2>1, <2>2 DEF Next, Act, AddStream, vars, store
<1>3. \A s \in 1..inserted[id].ns : streams'[s] = streams[s]
  BY <1>1, StreamsGrow
<1>4. PICK r : r = inserted[id].rec
  OBVIOUS
<1>5. PICK n : n = inserted[id].ns
  OBVIOUS
<1>6. ASSUME NEW m \in DOMAIN r.keys
      PROVE  IsEntry(<<"index", r.keys[m]>>, id)'
  <2>1. PICK key : key = <<"index", r.keys[m]>>
    OBVIOUS
  <2>2. IsEntry(key, id)'
    BY <1>2, <1>4, <2>1 DEF OnLists
  <2>3. QED
    BY <2>1, <2>2
<1>7. ASSUME NEW s \in 1..n
      PROVE  IsEntry(<<"stream", s - 1>>, id)' <=> r \in streams'[s]
  BY <1>2, <1>3, <1>4, <1>5 DEF OnLists
<1>8. QED
  BY <1>2, <1>4, <1>5, <1>6, <1>7 DEF OnLists

\* Published records are on their lists.
LEMMA PublishedStep ==
  ASSUME TypeOK, TypeOK', ControlInv, IdInv, PushInv, ListedInv, [Next]_vars
  PROVE  PublishedListed'
<1>1. current_read_id \in Nat /\ current_read_id' \in Nat
  BY DEF TypeOK, LogType
<1>2. PICK c : c = current_read_id'
  OBVIOUS
<1>3. ASSUME NEW id \in 0..(c - 1), id \in DOMAIN inserted'
      PROVE  OnLists(id)'
  <2>1. CASE id < current_read_id
    <3>1. id \in DOMAIN inserted /\ id \in 0..(current_read_id - 1)
      BY <1>1, <2>1 DEF IdInv
    <3>2. OnLists(id)
      BY <3>1, PublishedLists DEF ListedInv
    <3>3. QED
      BY <2>1, <3>1, <3>2, ListsKept
  <2>2. CASE ~(id < current_read_id)
    <3>1. c # current_read_id
      BY <1>1, <1>2, <1>3, <2>2
    <3>2. PICK t \in Threads : Act(t)
      BY <1>2, <3>1 DEF Next, Act, AddStream, vars, store
    <3>3. /\ End(t) /\ HasId(t) /\ current_read_id = op[t].id
          /\ c = current_read_id + 1
          /\ UNCHANGED <<inserted, lists, streams>>
      BY <1>2, <3>1, <3>2, EndStep
    <3>4. id = op[t].id
      BY <1>1, <1>3, <2>2, <3>3
    <3>5. op[t].pc = "end"
      BY <3>3 DEF End, At
    <3>6. OnLists(op[t].id)
      BY <3>3, <3>5, EndLists
    <3>7. QED
      BY <3>3, <3>4, <3>6 DEF OnLists, IsEntry
  <2>3. QED
    BY <2>1, <2>2
<1>4. QED
  BY <1>2, <1>3, PublishedListsPrime

\* The lists are right after every step.
LEMMA ListedStep ==
  ASSUME TypeOK, TypeOK', ControlInv, IdInv, PushInv, ListedInv, [Next]_vars
  PROVE  ListedInv'
<1>1. OnlyInserted'
  BY OnlyStep DEF ListedInv
<1>2. ASSUME NEW u \in Threads
      PROVE  HeldListed(u)'
  <2>1. ASSUME NEW t \in Threads, Act(t)
        PROVE  HeldListed(u)'
    BY <2>1, OwnListed, OtherListed
  <2>2. CASE AddStream
    BY <2>2, StreamListed
  <2>3. CASE UNCHANGED vars
    <3>1. HeldListed(u)
      BY DEF ListedInv
    <3>2. UNCHANGED <<op, lists, streams, inserted>>
      BY <2>3 DEF vars, store
    <3>3. QED
      BY <3>1, <3>2
      DEF HeldListed, HasId, TokensDone, StreamsDone, Listed, Rec, IsEntry
  <2>4. QED
    BY <2>1, <2>2, <2>3 DEF Next, Act
<1>3. QED
  BY <1>1, <1>2, PublishedStep DEF ListedInv


-----------------------------------------------------------------------------
(* Offsets                                                                 *)

\* offlens changes only when an insert sets its own.
LEMMA OffLenCases ==
  ASSUME TypeOK, NEW t \in Threads, Act(t)
  PROVE  \/ offlens' = offlens /\ ~SetOffLen(t)
         \/ /\ SetOffLen(t) /\ HasId(t)
            /\ DOMAIN offlens' = DOMAIN offlens \cup {op[t].id}
            /\ offlens'[op[t].id] = [off |-> op[t].off, len |-> Rec(t).len]
            /\ \A x \in DOMAIN offlens : x # op[t].id => offlens'[x] = offlens[x]
<1>1. CASE SetOffLen(t)
  <2>1. HasId(t)
    BY <1>1 DEF SetOffLen, At, HasId
  <2>2. QED
    BY <1>1, <2>1 DEF SetOffLen
<1>2. CASE ~SetOffLen(t)
  BY <1>2 DEF Act, Begin, Step, store, ClaimIds, ClaimBytes, AllocBytes, ClaimId, AppendRecord,
              AddEntry, SetEntry, LoadStreams, CheckAndAdd, StreamSet, End
<1>3. QED
  BY <1>1, <1>2

\* Where the bytes of an insert are is settled when it gets them.
LEMMA OffsetSteady ==
  ASSUME TypeOK, ControlInv, NEW t \in Threads, Step(t), ~End(t), HasId(t)
  PROVE  /\ OffsetSet(t) /\ ~SetOffLen(t) => OffsetSet(t)' /\ op'[t].off = op[t].off
         /\ ~OffsetSet(t) /\ ~SetOffLen(t) => ~OffsetSet(t)'
         /\ SetOffLen(t) => OffsetSet(t)' /\ op'[t].off = op[t].off
<1>1. /\ ThreadType /\ ControlOf(t) /\ op[t].m \in Nat /\ op[t].ns \in Nat
      /\ (t \in Inserters <=> t \notin Handles)
      /\ op[t].pc # "idle" /\ op[t].pc # "claim_ids"
      /\ (t \in Inserters => op[t].pc \notin {"claim_bytes", "alloc_bytes", "claim_id"})
  BY OpFields, ThreadAssumption DEF TypeOK, ControlInv, HasId, Threads
<1>2. ~ClaimIds(t) /\ ~ClaimId(t)
  BY <1>1 DEF ClaimIds, ClaimId, At, ControlOf
<1>3. CASE ClaimBytes(t) \/ AllocBytes(t)
  <2>1. /\ t \in Handles /\ op[t].pc \in {"claim_bytes", "alloc_bytes"}
        /\ op'[t].pc \in {"alloc_bytes", "append"}
    BY <1>1, <1>3, OpAfter DEF ClaimBytes, AllocBytes, At, Becomes
  <2>2. QED
    BY <1>1, <2>1 DEF OffsetSet, SetOffLen, At
<1>4. CASE SetOffLen(t)
  <2>1. /\ op[t].pc = "set_offlen" /\ op'[t].pc = IF t \in Handles THEN "end" ELSE "append"
        /\ op'[t].off = op[t].off
    BY <1>1, <1>4, OpAfter DEF SetOffLen, At, Becomes
  <2>2. QED
    BY <1>1, <1>4, <2>1 DEF OffsetSet, HasId
<1>5. ASSUME op'[t].off = op[t].off,
             op[t].pc \in {"append", "reserve", "set", "load_streams", "check", "add"},
             \/ op'[t].pc \in {"reserve", "set", "load_streams", "check", "add"}
             \/ op'[t].pc = AfterStreams(t)
      PROVE  /\ ~SetOffLen(t)
             /\ OffsetSet(t) => OffsetSet(t)' /\ op'[t].off = op[t].off
             /\ ~OffsetSet(t) => ~OffsetSet(t)'
  BY <1>1, <1>5 DEF OffsetSet, SetOffLen, At, HasId, AfterStreams
<1>6. ASSUME op[t].pc \in {"append", "reserve", "set", "load_streams", "check", "add"}, ~SetOffLen(t)
      PROVE  /\ op'[t].off = op[t].off
             /\ \/ op'[t].pc \in {"reserve", "set", "load_streams", "check", "add"}
                \/ op'[t].pc = AfterStreams(t)
  <2>1. CASE AppendRecord(t) \/ AddEntry(t) \/ SetEntry(t)
    BY <1>1, <2>1, OpAfter DEF Becomes, AfterTokens
  <2>2. ASSUME NEW m, NEW ns, ToStream(t, m, ns)
        PROVE  /\ op'[t].off = op[t].off
               /\ op'[t].pc = "check" \/ op'[t].pc = AfterStreams(t)
    BY <1>1, <2>2, OpAfter DEF Becomes
  <2>3. CASE LoadStreams(t) \/ StreamSet(t)
    BY <2>2, <2>3 DEF LoadStreams, StreamSet
  <2>4. CASE CheckAndAdd(t)
    <3>1. CASE op' = [op EXCEPT ![t].pc = "add", ![t].slot = Size(StreamKey(t))]
      BY <1>1, <3>1, OpAfter DEF Becomes
    <3>2. QED
      BY <2>2, <2>4, <3>1 DEF CheckAndAdd
  <2>5. ~ClaimBytes(t) /\ ~AllocBytes(t)
    BY <1>6 DEF ClaimBytes, AllocBytes, At
  <2>6. QED
    BY <1>2, <1>6, <2>1, <2>3, <2>4, <2>5 DEF Step
<1>7. CASE AppendRecord(t) \/ AddEntry(t) \/ SetEntry(t) \/ LoadStreams(t) \/ CheckAndAdd(t)
           \/ StreamSet(t)
  <2>1. op[t].pc \in {"append", "reserve", "set", "load_streams", "check", "add"}
    BY <1>7 DEF AppendRecord, AddEntry, SetEntry, LoadStreams, CheckAndAdd, StreamSet, At
  <2>2. ~SetOffLen(t)
    BY <2>1 DEF SetOffLen, At
  <2>3. QED
    BY <1>5, <1>6, <2>1, <2>2
<1>8. QED
  BY <1>2, <1>3, <1>4, <1>7 DEF Step

\* An insert sets its offset and length once.
LEMMA OwnOffset ==
  ASSUME TypeOK, ControlInv, IdInv, OffsetInv, NEW t \in Threads, Act(t)
  PROVE  OffsetOf(t)'
<1>1. SUFFICES ASSUME HasId(t)'
               PROVE  OffsetOf(t)'
  BY DEF OffsetOf
<1>2. t \in Inserters <=> t \notin Handles
  BY ThreadAssumption DEF Threads
<1>3. ASSUME NEW id, NEW r, Gets(t, id, r)
      PROVE  OffsetOf(t)'
  <2>1. /\ id \notin DOMAIN inserted /\ offlens' = offlens /\ op'[t].id = id
        /\ op'[t].pc \in {"claim_bytes", "append", "set_offlen"}
        /\ op'[t].pc = "set_offlen" => t \in Inserters
        /\ op'[t].pc \in {"claim_bytes", "append"} => t \in Handles
    BY <1>3 DEF Gets
  <2>2. id \notin DOMAIN offlens'
    BY <2>1 DEF TypeOK, LogType
  <2>3. ~OffsetSet(t)'
    BY <1>2, <2>1 DEF OffsetSet
  <2>4. QED
    BY <2>1, <2>2, <2>3 DEF OffsetOf
<1>4. CASE inserted' = inserted
  <2>1. ~End(t)
    BY <1>1, OpAfter DEF HasId, TypeOK
  <2>2. HasId(t) /\ op'[t].id = op[t].id /\ op'[t].rec = op[t].rec /\ Step(t)
    BY <1>1, <1>4, <2>1, MiddleStep DEF Act
  <2>3. OffsetOf(t)
    BY DEF OffsetInv
  <2>4. /\ OffsetSet(t) /\ ~SetOffLen(t) => OffsetSet(t)' /\ op'[t].off = op[t].off
        /\ ~OffsetSet(t) /\ ~SetOffLen(t) => ~OffsetSet(t)'
        /\ SetOffLen(t) => OffsetSet(t)' /\ op'[t].off = op[t].off
    BY <2>1, <2>2, OffsetSteady
  <2>5. CASE ~SetOffLen(t)
    <3>1. offlens' = offlens
      BY <2>5, OffLenCases
    <3>2. QED
      BY <2>2, <2>3, <2>4, <2>5, <3>1 DEF OffsetOf, Rec
  <2>6. CASE SetOffLen(t)
    <3>1. /\ op[t].id \in DOMAIN offlens'
          /\ offlens'[op[t].id] = [off |-> op[t].off, len |-> Rec(t).len]
      BY <2>6, OffLenCases
    <3>2. QED
      BY <2>2, <2>4, <2>6, <3>1 DEF OffsetOf, Rec
  <2>7. QED
    BY <2>5, <2>6
<1>5. QED
  BY <1>3, <1>4, InsertedStep

\* Whose offset is not set stays so in the steps of others.
LEMMA OffLenKept ==
  ASSUME TypeOK, IdInv, NEW t \in Threads, Act(t), NEW id, ~HasId(t) \/ id # op[t].id
  PROVE  /\ id \in DOMAIN offlens' <=> id \in DOMAIN offlens
         /\ id \in DOMAIN offlens => offlens'[id] = offlens[id]
BY OffLenCases

LEMMA OtherOffset ==
  ASSUME TypeOK, ControlInv, IdInv, OffsetInv, NEW t \in Threads, Act(t),
         NEW u \in Threads, u # t
  PROVE  OffsetOf(u)'
<1>1. op'[u] = op[u] /\ HasId(u)' = HasId(u)
  BY Locality, OtherHeld DEF TypeOK
<1>2. SUFFICES ASSUME HasId(u)
               PROVE  OffsetOf(u)'
  BY <1>1 DEF OffsetOf
<1>3. PICK id : id = op[u].id
  OBVIOUS
<1>4. id \in HeldIds(u)
  BY <1>2, <1>3, OwnId
<1>5. ~HasId(t) \/ id # op[t].id
  BY <1>4, OwnId DEF IdInv
<1>6. /\ id \in DOMAIN offlens' <=> id \in DOMAIN offlens
      /\ id \in DOMAIN offlens => offlens'[id] = offlens[id]
  BY <1>5, OffLenKept
<1>7. OffsetSet(u)' = OffsetSet(u) /\ Rec(u)' = Rec(u)
  BY <1>1 DEF OffsetSet, Rec
<1>8. OffsetOf(u)
  BY DEF OffsetInv
<1>9. QED
  BY <1>1, <1>2, <1>3, <1>6, <1>7, <1>8 DEF OffsetOf

\* Offsets are set exactly when an insert has set its own, and all that is
\* published is set.
LEMMA OffsetStep ==
  ASSUME TypeOK, TypeOK', ControlInv, IdInv, OffsetInv, [Next]_vars
  PROVE  OffsetInv'
<1>1. current_read_id \in Nat /\ current_read_id' \in Nat
  BY DEF TypeOK, LogType
<1>2. PICK c : c = current_read_id'
  OBVIOUS
<1>3. ASSUME NEW t \in Threads, Act(t)
      PROVE  OffsetInv'
  <2>1. \A u \in Threads : OffsetOf(u)'
    BY <1>3, OwnOffset, OtherOffset
  <2>2. DOMAIN offlens \subseteq DOMAIN offlens'
    BY <1>3, OffLenCases
  <2>3. ASSUME NEW id \in 0..(c - 1)
        PROVE  id \in DOMAIN offlens
    <3>1. CASE id < current_read_id
      <4>1. id \in 0..(current_read_id - 1)
        BY <1>1, <3>1
      <4>2. QED
        BY <4>1 DEF OffsetInv
    <3>2. CASE ~(id < current_read_id)
      <4>1. c # current_read_id
        BY <1>1, <3>2
      <4>2. End(t) /\ HasId(t) /\ current_read_id = op[t].id /\ c = current_read_id + 1
        BY <1>2, <1>3, <4>1, EndStep
      <4>3. id = op[t].id
        BY <1>1, <2>3, <3>2, <4>2
      <4>4. OffsetSet(t)
        BY <4>2 DEF End, At, OffsetSet
      <4>5. QED
        BY <4>2, <4>3, <4>4 DEF OffsetInv, OffsetOf
    <3>3. QED
      BY <3>1, <3>2
  <2>4. QED
    BY <1>2, <2>1, <2>2, <2>3 DEF OffsetInv
<1>4. CASE UNCHANGED <<op, offlens, current_read_id>>
  BY <1>4 DEF OffsetInv, OffsetOf, OffsetSet, HasId, Rec
<1>5. QED
  BY <1>3, <1>4 DEF Next, Act, AddStream, vars, store


-----------------------------------------------------------------------------
(* Bytes                                                                   *)

\* Bytes are only ever claimed, and belong to who claimed them.
LEMMA BytesClaimed ==
  ASSUME TypeOK, ControlInv, NEW t \in Threads, Act(t)
  PROVE  /\ dtail \in Nat /\ dtail' \in Nat /\ dtail <= dtail'
         /\ \A b \in 0..(dtail - 1) : owner'[b] = owner[b]
         /\ ~AppendRecord(t) => dlog' = dlog /\ overrun' = overrun
         /\ ~ClaimBytes(t) => dtail' = dtail /\ owner' = owner
<1>1. dtail \in Nat
  BY DEF TypeOK, LogType
<1>2. CASE ClaimBytes(t)
  <2>1. Request(t) \in Nat
    BY <1>2, OwnRecord DEF ClaimBytes, At
  <2>2. dtail' = dtail + Request(t)
    BY <1>2 DEF ClaimBytes
  <2>3. PICK n : n = dtail'
    OBVIOUS
  <2>4. n \in Nat /\ dtail <= n
    BY <1>1, <2>1, <2>2, <2>3
  <2>5. owner' = [b \in 0..(n - 1) |-> IF b < dtail THEN owner[b] ELSE t]
    BY <1>2, <2>3 DEF ClaimBytes
  <2>6. \A b \in 0..(dtail - 1) : owner'[b] = owner[b]
    BY <1>1, <2>4, <2>5
  <2>7. dlog' = dlog /\ overrun' = overrun
    BY <1>2 DEF ClaimBytes
  <2>8. QED
    BY <1>1, <1>2, <2>3, <2>4, <2>6, <2>7
<1>3. CASE ~ClaimBytes(t)
  <2>1. dtail' = dtail /\ owner' = owner /\ (~AppendRecord(t) => dlog' = dlog /\ overrun' = overrun)
    BY <1>3 DEF Act, Begin, Step, store, ClaimIds, AllocBytes, ClaimId, SetOffLen, AppendRecord,
                AddEntry, SetEntry, LoadStreams, CheckAndAdd, StreamSet, End
  <2>2. QED
    BY <1>1, <2>1
<1>4. QED
  BY <1>2, <1>3

\* append_record writes the bytes of its record, in order ...
LEMMA ReadBack ==
  ASSUME TypeOK, ControlInv, NEW t \in Threads, AppendRecord(t)
  PROVE  read(op[t].off, Rec(t).len)' = Bytes(Rec(t))
<1>1. PICK o : o = op[t].off
  OBVIOUS
<1>2. PICK r : r = Rec(t)
  OBVIOUS
<1>3. o \in Nat /\ r.len \in Nat /\ BlockSize \in Nat \ {0}
  BY <1>1, <1>2, OpFields, OwnRecord, BlockAssumption DEF TypeOK, AppendRecord, At
<1>4. op'[t].off = o /\ Rec(t)' = r
  BY <1>1, <1>2, OpAfter DEF TypeOK, Becomes, Rec
<1>5. PICK B \in Nat \ {0} : B = BlockSize
  BY <1>3
<1>6. PICK cells : cells = Run(o, r.len, B)
  OBVIOUS
<1>7. dlog' = [a \in DOMAIN dlog \cup cells |->
                 IF a \in cells THEN Bytes(r)[a[2] - BucketOff(o, B)] ELSE dlog[a]]
  BY <1>1, <1>2, <1>5, <1>6 DEF AppendRecord
<1>8. BucketOff(o, B) \in Nat
  BY <1>3, RunCells
<1>9. ASSUME NEW j \in 0..(r.len - 1)
      PROVE  Addr(o, j, B) \in DOMAIN dlog' /\ dlog'[Addr(o, j, B)] = <<r, j>>
  <2>1. PICK a : a = Addr(o, j, B)
    OBVIOUS
  <2>2. a \in cells
    BY <1>6, <2>1 DEF Run
  <2>3. a[2] = BucketOff(o, B) + j
    BY <2>1 DEF Addr
  <2>4. a[2] - BucketOff(o, B) = j
    BY <1>3, <1>8, <2>3
  <2>5. Bytes(r)[j] = <<r, j>>
    BY DEF Bytes
  <2>6. QED
    BY <1>7, <2>1, <2>2, <2>4, <2>5
<1>10. read(o, r.len)' = Bytes(r)
  BY <1>5, <1>9 DEF read, Bytes
<1>11. QED
  BY <1>2, <1>4, <1>10

\* ... and no other.
LEMMA ReadKept ==
  ASSUME TypeOK, ControlInv, NEW t \in Threads, AppendRecord(t), NEW o \in Nat, NEW n \in Nat,
         o + n <= op[t].off \/ op[t].off + Rec(t).len <= o
  PROVE  read(o, n)' = read(o, n)
<1>1. PICK p : p = op[t].off
  OBVIOUS
<1>2. PICK r : r = Rec(t)
  OBVIOUS
<1>3. p \in Nat /\ r.len \in Nat /\ BlockSize \in Nat \ {0}
  BY <1>1, <1>2, OpFields, OwnRecord, BlockAssumption DEF TypeOK, AppendRecord, At
<1>4. PICK B \in Nat \ {0} : B = BlockSize
  BY <1>3
<1>5. PICK cells : cells = Run(p, r.len, B)
  OBVIOUS
<1>6. dlog' = [a \in DOMAIN dlog \cup cells |->
                 IF a \in cells THEN Bytes(r)[a[2] - BucketOff(p, B)] ELSE dlog[a]]
  BY <1>1, <1>2, <1>4, <1>5 DEF AppendRecord
<1>7. Run(o, n, B) \cap cells = {}
  <2>1. CASE o + n <= p
    BY <1>3, <1>5, <2>1, RunsApart
  <2>2. CASE p + r.len <= o
    BY <1>3, <1>5, <2>2, RunsApart
  <2>3. QED
    BY <1>1, <1>2, <2>1, <2>2
<1>8. ASSUME NEW j \in 0..(n - 1)
      PROVE  LET a == Addr(o, j, B)
             IN  (IF a \in DOMAIN dlog' THEN dlog'[a] ELSE Unset)
                   = (IF a \in DOMAIN dlog THEN dlog[a] ELSE Unset)
  <2>1. PICK a : a = Addr(o, j, B)
    OBVIOUS
  <2>2. a \notin cells
    BY <1>7, <2>1 DEF Run
  <2>3. QED
    BY <1>6, <2>1, <2>2
<1>9. QED
  BY <1>4, <1>8 DEF read


\* The first byte a thread may still write.
LEMMA FrontNat ==
  ASSUME TypeOK, ControlInv, NEW t \in Threads
  PROVE  Front(t) \in Nat
<1>1. /\ op[t].off \in Nat /\ dtail \in Nat /\ (t \in Handles => handle[t].off \in Nat)
  BY OpFields DEF TypeOK, LogType
<1>2. Appended(t) => Rec(t).len \in Nat
  BY OwnRecord DEF Appended, Listed
<1>3. QED
  BY <1>1, <1>2 DEF Front

\* A handle's place and its insert's through the steps of an insert.
LEMMA HandleSteps ==
  ASSUME TypeOK, ControlInv, NEW t \in Handles, Act(t)
  PROVE  \/ /\ Begin(t) \/ ClaimIds(t)
            /\ ~Appended(t) /\ ~Appended(t)'
            /\ handle'[t].off = handle[t].off
            /\ HasId(t)' => op'[t].off = handle[t].off
         \/ /\ ClaimBytes(t)
            /\ ~Appended(t) /\ ~Appended(t)'
            /\ handle'[t].off = dtail /\ op'[t].off = dtail
         \/ /\ AllocBytes(t)
            /\ ~Appended(t) /\ ~Appended(t)'
            /\ handle'[t].off = handle[t].off /\ op'[t].off = op[t].off
         \/ /\ AppendRecord(t)
            /\ ~Appended(t) /\ Appended(t)'
            /\ handle'[t].off = handle[t].off /\ op'[t].off = op[t].off
         \/ /\ ~AppendRecord(t)
            /\ Appended(t) /\ Appended(t)' /\ Step(t) /\ ~End(t)
            /\ handle'[t].off = handle[t].off /\ op'[t].off = op[t].off
         \/ /\ End(t)
            /\ Appended(t) /\ ~Appended(t)' /\ ~HasId(t)'
            /\ handle'[t].off = handle[t].off + Rec(t).len
<1>1. t \in Threads /\ ThreadType /\ ControlOf(t) /\ t \notin Inserters
  BY ThreadAssumption DEF Threads, TypeOK, ControlInv
<1>2. CASE Begin(t)
  <2>1. op[t].pc = "idle" /\ op'[t].pc \in {"claim_ids", "claim_bytes", "append"}
    BY <1>1, <1>2, BeginAfter
  <2>2. handle' = handle
    BY <1>2 DEF Begin
  <2>3. op'[t].pc # "claim_ids" => op'[t].off = handle[t].off
    BY <1>1, <1>2, BeginAfter
  <2>4. QED
    BY <1>2, <2>1, <2>2, <2>3 DEF Appended, Listed, HasId
<1>3. CASE ClaimIds(t)
  <2>1. /\ op[t].pc = "claim_ids" /\ op'[t].pc \in {"claim_bytes", "append"}
        /\ op'[t].off = handle[t].off
    <3>1. Becomes(t, ToBytes(handle[t].bytes, Rec(t)), current_write_id, handle[t].off,
                  op[t].m, op[t].ns, op[t].slot)
      BY <1>1, <1>3, OpAfter
    <3>2. op[t].pc = "claim_ids"
      BY <1>3 DEF ClaimIds, At
    <3>3. QED
      BY <3>1, <3>2 DEF Becomes, ToBytes
  <2>2. handle'[t].off = handle[t].off
    BY <1>1, <1>3 DEF ClaimIds, ThreadType
  <2>3. QED
    BY <1>3, <2>1, <2>2 DEF Appended, Listed
<1>4. CASE ClaimBytes(t)
  <2>1. op[t].pc = "claim_bytes" /\ op'[t].pc = "alloc_bytes" /\ op'[t].off = dtail
    BY <1>1, <1>4, OpAfter DEF Becomes, ClaimBytes, At
  <2>2. handle'[t].off = dtail
    BY <1>1, <1>4 DEF ClaimBytes, ThreadType
  <2>3. QED
    BY <1>4, <2>1, <2>2 DEF Appended, Listed
<1>5. CASE AllocBytes(t)
  <2>1. op[t].pc = "alloc_bytes" /\ op'[t].pc = "append" /\ op'[t].off = op[t].off
    <3>1. Becomes(t, "append", op[t].id, op[t].off, op[t].m, op[t].ns, op[t].slot)
      BY <1>1, <1>5, OpAfter
    <3>2. QED
      BY <1>5, <3>1 DEF Becomes, AllocBytes, At
  <2>2. handle' = handle
    BY <1>5 DEF AllocBytes
  <2>3. QED
    BY <1>5, <2>1, <2>2 DEF Appended, Listed
<1>6. CASE AppendRecord(t)
  <2>1. /\ op[t].pc = "append" /\ op'[t].pc \in {"reserve", "load_streams"}
        /\ op'[t].off = op[t].off
    <3>1. Becomes(t, AfterTokens(0, Rec(t)), op[t].id, op[t].off, op[t].m, op[t].ns, op[t].slot)
      BY <1>1, <1>6, OpAfter
    <3>2. op[t].pc = "append"
      BY <1>6 DEF AppendRecord, At
    <3>3. QED
      BY <3>1, <3>2 DEF Becomes, AfterTokens
  <2>2. handle' = handle
    BY <1>6 DEF AppendRecord
  <2>3. QED
    BY <1>6, <2>1, <2>2 DEF Appended, Listed
<1>7. CASE End(t)
  <2>1. op[t].pc = "end" /\ op'[t].pc = "idle"
    BY <1>1, <1>7, OpAfter DEF End, At
  <2>2. handle'[t].off = handle[t].off + Rec(t).len
    BY <1>1, <1>7 DEF End, ThreadType
  <2>3. QED
    BY <1>7, <2>1, <2>2 DEF Appended, Listed, HasId
<1>8. ~ClaimId(t)
  BY <1>1 DEF ClaimId, At, ControlOf
<1>9. CASE SetOffLen(t)
  <2>1. op[t].pc = "set_offlen" /\ op'[t].pc = "end" /\ op'[t].off = op[t].off
    <3>1. Becomes(t, "end", op[t].id, op[t].off, op[t].m, op[t].ns, op[t].slot)
      BY <1>1, <1>9, OpAfter
    <3>2. QED
      BY <1>9, <3>1 DEF Becomes, SetOffLen, At
  <2>2. handle' = handle
    BY <1>9 DEF SetOffLen
  <2>3. QED
    BY <1>1, <1>9, <2>1, <2>2 DEF Appended, Listed, Step, AppendRecord, End, At
<1>10. ASSUME NEW m, NEW ns, ToStream(t, m, ns)
       PROVE  op'[t].off = op[t].off /\ op'[t].pc \in {"check", "set_offlen"}
  BY <1>1, <1>10, OpAfter DEF Becomes, AfterStreams
<1>11. CASE AddEntry(t) \/ SetEntry(t) \/ LoadStreams(t) \/ CheckAndAdd(t) \/ StreamSet(t)
  <2>1. /\ op[t].pc \in {"reserve", "set", "load_streams", "check", "add"}
        /\ handle' = handle /\ Step(t)
    BY <1>11 DEF AddEntry, SetEntry, LoadStreams, CheckAndAdd, StreamSet, At, Step
  <2>2. op'[t].off = op[t].off
        /\ op'[t].pc \in {"reserve", "set", "load_streams", "check", "add", "set_offlen"}
    <3>1. CASE AddEntry(t) \/ SetEntry(t)
      BY <1>1, <3>1, OpAfter DEF Becomes, AfterTokens
    <3>2. CASE LoadStreams(t) \/ StreamSet(t)
      BY <1>10, <3>2 DEF LoadStreams, StreamSet
    <3>3. CASE CheckAndAdd(t)
      <4>1. CASE op' = [op EXCEPT ![t].pc = "add", ![t].slot = Size(StreamKey(t))]
        BY <1>1, <4>1, OpAfter DEF Becomes
      <4>2. QED
        BY <1>10, <3>3, <4>1 DEF CheckAndAdd
    <3>4. QED
      BY <1>11, <3>1, <3>2, <3>3
  <2>3. QED
    BY <1>1, <2>1, <2>2 DEF Appended, Listed, AppendRecord, End, At
<1>12. QED
  BY <1>2, <1>3, <1>4, <1>5, <1>6, <1>7, <1>8, <1>9, <1>11 DEF Act, Step


\* An insert of log_store through its steps.
LEMMA InserterSteps ==
  ASSUME TypeOK, ControlInv, NEW t \in Inserters, Act(t)
  PROVE  \/ /\ Begin(t)
            /\ ~Appended(t) /\ ~Appended(t)' /\ Front(t) = dtail /\ Front(t)' = dtail'
         \/ /\ ClaimBytes(t)
            /\ ~Appended(t) /\ ~Appended(t)' /\ Front(t) = dtail /\ Front(t)' = dtail
         \/ /\ AllocBytes(t) \/ ClaimId(t) \/ SetOffLen(t)
            /\ ~Appended(t) /\ ~Appended(t)' /\ Front(t) = op[t].off /\ Front(t)' = op[t].off
            /\ op'[t].off = op[t].off
         \/ /\ AppendRecord(t)
            /\ ~Appended(t) /\ Appended(t)' /\ Front(t) = op[t].off /\ Front(t)' = dtail'
            /\ op'[t].off = op[t].off
         \/ /\ ~AppendRecord(t)
            /\ Appended(t) /\ Appended(t)' /\ Step(t) /\ ~End(t)
            /\ Front(t) = dtail /\ Front(t)' = dtail'
            /\ op'[t].off = op[t].off
         \/ /\ End(t)
            /\ Appended(t) /\ ~Appended(t)' /\ Front(t) = dtail /\ Front(t)' = dtail'
<1>1. t \in Threads /\ ThreadType /\ ControlOf(t) /\ t \notin Handles
  BY ThreadAssumption DEF Threads, TypeOK, ControlInv
<1>2. CASE Begin(t)
  <2>1. op[t].pc = "idle" /\ op'[t].pc = "claim_bytes"
    BY <1>1, <1>2, BeginAfter
  <2>2. QED
    BY <1>1, <1>2, <2>1 DEF Appended, Listed, Front
<1>3. ~ClaimIds(t)
  BY <1>1 DEF ClaimIds, At, ControlOf
<1>4. CASE ClaimBytes(t)
  <2>1. op[t].pc = "claim_bytes" /\ op'[t].pc = "alloc_bytes" /\ op'[t].off = dtail
    BY <1>1, <1>4, OpAfter DEF Becomes, ClaimBytes, At
  <2>2. QED
    BY <1>1, <1>4, <2>1 DEF Appended, Listed, Front
<1>5. CASE AllocBytes(t)
  <2>1. op[t].pc = "alloc_bytes" /\ op'[t].pc = "claim_id" /\ op'[t].off = op[t].off
    <3>1. Becomes(t, "claim_id", op[t].id, op[t].off, op[t].m, op[t].ns, op[t].slot)
      BY <1>1, <1>5, OpAfter
    <3>2. QED
      BY <1>5, <3>1 DEF Becomes, AllocBytes, At
  <2>2. QED
    BY <1>1, <1>5, <2>1 DEF Appended, Listed, Front
<1>6. CASE ClaimId(t)
  <2>1. op[t].pc = "claim_id" /\ op'[t].pc = "set_offlen" /\ op'[t].off = op[t].off
    <3>1. Becomes(t, "set_offlen", current_write_id, op[t].off, op[t].m, op[t].ns, op[t].slot)
      BY <1>1, <1>6, OpAfter
    <3>2. QED
      BY <1>6, <3>1 DEF Becomes, ClaimId, At
  <2>2. QED
    BY <1>1, <1>6, <2>1 DEF Appended, Listed, Front
<1>7. CASE SetOffLen(t)
  <2>1. op[t].pc = "set_offlen" /\ op'[t].pc = "append" /\ op'[t].off = op[t].off
    <3>1. Becomes(t, "append", op[t].id, op[t].off, op[t].m, op[t].ns, op[t].slot)
      BY <1>1, <1>7, OpAfter
    <3>2. QED
      BY <1>7, <3>1 DEF Becomes, SetOffLen, At
  <2>2. QED
    BY <1>1, <1>7, <2>1 DEF Appended, Listed, Front
<1>8. CASE AppendRecord(t)
  <2>1. /\ op[t].pc = "append" /\ op'[t].pc \in {"reserve", "load_streams"}
        /\ op'[t].off = op[t].off
    <3>1. Becomes(t, AfterTokens(0, Rec(t)), op[t].id, op[t].off, op[t].m, op[t].ns, op[t].slot)
      BY <1>1, <1>8, OpAfter
    <3>2. op[t].pc = "append"
      BY <1>8 DEF AppendRecord, At
    <3>3. QED
      BY <3>1, <3>2 DEF Becomes, AfterTokens
  <2>2. QED
    BY <1>1, <1>8, <2>1 DEF Appended, Listed, Front
<1>9. CASE End(t)
  <2>1. op[t].pc = "end" /\ op'[t].pc = "idle"
    BY <1>1, <1>9, OpAfter DEF End, At
  <2>2. QED
    BY <1>1, <1>9, <2>1 DEF Appended, Listed, Front
<1>10. ASSUME NEW m, NEW ns, ToStream(t, m, ns)
       PROVE  op'[t].off = op[t].off /\ op'[t].pc \in {"check", "end"}
  BY <1>1, <1>10, OpAfter DEF Becomes, AfterStreams
<1>11. CASE AddEntry(t) \/ SetEntry(t) \/ LoadStreams(t) \/ CheckAndAdd(t) \/ StreamSet(t)
  <2>1. op[t].pc \in {"reserve", "set", "load_streams", "check", "add"} /\ Step(t)
    BY <1>11 DEF AddEntry, SetEntry, LoadStreams, CheckAndAdd, StreamSet, At, Step
  <2>2. op'[t].off = op[t].off
        /\ op'[t].pc \in {"reserve", "set", "load_streams", "check", "add", "end"}
    <3>1. CASE AddEntry(t) \/ SetEntry(t)
      BY <1>1, <3>1, OpAfter DEF Becomes, AfterTokens
    <3>2. CASE LoadStreams(t) \/ StreamSet(t)
      BY <1>10, <3>2 DEF LoadStreams, StreamSet
    <3>3. CASE CheckAndAdd(t)
      <4>1. CASE op' = [op EXCEPT ![t].pc = "add", ![t].slot = Size(StreamKey(t))]
        BY <1>1, <4>1, OpAfter DEF Becomes
      <4>2. QED
        BY <1>10, <3>3, <4>1 DEF CheckAndAdd
    <3>4. QED
      BY <1>11, <3>1, <3>2, <3>3
  <2>3. QED
    BY <1>1, <2>1, <2>2 DEF Appended, Listed, AppendRecord, End, At, Front
<1>12. QED
  BY <1>2, <1>3, <1>4, <1>5, <1>6, <1>7, <1>8, <1>9, <1>11 DEF Act, Step

\* What a thread may still write begins never earlier, and lies in what has been
\* claimed, as long as it writes only what it owns.
LEMMA FrontGrows ==
  ASSUME TypeOK, ControlInv, \A u \in Threads : PlaceOf(u), NEW t \in Threads, Act(t),
         AppendRecord(t) => Owns(t), NEW u \in Threads
  PROVE  Front(u) <= Front(u)' /\ Front(u)' <= dtail' /\ Front(u)' \in Nat
<1>1. /\ dtail \in Nat /\ dtail' \in Nat /\ dtail <= dtail'
      /\ Front(u) \in Nat /\ Front(u) <= dtail
  BY BytesClaimed, FrontNat DEF PlaceOf
<1>2. CASE u # t
  <2>1. op'[u] = op[u] /\ (u \in Handles => handle'[u] = handle[u])
    BY <1>2, Locality DEF TypeOK
  <2>2. Front(u)' = Front(u) \/ (Front(u) = dtail /\ Front(u)' = dtail')
    BY <2>1 DEF Front, Appended, Listed, Rec
  <2>3. QED
    BY <1>1, <2>2
<1>3. CASE u = t /\ t \in Inserters
  BY <1>1, <1>3, InserterSteps
<1>4. CASE u = t /\ t \in Handles
  <2>1. handle[t].off \in Nat
    BY <1>4, OpFields DEF TypeOK
  <2>2. CASE AppendRecord(t)
    <3>1. /\ op[t].pc = "append" /\ Owns(t) /\ HasId(t)
      BY <1>4, <2>2, ThreadAssumption DEF AppendRecord, At, HasId
    <3>2. op[t].off = handle[t].off /\ Rec(t).len \in Nat
      BY <1>4, <3>1, OwnRecord DEF PlaceOf
    <3>3. ~Appended(t) /\ Appended(t)' /\ handle'[t].off = handle[t].off
      BY <1>4, <2>2, <3>1, HandleSteps
         DEF Begin, ClaimIds, ClaimBytes, AllocBytes, End, At
    <3>4. Rec(t)' = Rec(t)
      BY <2>2, OpAfter DEF TypeOK, Becomes, Rec
    <3>5. Front(t) = handle[t].off /\ Front(t)' = handle[t].off + Rec(t).len
      BY <1>4, <2>1, <3>2, <3>3, <3>4 DEF Front
    <3>6. handle[t].off + Rec(t).len <= dtail
      <4>1. CASE Rec(t).len = 0
        BY <1>1, <1>4, <2>1, <3>5, <4>1
      <4>2. CASE Rec(t).len > 0
        <5>1. PICK b : b = op[t].off + (Rec(t).len - 1)
          OBVIOUS
        <5>2. b \in op[t].off..(op[t].off + Rec(t).len - 1) /\ b + 1 = handle[t].off + Rec(t).len
          BY <2>1, <3>2, <4>2, <5>1
        <5>3. b < dtail
          BY <3>1, <5>2 DEF Owns
        <5>4. QED
          BY <1>1, <2>1, <3>2, <5>2, <5>3
      <4>3. QED
        BY <3>2, <4>1, <4>2
    <3>7. QED
      BY <1>1, <1>4, <2>1, <3>2, <3>5, <3>6
  <2>3. CASE ~AppendRecord(t)
    <3>1. Appended(t) => Rec(t).len \in Nat
      BY OwnRecord DEF Appended, Listed
    <3>2. Appended(t) /\ Appended(t)' => Rec(t)' = Rec(t)
      <4>1. SUFFICES ASSUME Appended(t), Appended(t)'
                     PROVE  op'[t].rec = op[t].rec
        BY DEF Rec
      <4>2. op[t].pc # "idle" /\ op'[t].pc # "idle" /\ op[t].pc # "claim_ids"
        BY <4>1 DEF Appended, Listed
      <4>3. ~Begin(t) /\ ~End(t)
        BY <4>2, OpAfter DEF Begin, At, TypeOK
      <4>4. Step(t)
        BY <4>3 DEF Act
      <4>5. QED
        BY <4>3, <4>4 DEF Step, TypeOK, ThreadType, ClaimIds, ClaimBytes, AllocBytes, ClaimId,
           SetOffLen, AppendRecord, AddEntry, SetEntry, LoadStreams, CheckAndAdd, StreamSet,
           ToStream
    <3>3. \/ Front(t)' = Front(t)
          \/ Front(t)' = dtail
      <4>1. CASE ~Appended(t) /\ ~Appended(t)'
        <5>1. handle'[t].off = handle[t].off \/ handle'[t].off = dtail
          BY <1>4, <2>3, <4>1, HandleSteps
        <5>2. Front(t) = handle[t].off /\ Front(t)' = handle'[t].off
          BY <1>1, <1>4, <2>1, <4>1, <5>1 DEF Front
        <5>3. QED
          BY <5>1, <5>2
      <4>2. CASE Appended(t) /\ Appended(t)'
        <5>1. handle'[t].off = handle[t].off
          BY <1>4, <2>3, <4>2, HandleSteps
        <5>2. QED
          BY <1>4, <3>2, <4>2, <5>1 DEF Front
      <4>3. CASE Appended(t) /\ ~Appended(t)'
        <5>1. handle'[t].off = handle[t].off + Rec(t).len
          BY <1>4, <2>3, <4>3, HandleSteps
        <5>2. Front(t) = handle[t].off + Rec(t).len /\ Front(t)' = handle'[t].off
          BY <1>4, <2>1, <3>1, <4>3, <5>1 DEF Front
        <5>3. QED
          BY <5>1, <5>2
      <4>4. ~(~Appended(t) /\ Appended(t)')
        BY <1>4, <2>3, HandleSteps
      <4>5. QED
        BY <4>1, <4>2, <4>3, <4>4
    <3>4. QED
      BY <1>1, <1>4, <3>3
  <2>4. QED
    BY <2>2, <2>3
<1>5. QED
  BY <1>2, <1>3, <1>4 DEF Threads


\* Intervals of bytes that share none lie one after the other.
LEMMA Apart ==
  ASSUME NEW a \in Nat, NEW m \in Nat, NEW b \in Nat, NEW n \in Nat, n > 0,
         ~\E x \in Nat : x \in a..(a + m - 1) /\ x \in b..(b + n - 1)
  PROVE  m = 0 \/ a + m <= b \/ b + n <= a
<1>1. SUFFICES ASSUME m > 0, b < a + m, a < b + n
               PROVE  FALSE
  OBVIOUS
<1>2. CASE a <= b
  <2>1. b \in a..(a + m - 1) /\ b \in b..(b + n - 1)
    BY <1>1, <1>2
  <2>2. QED
    BY <2>1
<1>3. CASE b < a
  <2>1. a \in a..(a + m - 1) /\ a \in b..(b + n - 1)
    BY <1>1, <1>3
  <2>2. QED
    BY <2>1
<1>4. QED
  BY <1>2, <1>3

\* A record that lies in the log stays there: whoever writes does so in bytes of
\* his own that are not yet written.
LEMMA StoredKept ==
  ASSUME TypeOK, ControlInv, \A u \in Threads : PlaceOf(u), NEW t \in Threads, Act(t),
         AppendRecord(t) => Owns(t),
         NEW r \in Records, NEW o \in Nat, Stored(r, o)
  PROVE  Stored(r, o)'
<1>1. PICK n \in Nat : n = r.len
  BY RecordFacts
<1>2. PICK w \in Threads : o + n <= Front(w) /\ \A b \in o..(o + n - 1) : owner[b] = w
  BY <1>1 DEF Stored
<1>3. o + n <= dtail /\ read(o, n) = Bytes(r)
  BY <1>1 DEF Stored
<1>4. /\ dtail \in Nat /\ dtail' \in Nat /\ dtail <= dtail'
      /\ \A b \in 0..(dtail - 1) : owner'[b] = owner[b]
      /\ Front(w) <= Front(w)' /\ Front(w)' \in Nat /\ Front(w) \in Nat
  BY BytesClaimed, FrontGrows, FrontNat
<1>5. o + n <= dtail' /\ o + n <= Front(w)'
  BY <1>2, <1>3, <1>4
<1>6. \A b \in o..(o + n - 1) : owner'[b] = w
  <2>1. ASSUME NEW b \in o..(o + n - 1)
        PROVE  b \in 0..(dtail - 1)
    BY <1>3, <1>4
  <2>2. QED
    BY <1>2, <1>4, <2>1
<1>7. read(o, n)' = read(o, n)
  <2>1. CASE ~AppendRecord(t)
    <3>1. dlog' = dlog
      BY <2>1, BytesClaimed
    <3>2. QED
      BY <3>1 DEF read
  <2>2. CASE AppendRecord(t) /\ n = 0
    BY <2>2 DEF read
  <2>3. CASE AppendRecord(t) /\ n > 0
    <3>1. PICK p \in Nat : p = op[t].off
      BY OpFields DEF TypeOK
    <3>2. PICK m \in Nat : m = Rec(t).len
      BY <2>3, OwnRecord DEF AppendRecord, At
    <3>3. op[t].pc = "append" /\ Owns(t)
      BY <2>3 DEF AppendRecord, At
    <3>4. \A b \in p..(p + m - 1) : owner[b] = t
      BY <3>1, <3>2, <3>3 DEF Owns
    <3>5. m = 0 \/ o + n <= p \/ p + m <= o
      <4>1. CASE w = t
        <5>1. Front(t) = p
          <6>1. CASE t \in Handles
            <7>1. HasId(t) /\ ~Appended(t)
              BY <3>3, <6>1, ThreadAssumption DEF HasId, Appended, Listed
            <7>2. p = handle[t].off
              BY <3>1, <6>1, <7>1 DEF PlaceOf
            <7>3. QED
              BY <6>1, <7>1, <7>2 DEF Front
          <6>2. CASE t \notin Handles
            BY <3>1, <3>3, <6>2 DEF Front
          <6>3. QED
            BY <6>1, <6>2
        <5>2. QED
          BY <1>2, <4>1, <5>1
      <4>2. CASE w # t
        <5>1. ~\E x \in Nat : x \in p..(p + m - 1) /\ x \in o..(o + n - 1)
          BY <1>2, <3>4, <4>2
        <5>2. QED
          BY <2>3, <5>1, Apart
      <4>3. QED
        BY <4>1, <4>2
    <3>6. CASE m = 0
      <4>1. Run(p, 0, BlockSize) = {}
        BY DEF Run
      <4>2. \A a \in DOMAIN dlog : a \in DOMAIN dlog' /\ dlog'[a] = dlog[a]
        BY <2>3, <3>1, <3>2, <3>6, <4>1 DEF AppendRecord
      <4>3. DOMAIN dlog' = DOMAIN dlog
        BY <2>3, <3>1, <3>2, <3>6, <4>1 DEF AppendRecord
      <4>4. QED
        BY <4>2, <4>3 DEF read
    <3>7. CASE o + n <= p \/ p + m <= o
      BY <2>3, <3>1, <3>2, <3>7, ReadKept
    <3>8. QED
      BY <3>5, <3>6, <3>7
  <2>4. QED
    BY <2>1, <2>2, <2>3
<1>8. QED
  BY <1>1, <1>3, <1>5, <1>6, <1>7 DEF Stored

\* A record that has just been written lies in the log.
LEMMA NewStored ==
  ASSUME TypeOK, ControlInv, \A u \in Threads : PlaceOf(u), NEW t \in Threads,
         AppendRecord(t), Owns(t)
  PROVE  Stored(Rec(t), op[t].off)'
<1>1. Act(t) /\ op[t].pc = "append"
  BY DEF Act, Step, AppendRecord, At
<1>2. PICK o \in Nat : o = op[t].off
  BY OpFields DEF TypeOK
<1>3. PICK r \in Records : r = Rec(t)
  BY <1>1, OwnRecord
<1>4. r.len \in Nat
  BY RecordFacts
<1>5. op'[t].off = o /\ Rec(t)' = r
  BY <1>2, <1>3, OpAfter DEF TypeOK, Becomes, Rec
<1>6. read(o, r.len)' = Bytes(r)
  BY <1>2, <1>3, <1>5, ReadBack
<1>7. /\ dtail \in Nat /\ dtail' = dtail /\ owner' = owner /\ Front(t)' <= dtail'
      /\ Front(t)' \in Nat
  BY <1>1, BytesClaimed, FrontGrows DEF AppendRecord
<1>8. o + r.len <= Front(t)'
  <2>1. CASE t \in Handles
    <3>1. HasId(t) /\ ~Appended(t)
      BY <1>1, <2>1, ThreadAssumption DEF HasId, Appended, Listed
    <3>2. o = handle[t].off
      BY <1>2, <2>1, <3>1 DEF PlaceOf
    <3>3. Appended(t)' /\ handle'[t].off = handle[t].off
      BY <1>1, <2>1, <3>1, HandleSteps
         DEF Begin, ClaimIds, ClaimBytes, AllocBytes, End, At
    <3>4. Front(t)' = o + r.len
      BY <1>5, <2>1, <3>2, <3>3 DEF Front
    <3>5. QED
      BY <1>4, <3>4
  <2>2. CASE t \notin Handles
    <3>1. t \in Inserters /\ Front(t) = o
      BY <1>1, <1>2, <2>2 DEF Threads, Front
    <3>2. Front(t)' = dtail'
      BY <1>1, <3>1, InserterSteps DEF Begin, ClaimBytes, AllocBytes, ClaimId, SetOffLen, At, End
    <3>3. o <= dtail
      BY <3>1 DEF PlaceOf
    <3>4. CASE r.len = 0
      BY <1>7, <3>2, <3>3, <3>4
    <3>5. CASE r.len > 0
      <4>1. PICK b : b = o + (r.len - 1)
        OBVIOUS
      <4>2. b \in o..(o + r.len - 1) /\ b + 1 = o + r.len
        BY <1>4, <3>5, <4>1
      <4>3. b < dtail
        BY <1>2, <1>3, <4>2 DEF Owns
      <4>4. QED
        BY <1>4, <1>7, <3>2, <4>2, <4>3
    <3>6. QED
      BY <1>4, <3>4, <3>5
  <2>3. QED
    BY <2>1, <2>2
<1>9. o + r.len <= dtail'
  BY <1>4, <1>7, <1>8
<1>10. \A b \in o..(o + r.len - 1) : owner'[b] = t
  BY <1>2, <1>3, <1>7 DEF Owns
<1>11. Stored(r, o)'
  BY <1>6, <1>8, <1>9, <1>10 DEF Stored
<1>12. QED
  BY <1>5, <1>11


\* An insert whose record is written leaves it alone.
LEMMA AppendedStep ==
  ASSUME TypeOK, ControlInv, NEW t \in Threads, Act(t), Appended(t)'
  PROVE  \/ AppendRecord(t)
         \/ Appended(t) /\ op'[t].off = op[t].off /\ op'[t].rec = op[t].rec
<1>1. SUFFICES ASSUME ~AppendRecord(t)
               PROVE  Appended(t) /\ op'[t].off = op[t].off /\ op'[t].rec = op[t].rec
  OBVIOUS
<1>2. Appended(t) /\ Step(t) /\ ~End(t) /\ op'[t].off = op[t].off
  BY <1>1, HandleSteps, InserterSteps DEF Threads
<1>3. op'[t].rec = op[t].rec
  BY <1>2 DEF Step, TypeOK, ThreadType, ClaimIds, ClaimBytes, AllocBytes, ClaimId,
     SetOffLen, AppendRecord, AddEntry, SetEntry, LoadStreams, CheckAndAdd, StreamSet, ToStream
<1>4. QED
  BY <1>2, <1>3

\* The places of all threads after a step.
LEMMA PlaceStep ==
  ASSUME TypeOK, ControlInv, IdInv, \A x \in Threads : PlaceOf(x), NEW t \in Threads, Act(t),
         AppendRecord(t) => Owns(t), NEW u \in Threads
  PROVE  PlaceOf(u)'
<1>1. Front(u)' <= dtail'
  BY FrontGrows
<1>2. CASE u # t
  <2>1. /\ op'[u] = op[u] /\ (u \in Handles => handle'[u] = handle[u])
        /\ HasId(u)' = HasId(u) /\ Rec(u)' = Rec(u) /\ Appended(u)' = Appended(u)
    BY <1>2, Locality, OtherHeld DEF TypeOK, Rec, Appended, Listed
  <2>2. u \in Handles /\ HasId(u)' => op'[u].off = handle'[u].off
    BY <2>1 DEF PlaceOf
  <2>3. ASSUME Appended(u)
        PROVE  Stored(Rec(u), op[u].off)'
    <3>1. PICK r \in Records : r = Rec(u)
      BY <2>3, OwnRecord DEF Appended, Listed
    <3>2. PICK o \in Nat : o = op[u].off
      BY OpFields DEF TypeOK
    <3>3. Stored(r, o)
      BY <2>3, <3>1, <3>2 DEF PlaceOf
    <3>4. Stored(r, o)'
      BY <3>3, StoredKept
    <3>5. QED
      BY <2>1, <3>1, <3>2, <3>4
  <2>4. QED
    BY <1>1, <2>1, <2>2, <2>3 DEF PlaceOf
<1>3. CASE u = t
  <2>1. t \in Handles /\ HasId(t)' => op'[t].off = handle'[t].off
    <3>1. SUFFICES ASSUME t \in Handles, HasId(t)'
                   PROVE  op'[t].off = handle'[t].off
      OBVIOUS
    <3>2. HasId(t) => op[t].off = handle[t].off
      BY <3>1 DEF PlaceOf
    <3>3. AllocBytes(t) \/ AppendRecord(t) \/ Appended(t) => HasId(t)
      BY <3>1, ThreadAssumption DEF AllocBytes, AppendRecord, At, HasId, Appended, Listed
    <3>4. QED
      BY <3>1, <3>2, <3>3, HandleSteps
  <2>2. ASSUME Appended(t)'
        PROVE  Stored(Rec(t), op[t].off)'
    <3>1. CASE AppendRecord(t)
      BY <3>1, NewStored
    <3>2. CASE Appended(t) /\ op'[t].off = op[t].off /\ op'[t].rec = op[t].rec
      <4>1. PICK r \in Records : r = Rec(t)
        BY <3>2, OwnRecord DEF Appended, Listed
      <4>2. PICK o \in Nat : o = op[t].off
        BY OpFields DEF TypeOK
      <4>3. Stored(r, o)
        BY <3>2, <4>1, <4>2 DEF PlaceOf
      <4>4. Stored(r, o)'
        BY <4>3, StoredKept
      <4>5. Rec(t)' = r /\ op'[t].off = o
        BY <3>2, <4>1, <4>2 DEF Rec
      <4>6. QED
        BY <4>4, <4>5
    <3>3. QED
      BY <2>2, <3>1, <3>2, AppendedStep
  <2>3. QED
    BY <1>1, <1>3, <2>1, <2>2 DEF PlaceOf
<1>4. QED
  BY <1>2, <1>3

\* The id of an insert that is about to write, and of one that is not.
LEMMA Writing ==
  ASSUME TypeOK, IdInv, NEW t \in Threads, Act(t), NEW u \in Threads, u # t,
         At(u, "append"), HasId(u)
  PROVE  At(u, "append")' /\ HasId(u)' /\ op'[u].id = op[u].id
BY Locality, OtherHeld DEF TypeOK, At

\* Records that can be looked up and are written stay as they are; a record
\* becomes one of them when the second of the two happens.
LEMMA StoredStep ==
  ASSUME TypeOK, ControlInv, IdInv, OffsetInv, StoredInv, NEW t \in Threads, Act(t),
         AppendRecord(t) => Owns(t)
  PROVE  StoredInv'
<1>1. \A x \in Threads : PlaceOf(x)
  BY DEF StoredInv
<1>2. \A x \in Threads : PlaceOf(x)'
  BY <1>1, PlaceStep
<1>3. ASSUME NEW id \in DOMAIN inserted, NEW o \in Nat, Stored(inserted[id].rec, o)
      PROVE  inserted'[id] = inserted[id] /\ Stored(inserted[id].rec, o)'
  <2>1. inserted'[id] = inserted[id]
    BY InsertedKept
  <2>2. PICK r \in Records : r = inserted[id].rec
    BY DEF TypeOK, HistoryType
  <2>3. Stored(r, o)'
    BY <1>1, <1>3, <2>2, StoredKept
  <2>4. QED
    BY <2>1, <2>2, <2>3
<1>4. ASSUME NEW id \in DOMAIN offlens',
             ~\E u \in Threads : At(u, "append")' /\ HasId(u)' /\ op'[u].id = id
      PROVE  /\ offlens'[id].len = inserted'[id].rec.len
             /\ Stored(inserted[id].rec, offlens[id].off)'
  <2>1. CASE id \in StoredIds
    <3>1. id \in DOMAIN offlens /\ id \in DOMAIN inserted /\ offlens[id].off \in Nat
      BY <2>1 DEF StoredIds, TypeOK, LogType
    <3>2. offlens'[id] = offlens[id]
      <4>1. CASE HasId(t) /\ id = op[t].id
        <5>1. ~SetOffLen(t)
          BY <3>1, <4>1 DEF OffsetInv, OffsetOf, OffsetSet, SetOffLen, At
        <5>2. QED
          BY <5>1, OffLenCases
      <4>2. CASE ~HasId(t) \/ id # op[t].id
        BY <3>1, <4>2, OffLenKept
      <4>3. QED
        BY <4>1, <4>2
    <3>3. PICK o \in Nat : o = offlens[id].off
      BY <3>1
    <3>4. offlens[id].len = inserted[id].rec.len /\ Stored(inserted[id].rec, o)
      BY <2>1, <3>3 DEF StoredInv
    <3>5. inserted'[id] = inserted[id] /\ Stored(inserted[id].rec, o)'
      BY <1>3, <3>1, <3>4
    <3>6. QED
      BY <3>2, <3>3, <3>4, <3>5
  <2>2. CASE id \notin DOMAIN offlens
    <3>1. /\ SetOffLen(t) /\ HasId(t) /\ id = op[t].id
          /\ offlens'[id] = [off |-> op[t].off, len |-> Rec(t).len]
      BY <1>4, <2>2, OffLenCases
    <3>2. op[t].pc = "set_offlen" /\ op'[t].id = op[t].id
      BY <3>1, OpAfter DEF SetOffLen, At, TypeOK, Becomes
    <3>3. t \in Handles
      <4>1. SUFFICES ASSUME t \notin Handles
                     PROVE  FALSE
        OBVIOUS
      <4>2. op'[t].pc = "append"
        BY <3>1, <4>1, OpAfter DEF TypeOK, Becomes
      <4>3. At(t, "append")' /\ HasId(t)'
        BY <4>2 DEF At, HasId
      <4>4. QED
        BY <1>4, <3>1, <3>2, <4>3
    <3>4. Appended(t)
      BY <3>2, <3>3 DEF Appended, Listed
    <3>5. PICK o \in Nat : o = op[t].off
      BY OpFields DEF TypeOK
    <3>6. id \in DOMAIN inserted /\ inserted[id].rec = Rec(t)
      BY <3>1, OwnId
    <3>7. Stored(inserted[id].rec, o)
      BY <1>1, <3>4, <3>5, <3>6 DEF PlaceOf
    <3>8. inserted'[id] = inserted[id] /\ Stored(inserted[id].rec, o)'
      BY <1>3, <3>6, <3>7
    <3>9. QED
      BY <3>1, <3>5, <3>6, <3>8
  <2>3. CASE id \in DOMAIN offlens /\ id \notin StoredIds
    <3>1. PICK u \in Threads : At(u, "append") /\ HasId(u) /\ op[u].id = id
      BY <2>3 DEF StoredIds
    <3>2. u = t
      BY <1>4, <3>1, Writing
    <3>3. AppendRecord(t)
      BY <3>1, <3>2
      DEF Act, Step, Begin, ClaimIds, ClaimBytes, AllocBytes, ClaimId, SetOffLen, AddEntry,
          SetEntry, LoadStreams, CheckAndAdd, StreamSet, End, At
    <3>4. offlens[id] = [off |-> op[t].off, len |-> Rec(t).len]
      BY <2>3, <3>1, <3>2 DEF OffsetInv, OffsetOf
    <3>5. offlens' = offlens /\ inserted' = inserted
      BY <3>3 DEF AppendRecord
    <3>6. inserted[id].rec = Rec(t)
      BY <3>1, <3>2, OwnId
    <3>7. op'[t].off = op[t].off /\ Rec(t)' = Rec(t)
      BY <3>3, OpAfter DEF TypeOK, Becomes, Rec
    <3>8. PICK r : r = Rec(t)
      OBVIOUS
    <3>9. PICK o : o = op[t].off
      OBVIOUS
    <3>10. Stored(r, o)'
      BY <1>1, <3>3, <3>7, <3>8, <3>9, NewStored
    <3>11. QED
      BY <3>4, <3>5, <3>6, <3>8, <3>9, <3>10
  <2>4. QED
    BY <2>1, <2>2, <2>3
<1>5. QED
  BY <1>2, <1>4 DEF StoredInv, StoredIds


-----------------------------------------------------------------------------
(* The invariant                                                           *)

\* A new log store.
LEMMA LogStoreInit ==
  Init => LogStoreInv
<1>1. SUFFICES ASSUME Init
               PROVE  LogStoreInv
  OBVIOUS
<1>2. /\ DOMAIN offlens = {} /\ DOMAIN dlog = {} /\ DOMAIN lists = {} /\ DOMAIN inserted = {}
      /\ DOMAIN owner = {} /\ current_read_id = 0 /\ current_write_id = 0 /\ dtail = 0
      /\ streams = <<>> /\ Len(streams) = 0 /\ started = 0
  BY <1>1 DEF Init
<1>3. ASSUME NEW t \in Threads
      PROVE  /\ op[t] = Idle /\ op[t].pc = "idle" /\ op[t].m = 0 /\ op[t].ns = 0
             /\ t \in Handles => handle[t] = Fresh
  BY <1>1 DEF Init, Idle
<1>4. \A t \in Threads : ~HasId(t) /\ ~Appended(t) /\ ~Pushing(t)
  BY <1>3 DEF HasId, Appended, Listed, Pushing
<1>5. TypeOK
  <2>1. LogType /\ ListType
    BY <1>1, <1>2 DEF LogType, ListType, Init
  <2>2. Idle \in [pc : Labels, rec : Records \cup {Unset}, id : Nat, off : Nat,
                  m : Nat, ns : Nat, slot : Nat]
    BY DEF Idle, Labels
  <2>3. Fresh \in [ids : 0..IdBlock, id : Nat, bytes : {0, DataBlock}, off : Nat]
    BY BlockAssumption DEF Fresh
  <2>4. ThreadType
    BY <1>1, <2>2, <2>3 DEF Init, ThreadType
  <2>5. 0..(dtail - 1) = {} /\ 0..(current_write_id - 1) = {}
    BY <1>2
  <2>6. HistoryType
    <3>1. owner \in [{} -> Threads]
      BY <1>1 DEF Init
    <3>2. owner \in [0..(dtail - 1) -> Threads]
      BY <2>5, <3>1
    <3>3. started \in 0..MaxRecords
      BY <1>2, LimitAssumption
    <3>4. overrun \in BOOLEAN
      BY <1>1 DEF Init
    <3>5. QED
      BY <1>2, <3>2, <3>3, <3>4 DEF HistoryType
  <2>7. QED
    BY <2>1, <2>4, <2>6 DEF TypeOK
<1>6. ControlInv
  BY <1>2, <1>3, <1>4 DEF ControlInv, ControlOf
<1>7. 0..(current_write_id - 1) = {} /\ 0..(current_read_id - 1) = {}
  BY <1>2
<1>8. IdInv
  <2>1. \A t \in Threads : HeldIds(t) = {}
    BY <1>7 DEF HeldIds
  <2>2. \A t \in Handles : handle[t].id + handle[t].ids <= current_write_id
    BY <1>2, <1>3 DEF Fresh, Threads
  <2>3. QED
    BY <1>4, <1>7, <2>1, <2>2 DEF IdInv, IdOf
<1>9. HeldInv /\ PushInv
  <2>1. HeldInv
    <3>1. \A h \in Handles : handle[h].ids = 0
      BY <1>3 DEF Fresh, Threads
    <3>2. current_read_id..(current_write_id - 1) = {}
      BY <1>2
    <3>3. QED
      BY <3>1, <3>2 DEF HeldInv
  <2>2. PushInv
    BY <1>4 DEF PushInv, PushOf
  <2>3. QED
    BY <2>1, <2>2
<1>10. ListedInv
  BY <1>2, <1>4, <1>7 DEF ListedInv, OnlyInserted, HeldListed, PublishedListed
<1>11. OffsetInv
  BY <1>4, <1>7 DEF OffsetInv, OffsetOf
<1>12. StoredInv
  <2>1. \A t \in Threads : PlaceOf(t)
    <3>1. ASSUME NEW t \in Threads
          PROVE  Front(t) <= dtail
      BY <1>2, <1>3, <1>4 DEF Front, Fresh
    <3>2. QED
      BY <1>4, <3>1 DEF PlaceOf
  <2>2. StoredIds = {}
    BY <1>2 DEF StoredIds
  <2>3. QED
    BY <2>1, <2>2 DEF StoredInv
<1>13. QED
  BY <1>5, <1>6, <1>8, <1>9, <1>10, <1>11, <1>12 DEF LogStoreInv

\* Every step keeps the invariant.
LEMMA LogStoreStep ==
  LogStoreInv /\ [Next]_vars => LogStoreInv'
<1>1. SUFFICES ASSUME LogStoreInv, [Next]_vars
               PROVE  LogStoreInv'
  OBVIOUS
<1>2. TypeOK /\ ControlInv /\ IdInv /\ HeldInv /\ PushInv /\ ListedInv /\ OffsetInv
  BY <1>1 DEF LogStoreInv
<1>3. LogType'
  BY <1>1, <1>2, LogTypeStep
<1>4. ListType' /\ ThreadType'
  BY <1>1, <1>2, ListTypeStep, ThreadTypeStep
<1>5. HistoryType'
  BY <1>1, <1>2, <1>3, HistoryTypeStep
<1>6. TypeOK'
  BY <1>3, <1>4, <1>5 DEF TypeOK
<1>7. ControlInv' /\ IdInv' /\ HeldInv' /\ PushInv'
  BY <1>1, <1>2, ControlStep, IdStep, HeldStep, PushStep
<1>8. ListedInv' /\ OffsetInv'
  BY <1>1, <1>2, <1>6, ListedStep, OffsetStep
<1>9. ~overrun' => StoredInv'
  <2>1. SUFFICES ASSUME ~overrun'
                 PROVE  StoredInv'
    OBVIOUS
  <2>2. ASSUME NEW t \in Threads, Act(t)
        PROVE  StoredInv'
    <3>1. ~overrun /\ (AppendRecord(t) => Owns(t))
      BY <1>2, <2>1, <2>2, BytesClaimed DEF AppendRecord
    <3>2. StoredInv
      BY <1>1, <3>1 DEF LogStoreInv
    <3>3. QED
      BY <1>2, <2>2, <3>1, <3>2, StoredStep
  <2>3. CASE UNCHANGED <<offlens, dtail, dlog, handle, op, inserted, owner, overrun>>
    <3>1. StoredInv
      BY <1>1, <2>1, <2>3 DEF LogStoreInv
    <3>2. \A t \in Threads : /\ Front(t)' = Front(t) /\ Rec(t)' = Rec(t)
                             /\ HasId(t)' = HasId(t) /\ Appended(t)' = Appended(t)
                             /\ At(t, "append")' = At(t, "append")
      BY <2>3 DEF Front, Appended, Listed, Rec, HasId, At
    <3>3. \A r, o : Stored(r, o)' = Stored(r, o)
      BY <2>3, <3>2 DEF Stored, read
    <3>4. StoredIds' = StoredIds
      BY <2>3, <3>2 DEF StoredIds
    <3>5. \A t \in Threads : PlaceOf(t)' = PlaceOf(t)
      BY <2>3, <3>2, <3>3 DEF PlaceOf
    <3>6. QED
      BY <2>3, <3>1, <3>3, <3>4, <3>5 DEF StoredInv
  <2>4. QED
    BY <1>1, <2>2, <2>3 DEF Next, Act, AddStream, vars, store
<1>10. QED
  BY <1>6, <1>7, <1>8, <1>9 DEF LogStoreInv

\* The log store keeps the invariant, whatever inserts of both kinds and new
\* streams interleave.
THEOREM LogStoreCorrect ==
  Spec => []LogStoreInv
<1>1. QED
  BY LogStoreInit, LogStoreStep, PTL DEF Spec

\* The logs, the lists, the handles and the threads keep their types, and every
\* byte written lies in a bucket that is allocated.
THEOREM LogStoreTypeCorrect ==
  Spec => []TypeOK
<1>1. LogStoreInv => TypeOK
  BY DEF LogStoreInv
<1>2. QED
  BY <1>1, LogStoreCorrect, PTL

\* A record below num_records() is in the list of each of its tokens, and in the
\* streams there were when its id was claimed exactly where they keep it: end()
\* comes after update_indexes and update_streams, and waits for the ids before.
THEOREM PublishedListedHolds ==
  Spec => []PublishedListed
<1>1. LogStoreInv => PublishedListed
  BY DEF LogStoreInv, ListedInv
<1>2. QED
  BY <1>1, LogStoreCorrect, PTL

\* A published record is written and can be looked up.
LEMMA PublishedStored ==
  ASSUME LogStoreInv, ~overrun, NEW id \in 0..(current_read_id - 1)
  PROVE  /\ id \in DOMAIN inserted /\ inserted[id].rec \in Records
         /\ id \in DOMAIN offlens /\ offlens[id] \in [off : Nat, len : Nat]
         /\ offlens[id].len = inserted[id].rec.len
         /\ Stored(inserted[id].rec, offlens[id].off)
<1>1. TypeOK /\ IdInv /\ OffsetInv /\ StoredInv
  BY DEF LogStoreInv
<1>2. id \in DOMAIN inserted /\ id \in DOMAIN offlens
  BY <1>1 DEF IdInv, OffsetInv
<1>3. inserted[id].rec \in Records /\ offlens[id] \in [off : Nat, len : Nat]
  BY <1>1, <1>2 DEF TypeOK, LogType, HistoryType
<1>4. current_read_id \in Nat
  BY <1>1 DEF TypeOK, LogType
<1>5. \A t \in Threads : HasId(t) => op[t].id # id
  BY <1>1, <1>4, OwnId
<1>6. id \in StoredIds
  BY <1>2, <1>5 DEF StoredIds
<1>7. QED
  BY <1>1, <1>2, <1>3, <1>6 DEF StoredInv

\* Reading a part of a record that starts in the bucket of its first byte.
LEMMA ReadPart ==
  ASSUME NEW r \in Records, NEW off \in Nat, read(off, r.len) = Bytes(r),
         NEW o \in 0..r.len, SameBucket(off, o), NEW l \in Nat
  PROVE  read(off + o, IF r.len - o < l THEN r.len - o ELSE l) = Part(r, o, l)
<1>1. PICK n \in Nat : n = r.len
  BY RecordFacts
<1>2. o \in 0..n
  BY <1>1
<1>3. PICK k \in Nat : k = IF n - o < l THEN n - o ELSE l
  <2>1. n - o \in Nat
    BY <1>2
  <2>2. (IF n - o < l THEN n - o ELSE l) \in Nat
    BY <2>1
  <2>3. QED
    BY <2>2
<1>4. {x \in 0..(l - 1) : o + x < r.len} = 0..(k - 1)
  BY <1>1, <1>2, <1>3
<1>5. \A j \in 0..(k - 1) : Addr(off + o, j, BlockSize) = Addr(off, o + j, BlockSize)
  <2>1. PICK b \in Nat : b = BucketIdx(off, BlockSize)
    BY DivMod, BlockAssumption DEF BucketIdx
  <2>2. BucketIdx(off + o, BlockSize) = b
    BY <2>1 DEF SameBucket
  <2>3. PICK x \in Nat : x = off + o
    BY <1>2
  <2>4. /\ off = BlockSize * b + BucketOff(off, BlockSize)
        /\ BucketOff(off, BlockSize) \in Nat
    BY <2>1, DivMod, BlockAssumption DEF BucketIdx, BucketOff
  <2>5. x = BlockSize * b + BucketOff(x, BlockSize) /\ BucketOff(x, BlockSize) \in Nat
    <3>1. x \div BlockSize = b
      BY <2>2, <2>3 DEF BucketIdx
    <3>2. x = BlockSize * (x \div BlockSize) + (x % BlockSize) /\ x % BlockSize \in Nat
      BY DivMod, BlockAssumption
    <3>3. QED
      BY <3>1, <3>2 DEF BucketOff
  <2>6. PICK m \in Nat : m = BlockSize * b
    BY <2>1, BlockAssumption
  <2>7. BucketOff(off + o, BlockSize) = BucketOff(off, BlockSize) + o
    BY <1>2, <2>3, <2>4, <2>5, <2>6
  <2>8. \A j \in 0..(k - 1) :
          BucketOff(off, BlockSize) + o + j = BucketOff(off, BlockSize) + (o + j)
    BY <1>2, <2>4
  <2>9. QED
    BY <2>1, <2>2, <2>7, <2>8 DEF Addr
<1>6. ASSUME NEW j \in 0..(k - 1)
      PROVE  read(off + o, k)[j] = Bytes(r)[o + j]
  <2>1. o + j \in 0..(n - 1)
    BY <1>2, <1>3
  <2>2. read(off, n)[o + j] = read(off + o, k)[j]
    BY <1>5, <2>1 DEF read
  <2>3. QED
    BY <1>1, <2>2
<1>7. Part(r, o, l) = [j \in 0..(k - 1) |-> Bytes(r)[o + j]]
  BY <1>4 DEF Part
<1>8. read(off + o, k) = [j \in 0..(k - 1) |-> Bytes(r)[o + j]]
  BY <1>6 DEF read
<1>9. QED
  BY <1>1, <1>3, <1>7, <1>8

\* A record below num_records() is got exactly as inserted, and so is every part
\* of it that starts in its bucket, as long as no handle has run past its block;
\* an id that is neither published nor held is refused.
THEOREM PublishedGettableHolds ==
  Spec => []PublishedGettable
<1>1. LogStoreInv => PublishedGettable
  <2>1. SUFFICES ASSUME LogStoreInv, ~overrun
                 PROVE  /\ \A id \in 0..(current_read_id - 1) :
                             /\ id \in DOMAIN inserted
                             /\ Get(id) = Found(Bytes(inserted[id].rec))
                             /\ \A o \in 0..inserted[id].rec.len,
                                   l \in 0..(inserted[id].rec.len + 1) :
                                  SameBucket(lookup(id).off, o) =>
                                    Extract(id, o, l) = Found(Part(inserted[id].rec, o, l))
                        /\ \A id \in current_read_id..(current_write_id + 1) :
                             Get(id).ok \/ Extract(id, 0, 0).ok =>
                               \E t \in Threads : id \in HeldIds(t)
    BY DEF PublishedGettable
  <2>2. current_write_id \in Nat /\ current_read_id \in 0..current_write_id /\ HeldInv
    BY <2>1 DEF LogStoreInv, TypeOK, LogType
  <2>3. ASSUME NEW id \in 0..(current_read_id - 1)
        PROVE  /\ id \in DOMAIN inserted
               /\ Get(id) = Found(Bytes(inserted[id].rec))
               /\ \A o \in 0..inserted[id].rec.len, l \in 0..(inserted[id].rec.len + 1) :
                    SameBucket(lookup(id).off, o) =>
                      Extract(id, o, l) = Found(Part(inserted[id].rec, o, l))
    <3>1. /\ id \in DOMAIN inserted /\ inserted[id].rec \in Records
          /\ id \in DOMAIN offlens /\ offlens[id] \in [off : Nat, len : Nat]
          /\ offlens[id].len = inserted[id].rec.len
          /\ Stored(inserted[id].rec, offlens[id].off)
      BY <2>1, PublishedStored
    <3>2. PICK r \in Records : r = inserted[id].rec
      BY <3>1
    <3>3. PICK off \in Nat : off = offlens[id].off
      BY <3>1
    <3>4. r.len \in Nat /\ r.len < LenValues
      BY RecordFacts
    <3>5. lookup(id) = offlens[id] /\ lookup(id).off = off /\ lookup(id).len = r.len
      BY <3>1, <3>2, <3>3 DEF lookup
    <3>6. lookup(id) # Unset
      BY <3>1, <3>5, UnsetAssumption
    <3>7. is_valid(id)
      BY <2>2 DEF is_valid
    <3>8. read(off, r.len) = Bytes(r)
      BY <3>1, <3>2, <3>3 DEF Stored
    <3>9. Get(id) = Found(Bytes(r))
      BY <3>5, <3>6, <3>7, <3>8 DEF Get, Answer
    <3>10. ASSUME NEW o \in 0..r.len, NEW l \in 0..(r.len + 1), SameBucket(off, o)
           PROVE  Extract(id, o, l) = Found(Part(r, o, l))
      <4>1. l \in Nat /\ o \in Nat
        BY <3>4
      <4>2. (r.len - o) % LenValues = r.len - o
        BY <3>4 DEF LenValues
      <4>3. Extract(id, o, l) = Found(read(off + o, IF r.len - o < l THEN r.len - o ELSE l))
        BY <3>5, <3>6, <3>7, <4>2 DEF Extract, Answer
      <4>4. QED
        BY <3>8, <3>10, <4>1, <4>3, ReadPart
    <3>11. QED
      BY <3>1, <3>2, <3>5, <3>9, <3>10
  <2>4. ASSUME NEW id \in current_read_id..(current_write_id + 1),
               Get(id).ok \/ Extract(id, 0, 0).ok
        PROVE  \E t \in Threads : id \in HeldIds(t)
    <3>1. is_valid(id)
      BY <2>4 DEF Get, Extract, Answer, Refused
    <3>2. id \in current_read_id..(current_write_id - 1)
      BY <2>2, <3>1 DEF is_valid
    <3>3. QED
      BY <2>2, <3>2 DEF HeldInv
  <2>5. QED
    BY <2>3, <2>4
<1>2. QED
  BY <1>1, LogStoreCorrect, PTL

=============================================================================
