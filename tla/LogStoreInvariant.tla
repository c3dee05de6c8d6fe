-------------------------- MODULE LogStoreInvariant --------------------------
(***************************************************************************)
(* The inductive invariant behind PublishedListed and PublishedGettable of *)
(* the log store: whose ids, whose list entries and whose bytes are whose  *)
(* while inserts of both kinds run.                                        *)
(***************************************************************************)
EXTENDS LogStore

-----------------------------------------------------------------------------
(* Control                                                                 *)

\* An insert that has done its lists and streams, and one that has written its
\* record.
Listed(t) ==
  \/ op[t].pc = "end"
  \/ op[t].pc = "set_offlen" /\ t \in Handles
Appended(t) ==
  \/ op[t].pc \in {"reserve", "set", "load_streams", "check", "add"}
  \/ Listed(t)

ControlOf(t) ==
  /\ op[t].pc # "idle" => Rec(t) \in Records
  /\ op[t].pc = "claim_ids" => t \in Handles
  /\ op[t].pc = "claim_id" => t \in Inserters
  /\ op[t].pc \in {"reserve", "set"} => op[t].m < Len(Rec(t).keys)
  /\ op[t].pc \in {"check", "add"} => op[t].m < op[t].ns
  /\ op[t].pc = "add" => Rec(t) \in streams[op[t].m + 1]
  /\ op[t].ns <= Len(streams)
  /\ ~Appended(t) => op[t].m = 0

ControlInv == \A t \in Threads : ControlOf(t)

-----------------------------------------------------------------------------
(* Ids                                                                     *)

\* An insert's id stands for its record; the other ids of a handle for none yet.
IdOf(t) ==
  /\ HasId(t) =>
       /\ op[t].id \in DOMAIN inserted
       /\ op[t].id \in HeldIds(t)
       /\ inserted[op[t].id].rec = Rec(t)
       /\ t \in Handles => op[t].id = handle[t].id
  /\ t \in Handles => handle[t].id + handle[t].ids <= current_write_id
  /\ \A id \in HeldIds(t) :
       /\ current_read_id <= id
       /\ id \in DOMAIN inserted => HasId(t) /\ id = op[t].id

IdInv ==
  /\ \A t \in Threads : IdOf(t)
  /\ \A t, u \in Threads : t # u => HeldIds(t) \cap HeldIds(u) = {}
  /\ 0..(current_read_id - 1) \subseteq DOMAIN inserted

\* No id is lost: each one claimed is published or held, since a handle claims a
\* block only when it has used up the one before.
HeldInv ==
  /\ \A h \in Handles : At(h, "claim_ids") => handle[h].ids = 0
  /\ \A id \in current_read_id..(current_write_id - 1) :
       \E t \in Threads : id \in HeldIds(t)

-----------------------------------------------------------------------------
(* Lists                                                                   *)

\* The list a push is on, and the entry it has reserved.
Pushing(t) == op[t].pc \in {"set", "add"}
Target(t) == IF op[t].pc = "set" THEN IndexKey(t) ELSE StreamKey(t)

PushOf(t) ==
  Pushing(t) =>
    /\ Target(t) \in DOMAIN lists
    /\ op[t].slot < Len(lists[Target(t)])
    /\ lists[Target(t)][op[t].slot + 1] = Unset

PushInv ==
  /\ \A t \in Threads : PushOf(t)
  /\ \A t, u \in Threads :
       t # u /\ Pushing(t) /\ Pushing(u) /\ Target(t) = Target(u) => op[t].slot # op[u].slot

\* id is an entry of the list of key.
IsEntry(key, id) == key \in DOMAIN lists /\ \E e \in DOMAIN lists[key] : lists[key][e] = id

\* How many of its tokens and of the streams an insert is done with.
TokensDone(t) ==
  IF op[t].pc \in {"reserve", "set"} THEN op[t].m
  ELSE IF op[t].pc \in {"load_streams", "check", "add"} \/ Listed(t) THEN Len(Rec(t).keys)
  ELSE 0
StreamsDone(t) ==
  IF op[t].pc \in {"check", "add"} THEN op[t].m ELSE IF Listed(t) THEN op[t].ns ELSE 0

\* The id of an insert is on those lists, and on no stream that does not keep it.
HeldListed(t) ==
  HasId(t) =>
    /\ \A j \in 1..TokensDone(t) : IsEntry(<<"index", Rec(t).keys[j]>>, op[t].id)
    /\ \A s \in Nat :
         IsEntry(<<"stream", s>>, op[t].id) <=> s < StreamsDone(t) /\ Rec(t) \in streams[s + 1]
    /\ op[t].pc \in {"check", "add"} \/ Listed(t) => inserted[op[t].id].ns <= op[t].ns

\* Ids that stand for no record are on no list.
OnlyInserted ==
  \A key \in DOMAIN lists : \A e \in DOMAIN lists[key] :
    lists[key][e] # Unset => lists[key][e] \in DOMAIN inserted

ListedInv ==
  /\ OnlyInserted
  /\ \A t \in Threads : HeldListed(t)
  /\ PublishedListed

-----------------------------------------------------------------------------
(* Offsets and bytes                                                       *)

\* Which inserts have set their offset and length.
OffsetSet(t) ==
  HasId(t) /\ IF t \in Handles THEN op[t].pc = "end" ELSE op[t].pc # "set_offlen"

OffsetOf(t) ==
  HasId(t) =>
    /\ op[t].id \in DOMAIN offlens <=> OffsetSet(t)
    /\ OffsetSet(t) => offlens[op[t].id] = [off |-> op[t].off, len |-> Rec(t).len]

OffsetInv ==
  /\ \A t \in Threads : OffsetOf(t)
  /\ 0..(current_read_id - 1) \subseteq DOMAIN offlens

\* No insert writes before this byte any more, if it is its own.
Front(t) ==
  IF t \in Handles
    THEN handle[t].off + (IF Appended(t) THEN Rec(t).len ELSE 0)
    ELSE IF op[t].pc \in {"alloc_bytes", "claim_id", "set_offlen", "append"}
           THEN op[t].off ELSE dtail

\* Record r lies at o: its bytes belong to one thread, which writes them no more.
Stored(r, o) ==
  /\ o + r.len <= dtail
  /\ read(o, r.len) = Bytes(r)
  /\ \E t \in Threads :
       /\ o + r.len <= Front(t)
       /\ \A b \in o..(o + r.len - 1) : owner[b] = t

\* The ids whose record has been appended and can be looked up.
StoredIds ==
  {id \in DOMAIN offlens : ~\E t \in Threads : At(t, "append") /\ HasId(t) /\ op[t].id = id}

PlaceOf(t) ==
  /\ Front(t) <= dtail
  /\ t \in Handles /\ HasId(t) => op[t].off = handle[t].off
  /\ Appended(t) => Stored(Rec(t), op[t].off)

StoredInv ==
  /\ \A t \in Threads : PlaceOf(t)
  /\ \A id \in StoredIds :
       /\ offlens[id].len = inserted[id].rec.len
       /\ Stored(inserted[id].rec, offlens[id].off)

-----------------------------------------------------------------------------

\* The whole: the bytes matter only as long as no insert has written outside
\* its own.
LogStoreInv ==
  /\ TypeOK
  /\ ControlInv
  /\ IdInv
  /\ HeldInv
  /\ PushInv
  /\ ListedInv
  /\ OffsetInv
  /\ ~overrun => StoredInv

=============================================================================
