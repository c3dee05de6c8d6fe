------------------------------ MODULE LogStore -------------------------------
(***************************************************************************)
(* The log store the packet store is built on (logstore/include/           *)
(* logstore.h): threads insert records with log_store::insert, which       *)
(* claims bytes and one id per record, or with handle::insert, which       *)
(* claims ids and bytes in blocks; readers get and extract records by id.  *)
(*                                                                         *)
(* Every step is one access to shared memory, except that a push on an     *)
(* index list or a stream is the reservation of its entry and its setting  *)
(* (Monolog shows that this is what a push does), and that a bucket of the *)
(* logs is allocated in one step.                                          *)
(***************************************************************************)
EXTENDS Integers, Sequences, FiniteSets, LinearLog

CONSTANTS
  Inserters,    \* threads that call log_store::insert
  Handles,      \* threads that insert through a handle of their own
  Records,      \* records: a length, and the index lists their tokens name
  StreamFns,    \* filter functions of streams, as the records they keep
  MaxRecords,   \* bound on the records inserted
  MaxStreams,   \* bound on the streams added
  IdBlock,      \* id_block_size_ of a handle
  DataBlock,    \* data_block_size_ of a handle
  BlockSize,    \* BLOCK_SIZE of the data log
  Unset         \* what uninitialised memory holds

ASSUME BlockAssumption ==
  IdBlock \in Nat \ {0} /\ DataBlock \in Nat /\ BlockSize \in Nat \ {0}
ASSUME ThreadAssumption == Inserters \cap Handles = {}

\* The number of values of a len_t, which is 16 bits wide.
LenValues == 65536

ASSUME RecordAssumption ==
  \A r \in Records : r.len \in 0..(LenValues - 1) /\ r.keys \in Seq(Nat)
ASSUME UnsetAssumption == Unset \notin Nat \cup [off : Nat, len : Nat]
ASSUME StreamAssumption == StreamFns \subseteq SUBSET Records
ASSUME LimitAssumption == MaxRecords \in Nat /\ MaxStreams \in Nat

Threads == Inserters \cup Handles

VARIABLES
  current_write_id, current_read_id, offlens,   \* the offset log
  dtail, dlog, data_buckets,                     \* the data log
  lists,       \* the entry lists of indexes and streams
  streams,     \* the filter function of each stream
  handle,      \* the fields of each handle
  op,          \* the insert each thread is executing
  started,     \* history: inserts begun
  inserted,    \* history: the record each id stands for, and the streams it met
  owner,       \* history: who claimed each byte of the data log
  overrun      \* history: a record was written outside its thread's bytes

store == <<current_write_id, current_read_id, offlens, dtail, dlog, data_buckets,
           lists, streams>>
vars == <<store, handle, op, started, inserted, owner, overrun>>

-----------------------------------------------------------------------------
(* Reading                                                                 *)

\* Mutant: the id about to be claimed counts as valid.
is_valid_inclusive(id) == id <= current_write_id

\* offsetlog::is_valid(record_id): the id is claimed, if not yet written.
is_valid(id) == id < current_write_id

\* offsetlog::lookup.
lookup(id) == IF id \in DOMAIN offlens THEN offlens[id] ELSE Unset

\* dlog_->read(offset, record, length).
read(offset, length) ==
  [j \in 0..(length - 1) |->
     LET a == Addr(offset, j, BlockSize)
     IN  IF a \in DOMAIN dlog THEN dlog[a] ELSE Unset]

\* What get and extract return, and the bytes they leave in the record buffer.
Refused == [ok |-> FALSE, bytes |-> Unset]
Found(bytes) == [ok |-> TRUE, bytes |-> bytes]

\* Both return false for an id that is not valid; of one that is not set they make
\* what uninitialised memory does.
Answer(id, bytes) ==
  IF ~is_valid(id) THEN Refused
  ELSE Found(IF lookup(id) = Unset THEN Unset ELSE bytes)

\* log_store::get.
Get(id) == Answer(id, read(lookup(id).off, lookup(id).len))

\* log_store::extract; what is left of the record is cast to a len_t.
Extract(id, offset, length) ==
  LET available == (lookup(id).len - offset) % LenValues
  IN  Answer(id, read(lookup(id).off + offset,
                      IF available < length THEN available ELSE length))

\* The bytes of a record.
Bytes(r) == [j \in 0..(r.len - 1) |-> <<r, j>>]

-----------------------------------------------------------------------------
(* insert                                                                  *)

\* record, id and offset of the insert, its tokens or streams done so far, the
\* streams there were when it looked, the entry reserved by its push.
Idle ==
  [pc |-> "idle", rec |-> Unset, id |-> 0, off |-> 0, m |-> 0, ns |-> 0, slot |-> 0]

Fresh == [ids |-> 0, id |-> 0, bytes |-> 0, off |-> 0]

At(t, l) == op[t].pc = l
Rec(t) == op[t].rec

\* What the id of an insert stands for from now on.
Assign(id, r) ==
  inserted' = [x \in DOMAIN inserted \cup {id} |->
                 IF x = id THEN [rec |-> r, ns |-> Len(streams)] ELSE inserted[x]]

\* A handle goes on to the bytes, unless its block still has room.
ToBytes(bytes, r) == IF bytes < r.len THEN "claim_bytes" ELSE "append"

\* insert is called.
Begin(t) ==
  /\ At(t, "idle")
  /\ started < MaxRecords
  /\ started' = started + 1
  /\ \E r \in Records :
       \/ /\ t \in Inserters
          /\ op' = [op EXCEPT ![t] = [Idle EXCEPT !.pc = "claim_bytes", !.rec = r]]
          /\ UNCHANGED inserted
       \/ /\ t \in Handles /\ handle[t].ids = 0
          /\ op' = [op EXCEPT ![t] = [Idle EXCEPT !.pc = "claim_ids", !.rec = r]]
          /\ UNCHANGED inserted
       \/ /\ t \in Handles /\ handle[t].ids > 0
          /\ op' = [op EXCEPT ![t] =
                      [Idle EXCEPT !.pc = ToBytes(handle[t].bytes, r), !.rec = r,
                                   !.id = handle[t].id, !.off = handle[t].off]]
          /\ Assign(handle[t].id, r)
  /\ UNCHANGED <<store, handle, owner, overrun>>

\* handle: request_id_block(id_block_size_); its ensure_alloc is not needed by
\* set, which allocates for itself.
ClaimIds(t) ==
  /\ At(t, "claim_ids")
  /\ current_write_id' = current_write_id + IdBlock
  /\ handle' = [handle EXCEPT ![t].ids = IdBlock, ![t].id = current_write_id]
  /\ op' = [op EXCEPT ![t].pc = ToBytes(handle[t].bytes, Rec(t)),
                      ![t].id = current_write_id, ![t].off = handle[t].off]
  /\ Assign(current_write_id, Rec(t))
  /\ UNCHANGED <<current_read_id, offlens, dtail, dlog, data_buckets, lists, streams,
                 started, owner, overrun>>

\* fetch_add of request_bytes: the record's length, or a handle's whole block.
Request(t) == IF t \in Handles THEN DataBlock ELSE Rec(t).len

ClaimBytes(t) ==
  /\ At(t, "claim_bytes")
  /\ dtail' = dtail + Request(t)
  /\ owner' = [b \in 0..(dtail' - 1) |-> IF b < dtail THEN owner[b] ELSE t]
  /\ op' = [op EXCEPT ![t].pc = "alloc_bytes", ![t].off = dtail]
  /\ handle' = IF t \in Handles
                 THEN [handle EXCEPT ![t].bytes = DataBlock, ![t].off = dtail]
                 ELSE handle
  /\ UNCHANGED <<current_write_id, current_read_id, offlens, dlog, data_buckets,
                 lists, streams, started, inserted, overrun>>

\* ensure_alloc of request_bytes.
AllocBytes(t) ==
  /\ At(t, "alloc_bytes")
  /\ data_buckets' = data_buckets \cup Buckets(op[t].off, op[t].off + Request(t), BlockSize)
  /\ op' = [op EXCEPT ![t].pc = IF t \in Handles THEN "append" ELSE "claim_id"]
  /\ UNCHANGED <<current_write_id, current_read_id, offlens, dtail, dlog, lists,
                 streams, handle, started, inserted, owner, overrun>>

\* offsetlog::start: fetch_add ...
ClaimId(t) ==
  /\ At(t, "claim_id")
  /\ current_write_id' = current_write_id + 1
  /\ op' = [op EXCEPT ![t].pc = "set_offlen", ![t].id = current_write_id]
  /\ Assign(current_write_id, Rec(t))
  /\ UNCHANGED <<current_read_id, offlens, dtail, dlog, data_buckets, lists, streams,
                 handle, started, owner, overrun>>

\* ... and set; a handle calls offsetlog::set last.
SetOffLen(t) ==
  /\ At(t, "set_offlen")
  /\ offlens' = [x \in DOMAIN offlens \cup {op[t].id} |->
                   IF x = op[t].id THEN [off |-> op[t].off, len |-> Rec(t).len]
                   ELSE offlens[x]]
  /\ op' = [op EXCEPT ![t].pc = IF t \in Handles THEN "end" ELSE "append"]
  /\ UNCHANGED <<current_write_id, current_read_id, dtail, dlog, data_buckets, lists,
                 streams, handle, started, inserted, owner, overrun>>

\* Where an insert goes after its tokens, and after its streams.
AfterTokens(m, r) == IF m < Len(r.keys) THEN "reserve" ELSE "load_streams"
AfterStreams(t) == IF t \in Handles THEN "set_offlen" ELSE "end"

\* The bytes append_record writes are its thread's own.
Owns(t) == \A b \in op[t].off..(op[t].off + Rec(t).len - 1) : b < dtail /\ owner[b] = t

\* Mutant: write_unsafe, which does not allocate.
AppendUnsafe(t) ==
  /\ At(t, "append")
  /\ LET cells == Run(op[t].off, Rec(t).len, BlockSize)
     IN  dlog' = [a \in DOMAIN dlog \cup cells |->
                    IF a \in cells
                      THEN Bytes(Rec(t))[a[2] - BucketOff(op[t].off, BlockSize)]
                      ELSE dlog[a]]
  /\ op' = [op EXCEPT ![t].pc = AfterTokens(0, Rec(t))]
  /\ overrun' = (overrun \/ ~Owns(t))
  /\ UNCHANGED <<current_write_id, current_read_id, offlens, dtail, data_buckets,
                 lists, streams, handle, started, inserted, owner>>

\* append_record; write allocates the bucket if need be.
AppendRecord(t) ==
  /\ At(t, "append")
  /\ LET cells == Run(op[t].off, Rec(t).len, BlockSize)
     IN  dlog' = [a \in DOMAIN dlog \cup cells |->
                    IF a \in cells
                      THEN Bytes(Rec(t))[a[2] - BucketOff(op[t].off, BlockSize)]
                      ELSE dlog[a]]
  /\ data_buckets' = data_buckets \cup {BucketIdx(op[t].off, BlockSize)}
  /\ op' = [op EXCEPT ![t].pc = AfterTokens(0, Rec(t))]
  /\ overrun' = (overrun \/ ~Owns(t))
  /\ UNCHANGED <<current_write_id, current_read_id, offlens, dtail, lists, streams,
                 handle, started, inserted, owner>>

\* A push: the list is there or created, and its tail_ moves ...
reserve(key) ==
  lists' = [x \in DOMAIN lists \cup {key} |->
              (IF x \in DOMAIN lists THEN lists[x] ELSE <<>>)
                \o (IF x = key THEN <<Unset>> ELSE <<>>)]

Size(key) == IF key \in DOMAIN lists THEN Len(lists[key]) ELSE 0

\* ... then the entry is set.
set_entry(key, idx, id) == lists' = [lists EXCEPT ![key] = [@ EXCEPT ![idx + 1] = id]]

IndexKey(t) == <<"index", Rec(t).keys[op[t].m + 1]>>
StreamKey(t) == <<"stream", op[t].m>>

\* update_indexes: add_entry for each token.
AddEntry(t) ==
  /\ At(t, "reserve")
  /\ reserve(IndexKey(t))
  /\ op' = [op EXCEPT ![t].pc = "set", ![t].slot = Size(IndexKey(t))]
  /\ UNCHANGED <<current_write_id, current_read_id, offlens, dtail, dlog, data_buckets,
                 streams, handle, started, inserted, owner, overrun>>

SetEntry(t) ==
  /\ At(t, "set")
  /\ set_entry(IndexKey(t), op[t].slot, op[t].id)
  /\ op' = [op EXCEPT ![t].pc = AfterTokens(op[t].m + 1, Rec(t)), ![t].m = @ + 1]
  /\ UNCHANGED <<current_write_id, current_read_id, offlens, dtail, dlog, data_buckets,
                 streams, handle, started, inserted, owner, overrun>>

\* The loop of update_streams goes on with stream m.
ToStream(t, m, ns) ==
  op' = [op EXCEPT ![t].pc = IF m < ns THEN "check" ELSE AfterStreams(t),
                   ![t].m = m, ![t].ns = ns]

\* streams_->size().
LoadStreams(t) ==
  /\ At(t, "load_streams")
  /\ ToStream(t, 0, Len(streams))
  /\ UNCHANGED <<store, handle, started, inserted, owner, overrun>>

\* streamlog::check_and_add.
CheckAndAdd(t) ==
  /\ At(t, "check")
  /\ \/ /\ Rec(t) \in streams[op[t].m + 1]
        /\ reserve(StreamKey(t))
        /\ op' = [op EXCEPT ![t].pc = "add", ![t].slot = Size(StreamKey(t))]
     \/ /\ Rec(t) \notin streams[op[t].m + 1]
        /\ ToStream(t, op[t].m + 1, op[t].ns)
        /\ UNCHANGED lists
  /\ UNCHANGED <<current_write_id, current_read_id, offlens, dtail, dlog, data_buckets,
                 streams, handle, started, inserted, owner, overrun>>

StreamSet(t) ==
  /\ At(t, "add")
  /\ set_entry(StreamKey(t), op[t].slot, op[t].id)
  /\ ToStream(t, op[t].m + 1, op[t].ns)
  /\ UNCHANGED <<current_write_id, current_read_id, offlens, dtail, dlog, data_buckets,
                 streams, handle, started, inserted, owner, overrun>>

\* Mutants: a plain store that does not wait for the records before; a handle
\* that drops the rest of its ids.
EndByStore(t) ==
  /\ At(t, "end")
  /\ current_read_id' = op[t].id + 1
  /\ op' = [op EXCEPT ![t] = Idle]
  /\ handle' = IF t \in Handles
                 THEN [handle EXCEPT ![t].ids = @ - 1, ![t].off = @ + Rec(t).len,
                                     ![t].id = @ + 1]
                 ELSE handle
  /\ UNCHANGED <<current_write_id, offlens, dtail, dlog, data_buckets, lists, streams,
                 started, inserted, owner, overrun>>

EndSkippingIds(t) ==
  /\ At(t, "end")
  /\ current_read_id = op[t].id
  /\ current_read_id' = op[t].id + 1
  /\ op' = [op EXCEPT ![t] = Idle]
  /\ handle' = IF t \in Handles
                 THEN [handle EXCEPT ![t].ids = 0, ![t].off = @ + Rec(t).len, ![t].id = @ + 1]
                 ELSE handle
  /\ UNCHANGED <<current_write_id, offlens, dtail, dlog, data_buckets, lists, streams,
                 started, inserted, owner, overrun>>

\* olog_->end(id): the successful compare-and-swap; a handle then moves on to its
\* next id and its next byte, and leaves remaining_bytes_ as it is.
End(t) ==
  /\ At(t, "end")
  /\ current_read_id = op[t].id
  /\ current_read_id' = op[t].id + 1
  /\ op' = [op EXCEPT ![t] = Idle]
  /\ handle' = IF t \in Handles
                 THEN [handle EXCEPT ![t].ids = @ - 1, ![t].off = @ + Rec(t).len,
                                     ![t].id = @ + 1]
                 ELSE handle
  /\ UNCHANGED <<current_write_id, offlens, dtail, dlog, data_buckets, lists, streams,
                 started, inserted, owner, overrun>>

\* add_stream, by one thread at a time: readers see it once read_tail_ moves.
AddStream ==
  /\ Len(streams) < MaxStreams
  /\ \E fn \in StreamFns : streams' = Append(streams, fn)
  /\ UNCHANGED <<current_write_id, current_read_id, offlens, dtail, dlog, data_buckets,
                 lists, handle, op, started, inserted, owner, overrun>>

Init ==
  /\ current_write_id = 0
  /\ current_read_id = 0
  /\ offlens = [x \in {} |-> Unset]
  /\ dtail = 0
  /\ dlog = [x \in {} |-> Unset]
  /\ data_buckets = {0}
  /\ lists = [x \in {} |-> <<>>]
  /\ streams = <<>>
  /\ handle = [h \in Handles |-> Fresh]
  /\ op = [t \in Threads |-> Idle]
  /\ started = 0
  /\ inserted = [x \in {} |-> Unset]
  /\ owner = [x \in {} |-> Unset]
  /\ overrun = FALSE

\* The steps of an insert once it is called.
Step(t) ==
  \/ ClaimIds(t) \/ ClaimBytes(t) \/ AllocBytes(t) \/ ClaimId(t) \/ SetOffLen(t)
  \/ AppendRecord(t) \/ AddEntry(t) \/ SetEntry(t)
  \/ LoadStreams(t) \/ CheckAndAdd(t) \/ StreamSet(t) \/ End(t)

Next == AddStream \/ \E t \in Threads : Begin(t) \/ Step(t)

Spec == Init /\ [][Next]_vars

\* A thread that has called insert keeps running; none need call it again.
FairSpec == Spec /\ \A t \in Threads : WF_vars(Step(t))

-----------------------------------------------------------------------------
(* Properties                                                              *)

\* The type invariant: the logs, the lists, the handles, the threads and the
\* history; every byte written lies in a bucket that is allocated, even past a
\* block.
LogType ==
  /\ current_write_id \in Nat
  /\ current_read_id \in 0..current_write_id
  /\ DOMAIN offlens \subseteq DOMAIN inserted
  /\ \A id \in DOMAIN offlens : offlens[id] \in [off : Nat, len : Nat]
  /\ dtail \in Nat
  /\ DOMAIN dlog \subseteq data_buckets \X Nat
  /\ data_buckets \subseteq Nat

ListType ==
  /\ \A key \in DOMAIN lists : lists[key] \in Seq(Nat \cup {Unset})
  /\ streams \in Seq(StreamFns)

Labels == {"idle", "claim_ids", "claim_bytes", "alloc_bytes", "claim_id", "set_offlen",
           "append", "reserve", "set", "load_streams", "check", "add", "end"}

ThreadType ==
  /\ handle \in [Handles -> [ids : 0..IdBlock, id : Nat, bytes : {0, DataBlock}, off : Nat]]
  /\ op \in [Threads -> [pc : Labels, rec : Records \cup {Unset}, id : Nat, off : Nat,
                         m : Nat, ns : Nat, slot : Nat]]

HistoryType ==
  /\ started \in 0..MaxRecords
  /\ DOMAIN inserted \subseteq 0..(current_write_id - 1)
  /\ \A id \in DOMAIN inserted : inserted[id] \in [rec : Records, ns : 0..Len(streams)]
  /\ owner \in [0..(dtail - 1) -> Threads]
  /\ overrun \in BOOLEAN

TypeOK == LogType /\ ListType /\ ThreadType /\ HistoryType

\* An insert that has its id.
HasId(t) ==
  /\ op[t].pc \notin {"idle", "claim_ids"}
  /\ t \in Inserters => op[t].pc \notin {"claim_bytes", "alloc_bytes", "claim_id"}

\* The ids that only thread t may use: the rest of a handle's block, or the id
\* of an insert.
HeldIds(t) ==
  {id \in 0..(current_write_id - 1) :
     \/ t \in Handles /\ handle[t].id <= id /\ id < handle[t].id + handle[t].ids
     \/ t \in Inserters /\ HasId(t) /\ id = op[t].id}

\* What extract is to deliver: at most l of the record's bytes from o on.
Part(r, o, l) == [j \in {x \in 0..(l - 1) : o + x < r.len} |-> Bytes(r)[o + j]]

\* The byte o of a record lies in the bucket of its first, where extract looks it
\* up: the bytes of a record past the end of its bucket do not.
SameBucket(off, o) == BucketIdx(off + o, BlockSize) = BucketIdx(off, BlockSize)

\* As long as no handle has run past its block, whoever claims ids or bytes
\* meanwhile: get returns true and the record as inserted for every id below
\* num_records(), and so does extract for every part of it that starts in its
\* bucket, in any length asked; an id that neither is published nor is held by an
\* insert or a handle is refused.
PublishedGettable ==
  ~overrun =>
    /\ \A id \in 0..(current_read_id - 1) :
         /\ id \in DOMAIN inserted
         /\ Get(id) = Found(Bytes(inserted[id].rec))
         /\ \A o \in 0..inserted[id].rec.len, l \in 0..(inserted[id].rec.len + 1) :
              SameBucket(lookup(id).off, o) =>
                Extract(id, o, l) = Found(Part(inserted[id].rec, o, l))
    /\ \A id \in current_read_id..(current_write_id + 1) :
         Get(id).ok \/ Extract(id, 0, 0).ok => \E t \in Threads : id \in HeldIds(t)

\* A published record is in the list of each of its tokens, and in the streams
\* there were when its id was claimed exactly where they keep it.
PublishedListed ==
  \A id \in 0..(current_read_id - 1) \cap DOMAIN inserted :
    LET r == inserted[id].rec
        In(key) == key \in DOMAIN lists /\ \E e \in DOMAIN lists[key] : lists[key][e] = id
    IN  /\ \A m \in DOMAIN r.keys : In(<<"index", r.keys[m]>>)
        /\ \A s \in 1..inserted[id].ns : In(<<"stream", s - 1>>) <=> r \in streams[s]

\* "This thread has exclusive access to the region (offset, offset + record_len)"
\* (append_record): what a thread writes lies in bytes that it claimed.
ExclusiveRegion == \A t \in Threads : At(t, "append") => Owns(t)

\* A call of insert returns, unless a handle sits on ids it does not use: end()
\* waits for them, and nothing else can keep it waiting.
InsertReturns ==
  \A t \in Threads :
    ~At(t, "idle") ~>
      (At(t, "idle") \/ \E h \in Handles : At(h, "idle") /\ handle[h].ids > 0)

=============================================================================
