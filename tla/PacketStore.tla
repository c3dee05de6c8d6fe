----------------------------- MODULE PacketStore -----------------------------
(***************************************************************************)
(* The ingest path of NetPlay's packet store: several writer threads       *)
(* (netplay_writer::start) poll a port and hand each burst of packets to   *)
(* packet_store::handle::insert_pktburst, which claims record ids in the   *)
(* offset log and bytes in the data log, pushes the ids on the index       *)
(* lists, writes the packets, and publishes the whole burst by moving      *)
(* current_read_id_.  Other threads add complex characters meanwhile.      *)
(*                                                                         *)
(* Every step below is one access to shared memory; what a thread computes *)
(* between two accesses is folded into the step that follows it.  Trailing *)
(* underscores of the C++ member names are dropped.                        *)
(***************************************************************************)
EXTENDS Integers, Sequences, FiniteSets, LinearLog

CONSTANTS
  Writers,      \* writer threads, each with a handle of its own
  Adders,       \* threads that call add_complex_character
  Packets,      \* packets the ports may deliver
  FilterLists,  \* filter lists, each given by the packets one of its filters matches
  MinBurst,     \* least number of packets a poll returns: 0 for a polled port
  MaxBurst,     \* BATCH_SIZE, the largest number a poll returns
  MaxId,        \* bound on the packets polled, so on the ids claimed
  MaxTime,      \* bound on the clock
  MaxChars,     \* MAX_FILTERS, the length of the array filters_
  TsBytes,      \* sizeof(uint64_t), the time stamp stored before each packet
  BlockSize,    \* BLOCK_SIZE of the data log
  BufferSize,   \* BUFFER_SIZE, the extra cells of a data log bucket
  IdBlockSize,  \* BLOCK_SIZE of the offset log
  Unset         \* what uninitialised memory holds

ASSUME BurstAssumption == MinBurst \in Nat /\ MaxBurst \in Nat /\ MinBurst <= MaxBurst
ASSUME SizeAssumption ==
  /\ TsBytes \in Nat \ {0}
  /\ BlockSize \in Nat \ {0}
  /\ BufferSize \in Nat
  /\ IdBlockSize \in Nat \ {0}
ASSUME BoundAssumption == MaxId \in Nat /\ MaxTime \in Nat /\ MaxChars \in Nat
ASSUME UnsetAssumption == Unset \notin Nat /\ Unset \notin [off : Nat, len : Nat]
ASSUME PacketAssumption ==
  Packets \subseteq [src : Nat, dst : Nat, proto : {"tcp", "udp", "other"},
                     sport : Nat, dport : Nat, len : Nat]
ASSUME FilterAssumption == FilterLists \subseteq SUBSET Packets

VARIABLES
  clock,             \* std::time
  current_write_id,  \* offset log: ids below it are claimed
  current_read_id,   \* offset log: ids below it are published
  offlens,           \* offset log: offset and length of each id set so far
  id_buckets,        \* offset log: buckets allocated
  dtail,             \* data log: bytes below it are claimed
  dlog,              \* data log: the cells written so far, by address
  data_buckets,      \* data log: buckets allocated
  lists,             \* the entry lists created so far, by index and token
  num_filters,       \* complex characters claimed
  filters,           \* filters_: the filter list of each complex character
  pc, phase,         \* where each writer is, and which kind of list it pushes to
  pkts, now,         \* the burst of each writer and its time stamp
  start_id, off,     \* first id of the burst; where its next packet goes
  n,                 \* packets of the burst appended so far
  k,                 \* key of the packet, or complex character, being handled
  slot, f,           \* first entry reserved by the push in progress; entries set
  num_chars,         \* num_filters as the writer loaded it
  adder,             \* what each adder is doing
  accepted,          \* history: the packet, time and known characters of each id
  known              \* history: characters added before the burst was polled

shared == <<clock, current_write_id, current_read_id, offlens, id_buckets,
            dtail, dlog, data_buckets, lists, num_filters, filters>>
locals == <<pc, phase, pkts, now, start_id, off, n, k, slot, f, num_chars>>
vars == <<shared, locals, adder, accepted, known>>

-----------------------------------------------------------------------------
(* Packets and the lists they are indexed in                               *)

\* The index lists a packet is added to, in the order insert_pktburst does it.
IndexKeys(p) ==
  <<<<"srcip", p.src>>, <<"dstip", p.dst>>>> \o
  (IF p.proto \in {"tcp", "udp"}
     THEN <<<<"srcport", p.sport>>, <<"dstport", p.dport>>>>
     ELSE <<>>)

TimeKey(t) == <<"timestamp", t>>

CharKey(c, t) == <<"char", c, t>>

\* Bytes append_pkt writes for a packet.
PktBytes(p) == TsBytes + p.len

\* Layout(ps)[m]: bytes of the first m packets of a burst.
Layout(ps) ==
  LET lay[m \in 0..Len(ps)] == IF m = 0 THEN 0 ELSE lay[m - 1] + PktBytes(ps[m])
  IN  lay

\* Mutant: the time stamps are not counted.
NumBytesWithoutStamps(ps) == Layout(ps)[Len(ps)] - TsBytes * Len(ps)

\* `nbytes' of insert_pktburst.
NumBytes(ps) == Layout(ps)[Len(ps)]

\* What append_pkt leaves in the data log: the time stamp, then the packet.
Image(t, p) ==
  [j \in 0..(PktBytes(p) - 1) |->
     IF j < TsBytes THEN <<"ts", t, j>> ELSE <<"pkt", p, j - TsBytes>>]

Bursts == UNION {[1..m -> Packets] : m \in MinBurst..MaxBurst}

-----------------------------------------------------------------------------
(* Offset log and data log                                                 *)

\* fetch_add on current_write_id_.
claim_ids(count) == current_write_id' = current_write_id + count

\* offlens_.ensure_alloc(start, start + count).
ensure_alloc_ids(start, count) ==
  id_buckets' = id_buckets \cup Buckets(start, start + count, IdBlockSize)

\* offsetlog::set_without_alloc.
set_without_alloc(id, offset, length) ==
  offlens' = [x \in DOMAIN offlens \cup {id} |->
                IF x = id THEN [off |-> offset, len |-> length] ELSE offlens[x]]

\* offsetlog::lookup; an entry that is not set yet is uninitialised memory.
lookup(id) == IF id \in DOMAIN offlens THEN offlens[id] ELSE Unset

\* offsetlog::num_ids.
num_ids == current_read_id

\* Mutants: the burst is published one id too far; with a plain store that does
\* not wait for earlier bursts; only its first id is published.
end_overrun(start, count) ==
  /\ current_read_id = start
  /\ current_read_id' = start + count + 1

end_without_cas(start, count) == current_read_id' = start + count

end_first(start, count) ==
  /\ current_read_id = start
  /\ current_read_id' = IF count = 0 THEN start ELSE start + 1

\* The successful CAS of offsetlog::end(start_id, count); a failed one retries.
end(start, count) ==
  /\ current_read_id = start
  /\ current_read_id' = start + count

\* Mutant: one byte too few is claimed.
claim_bytes_short(bytes) == dtail' = IF bytes = 0 THEN dtail ELSE dtail + bytes - 1

\* fetch_add on dtail_.
claim_bytes(bytes) == dtail' = dtail + bytes

\* Mutant: only the first bucket of the region is made sure of.
ensure_alloc_first(offset, bytes) ==
  data_buckets' = data_buckets \cup {BucketIdx(offset, BlockSize)}

\* dlog_->ensure_alloc(off, off + request_bytes).
ensure_alloc_bytes(offset, bytes) ==
  data_buckets' = data_buckets \cup Buckets(offset, offset + bytes, BlockSize)

\* Mutant: the packet is written at the start of the region, before its time
\* stamp's place is skipped.
append_pkt_unshifted(offset, t, p) ==
  LET cells == Run(offset, PktBytes(p), BlockSize)
  IN  dlog' = [a \in DOMAIN dlog \cup cells |->
                 IF a \in cells
                   THEN <<"pkt", p, a[2] - BucketOff(offset, BlockSize)>>
                   ELSE dlog[a]]

\* append_pkt: two memcpy into dlog_->ptr(offset).
append_pkt(offset, t, p) ==
  LET cells == Run(offset, PktBytes(p), BlockSize)
  IN  dlog' = [a \in DOMAIN dlog \cup cells |->
                 IF a \in cells
                   THEN Image(t, p)[a[2] - BucketOff(offset, BlockSize)]
                   ELSE dlog[a]]

\* What a reader finds at dlog_->ptr(ol.off).
ReadPkt(ol) ==
  [j \in 0..((TsBytes + ol.len) - 1) |->
     LET a == Addr(ol.off, j, BlockSize)
     IN  IF a \in DOMAIN dlog THEN dlog[a] ELSE Unset]

\* The record a reader gets for an id: lookup, then the bytes it points to.
Record(id) == IF lookup(id) = Unset THEN Unset ELSE ReadPkt(offlens[id])

-----------------------------------------------------------------------------
(* Entry lists: monolog_relaxed<uint64_t> behind lazily created indexlets  *)

\* indexlet::get: creates the list unless it is there.
get_list(key) ==
  lists' = [x \in DOMAIN lists \cup {key} |->
              IF x \in DOMAIN lists THEN lists[x] ELSE <<>>]

\* Mutant: push_back_range reserves one entry whatever the count.
reserve_one(key, count) ==
  lists' = [lists EXCEPT ![key] = @ \o <<Unset>>]

\* fetch_add on the list's tail_: the entries exist, their memory is not set.
reserve(key, count) ==
  lists' = [lists EXCEPT ![key] = @ \o [j \in 1..count |-> Unset]]

\* __monolog_base::set of the entry at `idx', counted from zero.
set_entry(key, idx, val) ==
  lists' = [lists EXCEPT ![key] = [@ EXCEPT ![idx + 1] = val]]

-----------------------------------------------------------------------------
(* insert_pktburst                                                         *)

\* The packet being handled: its data is already appended in phase "char".
Cur(w) == IF phase[w] = "char" THEN n[w] ELSE n[w] + 1
CurPkt(w) == pkts[w][Cur(w)]
CurId(w) == start_id[w] + Cur(w) - 1

\* The list the push in progress goes to, and how many entries it adds.
Target(w) ==
  CASE phase[w] = "time" -> TimeKey(now[w])
    [] phase[w] = "key"  -> IndexKeys(CurPkt(w))[k[w]]
    [] phase[w] = "char" -> CharKey(k[w], now[w])
Count(w)    == IF phase[w] = "time" THEN Len(pkts[w]) ELSE 1

\* Mutant: every entry gets the first id of the burst.
FirstValOfBurst(w) == start_id[w]

\* The value of the first entry of the push in progress.
FirstVal(w) == IF phase[w] = "time" THEN start_id[w] ELSE CurId(w)

Goto(w, l) == pc[w] = l[1] /\ pc' = [pc EXCEPT ![w] = l[2]]

\* Packets polled so far, for the bound MaxId.
NumPolled ==
  current_write_id +
  Cardinality(UNION {{w} \X DOMAIN pkts[w] : w \in {x \in Writers : pc[x] = "claim_ids"}})

\* recv_pkts, then std::time(nullptr).
Poll(w) ==
  /\ Goto(w, <<"poll", "claim_ids">>)
  /\ \E b \in Bursts : /\ NumPolled + Len(b) <= MaxId
                       /\ pkts' = [pkts EXCEPT ![w] = b]
  /\ now' = [now EXCEPT ![w] = clock]
  /\ known' = [known EXCEPT ![w] =
                 {c \in 0..(num_filters - 1) : \A a \in Adders : adder[a].char # c}]
  /\ UNCHANGED <<shared, phase, start_id, off, n, k, slot, f, num_chars,
                 adder, accepted>>

ClaimIds(w) ==
  /\ Goto(w, <<"claim_ids", "alloc_ids">>)
  /\ claim_ids(Len(pkts[w]))
  /\ start_id' = [start_id EXCEPT ![w] = current_write_id]
  /\ accepted' = [id \in 0..(current_write_id' - 1) |->
                    IF id < current_write_id THEN accepted[id]
                    ELSE [ts |-> now[w], chars |-> known[w],
                          pkt |-> pkts[w][id - current_write_id + 1]]]
  /\ UNCHANGED <<clock, current_read_id, offlens, id_buckets, dtail, dlog,
                 data_buckets, lists, num_filters, filters,
                 phase, pkts, now, off, n, k, slot, f, num_chars, adder, known>>

AllocIds(w) ==
  /\ Goto(w, <<"alloc_ids", "claim_bytes">>)
  /\ ensure_alloc_ids(start_id[w], Len(pkts[w]))
  /\ UNCHANGED <<clock, current_write_id, current_read_id, offlens, dtail, dlog,
                 data_buckets, lists, num_filters, filters,
                 phase, pkts, now, start_id, off, n, k, slot, f, num_chars,
                 adder, accepted, known>>

ClaimBytes(w) ==
  /\ Goto(w, <<"claim_bytes", "alloc_bytes">>)
  /\ claim_bytes(NumBytes(pkts[w]))
  /\ off' = [off EXCEPT ![w] = dtail]
  /\ n' = [n EXCEPT ![w] = 0]
  /\ UNCHANGED <<clock, current_write_id, current_read_id, offlens, id_buckets,
                 dlog, data_buckets, lists, num_filters, filters,
                 phase, pkts, now, start_id, k, slot, f, num_chars,
                 adder, accepted, known>>

AllocBytes(w) ==
  /\ Goto(w, <<"alloc_bytes", "load_filters">>)
  /\ ensure_alloc_bytes(off[w], NumBytes(pkts[w]))
  /\ UNCHANGED <<clock, current_write_id, current_read_id, offlens, id_buckets,
                 dtail, dlog, lists, num_filters, filters,
                 phase, pkts, now, start_id, off, n, k, slot, f, num_chars,
                 adder, accepted, known>>

\* Mutant: the count of complex characters is not reloaded for a burst.
LoadFiltersStale(w) ==
  /\ Goto(w, <<"load_filters", "get">>)
  /\ phase' = [phase EXCEPT ![w] = "time"]
  /\ UNCHANGED <<shared, pkts, now, start_id, off, n, k, slot, f, num_chars,
                 adder, accepted, known>>

\* num_filters_.load; char_idx_->get(now) is part of the lists' creation.
LoadFilters(w) ==
  /\ Goto(w, <<"load_filters", "get">>)
  /\ num_chars' = [num_chars EXCEPT ![w] = num_filters]
  /\ phase' = [phase EXCEPT ![w] = "time"]
  /\ UNCHANGED <<shared, pkts, now, start_id, off, n, k, slot, f,
                 adder, accepted, known>>

\* A push on a list: get(key) ...
GetList(w) ==
  /\ Goto(w, <<"get", "reserve">>)
  /\ get_list(Target(w))
  /\ UNCHANGED <<clock, current_write_id, current_read_id, offlens, id_buckets,
                 dtail, dlog, data_buckets, num_filters, filters,
                 phase, pkts, now, start_id, off, n, k, slot, f, num_chars,
                 adder, accepted, known>>

\* The heads of the loops of insert_pktburst: over the complex characters, over
\* the keys of the next packet, and the end of the loop over the packets.
ToChar(w, c) ==
  /\ pc' = [pc EXCEPT ![w] = "apply"]
  /\ phase' = [phase EXCEPT ![w] = "char"]
  /\ k' = [k EXCEPT ![w] = c]

ToKey(w, m) ==
  /\ pc' = [pc EXCEPT ![w] = "get"]
  /\ phase' = [phase EXCEPT ![w] = "key"]
  /\ k' = [k EXCEPT ![w] = m]

ToLabel(w, l) == pc' = [pc EXCEPT ![w] = l] /\ UNCHANGED <<phase, k>>

\* The loop over the packets goes on once m of them are done.
NextPkt(w, m) ==
  \/ m < Len(pkts[w]) /\ ToKey(w, 1)
  \/ m = Len(pkts[w]) /\ ToLabel(w, "end")

\* The loop over the complex characters goes on with c.
NextChar(w, c, m) ==
  \/ c < num_chars[w] /\ ToChar(w, c)
  \/ c = num_chars[w] /\ NextPkt(w, m)

\* Where a writer goes on once the entries of a push are set.
AfterPush(w) ==
  \/ phase[w] = "time" /\ NextPkt(w, 0)
  \/ /\ phase[w] = "key"
     /\ \/ k[w] < Len(IndexKeys(CurPkt(w))) /\ ToKey(w, k[w] + 1)
        \/ k[w] = Len(IndexKeys(CurPkt(w))) /\ ToLabel(w, "set_offlen")
  \/ phase[w] = "char" /\ NextChar(w, k[w] + 1, n[w])

\* ... fetch_add on its tail_ ...
Reserve(w) ==
  /\ pc[w] = "reserve"
  /\ reserve(Target(w), Count(w))
  /\ slot' = [slot EXCEPT ![w] = Len(lists[Target(w)])]
  /\ f' = [f EXCEPT ![w] = 0]
  /\ \/ Count(w) = 0 /\ AfterPush(w)
     \/ Count(w) > 0 /\ ToLabel(w, "fill")
  /\ UNCHANGED <<clock, current_write_id, current_read_id, offlens, id_buckets,
                 dtail, dlog, data_buckets, num_filters, filters,
                 pkts, now, start_id, off, n, num_chars, adder, accepted, known>>

\* ... and set of the entries, one at a time.
Fill(w) ==
  /\ pc[w] = "fill"
  /\ set_entry(Target(w), slot[w] + f[w], FirstVal(w) + f[w])
  /\ f' = [f EXCEPT ![w] = @ + 1]
  /\ \/ f[w] + 1 = Count(w) /\ AfterPush(w)
     \/ f[w] + 1 < Count(w) /\ ToLabel(w, "fill")
  /\ UNCHANGED <<clock, current_write_id, current_read_id, offlens, id_buckets,
                 dtail, dlog, data_buckets, num_filters, filters,
                 pkts, now, start_id, off, n, slot, num_chars, adder, accepted, known>>

SetOffLen(w) ==
  /\ Goto(w, <<"set_offlen", "append">>)
  /\ set_without_alloc(CurId(w), off[w], CurPkt(w).len)
  /\ UNCHANGED <<clock, current_write_id, current_read_id, id_buckets,
                 dtail, dlog, data_buckets, lists, num_filters, filters,
                 phase, pkts, now, start_id, off, n, k, slot, f, num_chars,
                 adder, accepted, known>>

AppendPkt(w) ==
  /\ pc[w] = "append"
  /\ append_pkt(off[w], now[w], CurPkt(w))
  /\ off' = [off EXCEPT ![w] = @ + PktBytes(CurPkt(w))]
  /\ n' = [n EXCEPT ![w] = @ + 1]
  /\ NextChar(w, 0, n[w] + 1)
  /\ UNCHANGED <<clock, current_write_id, current_read_id, offlens, id_buckets,
                 dtail, data_buckets, lists, num_filters, filters,
                 pkts, now, start_id, slot, f, num_chars, adder, accepted, known>>

\* The filter lists a writer may find at filters_[c]: while an adder assigns it,
\* the old list or what is being assigned.
Seen(c) == {filters[c]} \cup {adder[a].filter : a \in {b \in Adders : adder[b].char = c}}

\* One round of the loop over complex characters.
Apply(w) ==
  /\ pc[w] = "apply"
  /\ \E fl \in Seen(k[w]) :
       \/ CurPkt(w) \in fl /\ ToLabel(w, "get")
       \/ CurPkt(w) \notin fl /\ NextChar(w, k[w] + 1, n[w])
  /\ UNCHANGED <<shared, pkts, now, start_id, off, n, slot, f, num_chars,
                 adder, accepted, known>>

\* olog_->end(start_id, cnt); the locals of insert_pktburst go out of scope.
End(w) ==
  /\ Goto(w, <<"end", "poll">>)
  /\ end(start_id[w], Len(pkts[w]))
  /\ phase' = [phase EXCEPT ![w] = "time"]
  /\ pkts' = [pkts EXCEPT ![w] = <<>>]
  /\ now' = [now EXCEPT ![w] = 0]
  /\ start_id' = [start_id EXCEPT ![w] = 0]
  /\ off' = [off EXCEPT ![w] = 0]
  /\ n' = [n EXCEPT ![w] = 0]
  /\ k' = [k EXCEPT ![w] = 0]
  /\ slot' = [slot EXCEPT ![w] = 0]
  /\ f' = [f EXCEPT ![w] = 0]
  /\ num_chars' = [num_chars EXCEPT ![w] = 0]
  /\ known' = [known EXCEPT ![w] = {}]
  /\ UNCHANGED <<clock, current_write_id, offlens, id_buckets, dtail, dlog,
                 data_buckets, lists, num_filters, filters, adder, accepted>>

Writer(w) ==
  \/ Poll(w) \/ ClaimIds(w) \/ AllocIds(w) \/ ClaimBytes(w) \/ AllocBytes(w)
  \/ LoadFilters(w) \/ GetList(w) \/ Reserve(w) \/ Fill(w)
  \/ SetOffLen(w) \/ AppendPkt(w) \/ Apply(w) \/ End(w)

-----------------------------------------------------------------------------
(* add_complex_character and the clock                                     *)

NoChar == -1
Idle == [char |-> NoChar, filter |-> {}]

\* num_filters_.fetch_add.
ClaimChar(a) ==
  /\ adder[a] = Idle
  /\ num_filters < MaxChars
  /\ num_filters' = num_filters + 1
  /\ \E fl \in FilterLists :
       adder' = [adder EXCEPT ![a] = [char |-> num_filters, filter |-> fl]]
  /\ UNCHANGED <<clock, current_write_id, current_read_id, offlens, id_buckets,
                 dtail, dlog, data_buckets, lists, filters,
                 locals, accepted, known>>

\* filters_[idx] = filter; return idx.
AssignChar(a) ==
  /\ adder[a] # Idle
  /\ filters' = [filters EXCEPT ![adder[a].char] = adder[a].filter]
  /\ adder' = [adder EXCEPT ![a] = Idle]
  /\ UNCHANGED <<clock, current_write_id, current_read_id, offlens, id_buckets,
                 dtail, dlog, data_buckets, lists, num_filters,
                 locals, accepted, known>>

Tick ==
  /\ clock < MaxTime
  /\ clock' = clock + 1
  /\ UNCHANGED <<current_write_id, current_read_id, offlens, id_buckets,
                 dtail, dlog, data_buckets, lists, num_filters, filters,
                 locals, adder, accepted, known>>

-----------------------------------------------------------------------------

Init ==
  /\ clock = 0
  /\ current_write_id = 0
  /\ current_read_id = 0
  /\ offlens = [x \in {} |-> Unset]
  /\ id_buckets = {0}
  /\ dtail = 0
  /\ dlog = [x \in {} |-> Unset]
  /\ data_buckets = {0}
  /\ lists = [x \in {} |-> <<>>]
  /\ num_filters = 0
  /\ filters = [c \in 0..(MaxChars - 1) |-> {}]
  /\ pc = [w \in Writers |-> "poll"]
  /\ phase = [w \in Writers |-> "time"]
  /\ pkts = [w \in Writers |-> <<>>]
  /\ now = [w \in Writers |-> 0]
  /\ start_id = [w \in Writers |-> 0]
  /\ off = [w \in Writers |-> 0]
  /\ n = [w \in Writers |-> 0]
  /\ k = [w \in Writers |-> 0]
  /\ slot = [w \in Writers |-> 0]
  /\ f = [w \in Writers |-> 0]
  /\ num_chars = [w \in Writers |-> 0]
  /\ adder = [a \in Adders |-> Idle]
  /\ accepted = [x \in {} |-> Unset]
  /\ known = [w \in Writers |-> {}]

Next ==
  \/ \E w \in Writers : Writer(w)
  \/ \E a \in Adders : ClaimChar(a) \/ AssignChar(a)
  \/ Tick

Spec == Init /\ [][Next]_vars

\* Each writer thread keeps running; the others may stop at any point.
FairSpec == Spec /\ \A w \in Writers : WF_vars(Writer(w))

-----------------------------------------------------------------------------
(* Properties                                                              *)

\* A writer that holds ids, and one that holds bytes of the data log.
HasIds(w)   == pc[w] \notin {"poll", "claim_ids"}
HasBytes(w) == pc[w] \notin {"poll", "claim_ids", "alloc_ids", "claim_bytes"}

\* Where packet m of a writer's burst goes, for m > n[w].
PktOff(w, m) == off[w] + Layout(pkts[w])[m - 1] - Layout(pkts[w])[n[w]]

\* The cells of the packets a writer has still to append.
FutureCells(w) ==
  UNION {Run(PktOff(w, m), PktBytes(pkts[w][m]), BlockSize) :
           m \in (n[w] + 1)..Len(pkts[w])}

ImageOf(id) == Image(accepted[id].ts, accepted[id].pkt)

IsEntry(key, id) ==
  key \in DOMAIN lists /\ \E e \in DOMAIN lists[key] : lists[key][e] = id

Pcs == {"poll", "claim_ids", "alloc_ids", "claim_bytes", "alloc_bytes",
        "load_filters", "get", "reserve", "fill", "set_offlen", "append",
        "apply", "end"}

Accepted == [ts : Nat, pkt : Packets, chars : SUBSET Nat]

ControlType ==
  /\ pc \in [Writers -> Pcs]
  /\ phase \in [Writers -> {"time", "key", "char"}]
  /\ k \in [Writers -> Nat]

BurstType ==
  /\ pkts \in [Writers -> Seq(Packets)]
  /\ now \in [Writers -> Nat]
  /\ start_id \in [Writers -> Nat]
  /\ off \in [Writers -> Nat]
  /\ n \in [Writers -> Nat]
  /\ slot \in [Writers -> Nat]
  /\ f \in [Writers -> Nat]
  /\ num_chars \in [Writers -> 0..MaxChars]
  /\ known \in [Writers -> SUBSET Nat]

IdType ==
  /\ current_write_id \in Nat
  /\ current_read_id \in 0..current_write_id
  /\ id_buckets \subseteq Nat
  /\ accepted \in [0..(current_write_id - 1) -> Accepted]

OfflenType ==
  /\ offlens = [x \in DOMAIN offlens |-> offlens[x]]
  /\ DOMAIN offlens \subseteq Nat
  /\ \A x \in DOMAIN offlens : offlens[x] \in [off : Nat, len : Nat]

DataType ==
  /\ dtail \in Nat
  /\ dlog = [a \in DOMAIN dlog |-> dlog[a]]
  /\ DOMAIN dlog \subseteq Nat \X Nat
  /\ data_buckets \subseteq Nat

ListType ==
  /\ lists = [x \in DOMAIN lists |-> lists[x]]
  /\ \A x \in DOMAIN lists : lists[x] \in Seq(Nat \cup {Unset})

CharType ==
  /\ clock \in Nat
  /\ num_filters \in 0..MaxChars
  /\ filters \in [0..(MaxChars - 1) -> SUBSET Packets]
  /\ adder \in [Adders -> [char : Nat \cup {NoChar}, filter : SUBSET Packets]]

\* The type invariant: every variable of the store and of its threads, with the
\* published ids never beyond the claimed ones.
TypeOK ==
  /\ ControlType
  /\ BurstType
  /\ IdType
  /\ OfflenType
  /\ DataType
  /\ ListType
  /\ CharType

\* Every published id leads, through the offset log and the data log, to the
\* packet and time stamp it was claimed for: end() runs after set_without_alloc
\* and append_pkt of the whole burst, and of every earlier burst.
PublishedReadable ==
  \A id \in 0..(current_read_id - 1) : Record(id) = ImageOf(id)

\* Every published id is in the list of its time stamp and of each key of its
\* packet, once: a query that sweeps those lists up to num_ids() misses no
\* packet and finds none twice, whatever the writers do meanwhile.
PublishedIndexed ==
  \A id \in 0..(current_read_id - 1) :
    LET keys == IndexKeys(accepted[id].pkt)
    IN  \A key \in {TimeKey(accepted[id].ts)} \cup {keys[m] : m \in DOMAIN keys} :
          /\ key \in DOMAIN lists
          /\ \E e \in DOMAIN lists[key] :
               \A x \in DOMAIN lists[key] : lists[key][x] = id <=> x = e

\* An entry that is set names a claimed id, and only in lists its packet belongs
\* to: add_entry and push_back_range put no id under a foreign token.
IndexSound ==
  \A key \in DOMAIN lists : \A e \in DOMAIN lists[key] :
    LET id == lists[key][e] IN
    id # Unset =>
      /\ id \in DOMAIN accepted
      /\ \/ key = TimeKey(accepted[id].ts)
         \/ \E m \in DOMAIN IndexKeys(accepted[id].pkt) : key = IndexKeys(accepted[id].pkt)[m]
         \/ \E c \in 0..(num_filters - 1) : key = CharKey(c, accepted[id].ts)

\* A published packet polled after add_complex_character had returned c is in
\* the list of c for its second exactly when the filter list of c matches it.
CharactersComplete ==
  \A id \in 0..(current_read_id - 1) : \A c \in accepted[id].chars :
    IsEntry(CharKey(c, accepted[id].ts), id) <=> accepted[id].pkt \in filters[c]

\* "This thread has exclusive access to the region" (append_pkt): the cells a
\* writer has still to write belong to no other writer and to no packet stored.
ExclusiveRegions ==
  \A w \in {x \in Writers : HasBytes(x)} :
    /\ \A v \in {x \in Writers : HasBytes(x)} \ {w} :
         FutureCells(w) \cap FutureCells(v) = {}
    /\ \A id \in DOMAIN offlens :
         \/ pc[w] = "append" /\ id = CurId(w)
         \/ Run(offlens[id].off, TsBytes + offlens[id].len, BlockSize)
              \cap FutureCells(w) = {}

\* ptr() and set_unsafe() never meet a bucket that is not allocated: the buckets
\* of a burst are all there when its packets are written, although other writers
\* claim ids and bytes of the same and of later buckets concurrently.
AllocatedBeforeUse ==
  \A w \in Writers :
    /\ pc[w] = "set_offlen" => BucketIdx(CurId(w), IdBlockSize) \in id_buckets
    /\ pc[w] = "append" => BucketIdx(off[w], BlockSize) \in data_buckets

\* No packet is written past the extra cells of its bucket.  It needs packets no
\* longer than those cells: the store itself does not check.
WithinBuckets ==
  \A a \in DOMAIN dlog : a[2] < BlockSize + BufferSize

\* Every id that is claimed is published in the end.
AllPublished ==
  \A id \in 0..(MaxId - 1) : current_write_id > id ~> current_read_id > id

\* Every writer polls its port again and again.
KeepsPolling == \A w \in Writers : []<>(pc[w] = "poll")

=============================================================================
