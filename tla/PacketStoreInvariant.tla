------------------------ MODULE PacketStoreInvariant -------------------------
(***************************************************************************)
(* The inductive invariant behind PublishedReadable, ExclusiveRegions and  *)
(* the refinement: who holds which ids and which bytes, and what has been  *)
(* written of them.                                                        *)
(***************************************************************************)
EXTENDS PacketStoreRefinement

\* Ids: a writer's ids are claimed, not published, recorded in the history and
\* disjoint from those of the other writers.
IdsOf(w) ==
  HasIds(w) =>
    /\ start_id[w] + Len(pkts[w]) <= current_write_id
    /\ Len(pkts[w]) > 0 => current_read_id <= start_id[w]
    /\ \A m \in 1..Len(pkts[w]) :
         accepted[start_id[w] + m - 1] =
           [ts |-> now[w], chars |-> known[w], pkt |-> pkts[w][m]]

DisjointIds(w, v) ==
  HasIds(w) /\ HasIds(v) =>
    \/ start_id[w] + Len(pkts[w]) <= start_id[v]
    \/ start_id[v] + Len(pkts[v]) <= start_id[w]

IdInv ==
  /\ \A w \in Writers : IdsOf(w)
  /\ \A w, v \in Writers : w # v => DisjointIds(w, v)

\* Control: how far a writer is in its burst, by its program counter.
ControlOf(w) ==
  /\ pc[w] \in {"alloc_bytes", "load_filters"} => n[w] = 0
  /\ pc[w] \in {"get", "reserve", "fill"} =>
       \/ phase[w] = "time" /\ n[w] = 0
       \/ phase[w] = "key" /\ n[w] < Len(pkts[w])
       \/ phase[w] = "char" /\ n[w] \in 1..Len(pkts[w])
  /\ pc[w] \in {"set_offlen", "append"} => phase[w] = "key" /\ n[w] < Len(pkts[w])
  /\ pc[w] = "apply" => phase[w] = "char" /\ n[w] \in 1..Len(pkts[w])
  /\ pc[w] = "end" => n[w] = Len(pkts[w])

ControlInv == \A w \in Writers : ControlOf(w)

\* Bytes: what a writer has still to write ends at EndOff, below dtail, and does
\* not meet what another writer has still to write.
EndOff(w) == off[w] + NumBytes(pkts[w]) - Layout(pkts[w])[n[w]]

DisjointBytes(w, v) ==
  HasBytes(w) /\ HasBytes(v) => EndOff(w) <= off[v] \/ EndOff(v) <= off[w]

ByteInv ==
  /\ \A w \in Writers : HasBytes(w) => EndOff(w) <= dtail
  /\ \A w, v \in Writers : w # v => DisjointBytes(w, v)

\* The ids whose packet is in the data log: published, or already appended by
\* the writer that holds them.
Appended(id) ==
  \/ id < current_read_id
  \/ \E w \in Writers : HasBytes(w) /\ id \in start_id[w]..(start_id[w] + n[w] - 1)

StoredIds == {id \in DOMAIN accepted : Appended(id)}

\* Where the packet of an id that has its offset set ends.
RecordEnd(id) == offlens[id].off + TsBytes + offlens[id].len

\* Content: a stored packet is what was accepted, and lies outside everything
\* that is still to be written.
HoldsPacket(id) ==
  /\ id \in DOMAIN offlens
  /\ offlens[id].len = accepted[id].pkt.len
  /\ RecordEnd(id) <= dtail
  /\ ReadPkt(offlens[id]) = ImageOf(id)

ApartFrom(id, w) ==
  HasBytes(w) => RecordEnd(id) <= off[w] \/ EndOff(w) <= offlens[id].off

StoredInv == \A id \in StoredIds : HoldsPacket(id) /\ \A w \in Writers : ApartFrom(id, w)

\* Between set_without_alloc and append_pkt the entry already points to the
\* place of the packet; every other entry is that of a stored packet.
PointerInv ==
  /\ \A w \in Writers : pc[w] = "append" =>
       /\ CurId(w) \in DOMAIN offlens
       /\ offlens[CurId(w)] = [off |-> off[w], len |-> CurPkt(w).len]
  /\ \A id \in DOMAIN offlens :
       id \in StoredIds \/ \E w \in Writers : pc[w] = "append" /\ id = CurId(w)

\* Buckets: those of the bytes and ids a writer has still to write are there.
BucketInv ==
  \A w \in Writers :
    /\ HasIds(w) /\ pc[w] # "alloc_ids" =>
         Buckets(start_id[w], start_id[w] + Len(pkts[w]), IdBlockSize) \subseteq id_buckets
    /\ HasBytes(w) /\ pc[w] # "alloc_bytes" =>
         Buckets(off[w], EndOff(w), BlockSize) \subseteq data_buckets

\* Bounds: no time stamp is later than the clock may go, no burst longer than
\* BATCH_SIZE.
BoundInv ==
  /\ clock \in 0..MaxTime
  /\ \A w \in Writers : now[w] \in 0..MaxTime /\ Len(pkts[w]) <= MaxBurst

\* The whole: it is inductive, implies PublishedReadable, and makes every step
\* of the store a step of PublishedLog or a stutter.
StoreInv ==
  /\ TypeOK
  /\ IdInv
  /\ ControlInv
  /\ ByteInv
  /\ StoredInv
  /\ PointerInv
  /\ BucketInv
  /\ BoundInv

=============================================================================
