-------------------------- MODULE PacketStoreIndex ---------------------------
(***************************************************************************)
(* The inductive invariant behind PublishedIndexed, IndexSound and         *)
(* CharactersComplete: which entries of a list a push has reserved, and    *)
(* which ids of a burst are on which lists while insert_pktburst runs.     *)
(***************************************************************************)
EXTENDS PacketStoreInvariant

\* A writer in the middle of a push.
Pushing(w) == pc[w] \in {"get", "reserve", "fill"}

\* Control: the loop variables before a burst is claimed, in the loops over the
\* keys of a packet and over the complex characters, and after them.
LoopOf(w) ==
  /\ pc[w] \in {"poll", "claim_ids", "alloc_ids", "claim_bytes", "alloc_bytes", "load_filters"} =>
       phase[w] = "time" /\ n[w] = 0
  /\ pc[w] = "end" /\ Len(pkts[w]) > 0 => phase[w] # "time"
  /\ Pushing(w) /\ phase[w] = "key" => k[w] \in 1..Len(IndexKeys(CurPkt(w)))
  /\ phase[w] = "char" /\ (Pushing(w) \/ pc[w] = "apply") => k[w] < num_chars[w]
  /\ num_chars[w] <= num_filters

LoopInv == \A w \in Writers : LoopOf(w)

\* Pushes: a push finds its list; the entries it has reserved and not set yet are
\* there and not set, and no other push has reserved them.
FillOf(w) ==
  /\ pc[w] \in {"reserve", "fill"} => Target(w) \in DOMAIN lists
  /\ pc[w] = "fill" =>
       /\ f[w] < Count(w)
       /\ slot[w] + Count(w) <= Len(lists[Target(w)])
       /\ \A e \in (slot[w] + f[w] + 1)..(slot[w] + Count(w)) : lists[Target(w)][e] = Unset

DisjointFills(w, v) ==
  pc[w] = "fill" /\ pc[v] = "fill" /\ Target(w) = Target(v) =>
    slot[w] + Count(w) <= slot[v] \/ slot[v] + Count(v) <= slot[w]

FillInv ==
  /\ \A w \in Writers : FillOf(w)
  /\ \A w, v \in Writers : w # v => DisjointFills(w, v)

\* The lists of a second and of the keys of a packet.
KeysOf(p) == {IndexKeys(p)[j] : j \in 1..Len(IndexKeys(p))}
ListsOf(t, p) == {TimeKey(t)} \cup KeysOf(p)

\* The lists that packet m of a writer's burst is on already.
ListedTime(w, m) == phase[w] # "time" \/ (pc[w] = "fill" /\ m <= f[w])
ListedKeys(w, m) ==
  {j \in 1..Len(IndexKeys(pkts[w][m])) :
     \/ m <= n[w]
     \/ m = n[w] + 1 /\ phase[w] = "key" /\ (pc[w] \in {"set_offlen", "append"} \/ j < k[w])}

ListedIn(w, m) ==
  {key \in {TimeKey(now[w])} : ListedTime(w, m)} \cup
  {IndexKeys(pkts[w][m])[j] : j \in ListedKeys(w, m)}

\* Lists: no id is twice on a list of a second or of a key; the ids of a burst
\* are on the lists they have been pushed to and on no other, and published ids
\* on all of theirs.
IsChar(key) == key[1] = "char"

UniqueInv ==
  \A key \in DOMAIN lists : ~IsChar(key) =>
    \A d, e \in DOMAIN lists[key] :
      lists[key][d] = lists[key][e] /\ lists[key][d] # Unset => d = e

HeldListed(w) ==
  HasIds(w) =>
    \A m \in 1..Len(pkts[w]) : \A key \in ListsOf(now[w], pkts[w][m]) :
      IsEntry(key, start_id[w] + m - 1) <=> key \in ListedIn(w, m)

PublishedOn ==
  \A id \in 0..(current_read_id - 1) :
    \A key \in ListsOf(accepted[id].ts, accepted[id].pkt) : IsEntry(key, id)

ListedInv ==
  /\ UniqueInv
  /\ \A w \in Writers : HeldListed(w)
  /\ PublishedOn

\* Characters: one that a burst knows has its filter list, for good.
Settled(c) == c \in 0..(num_filters - 1) /\ \A a \in Adders : adder[a].char # c

\* Which packets of a burst have been tried against character c.
Tried(w, m, c) ==
  \/ m < n[w]
  \/ m = n[w] /\ (phase[w] = "char" /\ pc[w] # "end" => c < k[w])

\* A packet that is being pushed for a settled character matches its filters.
Matched(w) ==
  Pushing(w) /\ phase[w] = "char" /\ k[w] \in known[w] => pkts[w][n[w]] \in filters[k[w]]

HeldChars(w) ==
  HasIds(w) =>
    \A m \in 1..Len(pkts[w]) : \A c \in known[w] :
      IsEntry(CharKey(c, now[w]), start_id[w] + m - 1) <=>
        Tried(w, m, c) /\ pkts[w][m] \in filters[c]

\* The characters bursts and stored packets know are settled, and a burst loops
\* over all of those it knows.
KnownInv ==
  /\ \A w \in Writers : \A c \in known[w] : Settled(c)
  /\ \A w \in Writers : HasBytes(w) /\ pc[w] \notin {"alloc_bytes", "load_filters"} =>
       \A c \in known[w] : c < num_chars[w]
  /\ \A id \in DOMAIN accepted : \A c \in accepted[id].chars : Settled(c)

CharInv ==
  /\ KnownInv
  /\ \A w \in Writers : Matched(w) /\ HeldChars(w)

\* The whole.
IndexInv ==
  /\ LoopInv
  /\ FillInv
  /\ IndexSound
  /\ ListedInv
  /\ CharInv
  /\ CharactersComplete

=============================================================================
