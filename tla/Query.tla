------------------------------- MODULE Query -------------------------------
(***************************************************************************)
(* Queries on the packet store while packets are inserted: filter_pkts and *)
(* approx_pkt_count on a token index, complex_character_lookup and         *)
(* query_character on the complex character index.  A query walks the      *)
(* entry lists of a range of keys with the iterators of filterresult.h,    *)
(* packet_filter.h and complex_character_index.h and takes no lock: lists  *)
(* appear, grow and are filled in while it runs.                           *)
(*                                                                         *)
(* The index is the one the queries read ("token": any index of the log    *)
(* store; "char": the character index, where the key is the time stamp and *)
(* one more slot selects the character), and an insertion is shown by what *)
(* it does to that index, to the records and to the ids.  PacketStore has  *)
(* the whole insertion.  Indices into a list count from zero.              *)
(***************************************************************************)
EXTENDS TieredIndex, Functions

CONSTANTS
  Writers, Readers,
  OffsetMin,    \* OFFSETMIN: index ids are made of a class and a number below it
  Number,       \* how many indexes of the same length were added before
  Views,        \* which of the indexes to consider: "token", "char"
  Records,      \* records: a key (token or time stamp), and whether the filter of
                \* the clauses, or of the character, is satisfied
  Plans,        \* query plans: sequences of clauses
  MaxId,        \* bound on the records inserted
  FirstBucket,  \* FBS: the entries of a list there is memory for from the start
  Garbage,      \* values uninitialised memory may hold
  Unset         \* an entry that is reserved and not set

ASSUME ThreadAssumption == Threads = Writers \cup Readers /\ Writers \cap Readers = {}
ASSUME NumberAssumption == OffsetMin \in Nat /\ Number \in 0..(OffsetMin - 1) /\ MaxId \in Nat
ASSUME ViewAssumption == Views \subseteq {"token", "char"}
ASSUME PlanAssumption ==
  \A p \in Plans : /\ p \in Seq([lo : Nat, hi : Nat, pf : BOOLEAN]) \ {<<>>}
                   /\ \A c \in Range(p) : c.lo <= c.hi + 1
ASSUME RecordAssumption == Records \subseteq [tok : Nat, hit : BOOLEAN]
ASSUME UnsetEntry == Garbage \subseteq Nat /\ Unset \notin Nat

VARIABLES
  view,              \* the index considered
  current_write_id,  \* ids below it are claimed
  current_read_id,   \* ids below it are published
  records,           \* the records written to the offset log and the data log
  lists,             \* the entries of each list that has had a push
  op,                \* the insertion each writer is in
  q,                 \* the query each reader is in, with its result
  claimed            \* history: the record each id was claimed for

store_vars == <<view, current_write_id, current_read_id, records, lists, op, claimed>>
vars == <<index_vars, store_vars, q>>

\* The character that is asked for, in the last tier of the character index.
CharId == 0

KeyPath(tok) == IF view = "char" THEN Path(tok) \o <<CharId>> ELSE Path(tok)

\* add_index: the id of the n-th index for tokens of a length, zero for a length
\* there is no index for.
add_index(len, n) == IF len \in 1..8 THEN OffsetMin * 2^(len - 1) + n ELSE 0

\* How filter() and filter_count() find an index: its length and number, or none.
Dispatch(id) ==
  {<<l, id % OffsetMin>> : l \in {x \in 1..8 : id \div OffsetMin = 2^(x - 1)}}

-----------------------------------------------------------------------------
(* Entry lists: monolog_relaxed, see Monolog and EntryList                 *)

Entries(l) == IF l \in DOMAIN lists THEN lists[l] ELSE <<>>
Size(l) == Len(Entries(l))

\* The bucket of entry i: bucket b has FBS * 2^b entries.
Bucket(i) ==
  CHOOSE b \in 0..i : /\ FirstBucket * 2^b <= i + FirstBucket
                     /\ i + FirstBucket < FirstBucket * 2^(b + 1)

\* Whether there is memory for entry i: the first bucket comes with the list, a
\* later one with the first entry that is set in it.
HasMemory(l, i) ==
  \/ Bucket(i) = 0
  \/ \E j \in 0..(Size(l) - 1) : Bucket(j) = Bucket(i) /\ Entries(l)[j + 1] # Unset

\* What reading entry i of a list may give: its value; whatever the memory held
\* before if it is not set; a fault (Null) where there is no list or no memory.
Read(l, i) ==
  IF l = Null \/ i < 0 THEN {Null}
  ELSE IF i < Size(l) /\ Entries(l)[i + 1] # Unset THEN {Entries(l)[i + 1]}
  ELSE IF HasMemory(l, i) THEN Garbage
  ELSE {Null}

IsHole(l, i) == l # Null /\ (i >= Size(l) \/ Entries(l)[i + 1] = Unset)

-----------------------------------------------------------------------------
(* Insertions                                                              *)

NoInsert == [pc |-> "idle", id |-> 0, rec |-> Null, place |-> 0]

\* Somebody changes the index: no query under way is undisturbed any more.
Disturb == [r \in Readers |-> [q[r] EXCEPT !.quiet = FALSE]]

\* The id is claimed, and get() is called for the key (for the character index:
\* char_idx_->get(now), the tiers of the time stamp only).
Claim(w) ==
  /\ op[w].pc = "idle"
  /\ current_write_id < MaxId
  /\ \E r \in Records :
       /\ op' = [op EXCEPT ![w] = [pc |-> "get", id |-> current_write_id, rec |-> r, place |-> 0]]
       /\ claimed' = Append(claimed, r)
       /\ Enter(w, Root, Path(r.tok))
  /\ current_write_id' = current_write_id + 1
  /\ q' = Disturb
  /\ UNCHANGED <<length, idx, live, view, current_read_id, records, lists>>

Get(w) ==
  /\ op[w].pc = "get"
  /\ GetStep(w)
  /\ UNCHANGED <<store_vars, q>>

\* Whether the writer has reached the list to push on, and not only the table of
\* the characters of the time stamp.
AtList(w) == view = "token" \/ op[w].id \in DOMAIN records

\* push_back: the place is reserved ...
Reserve(w) ==
  /\ op[w].pc = "get"
  /\ Arrived(w)
  /\ AtList(w)
  /\ LET l == walk[w].node
     IN  /\ lists' = [x \in DOMAIN lists \cup {l} |->
                        IF x = l THEN Append(Entries(l), Unset) ELSE lists[x]]
         /\ op' = [op EXCEPT ![w].pc = "set", ![w].place = Size(l)]
  /\ UNCHANGED <<index_vars, view, current_write_id, current_read_id, records, q, claimed>>

\* ... and set.
SetEntry(w) ==
  /\ op[w].pc = "set"
  /\ lists' = [lists EXCEPT ![walk[w].node] = [@ EXCEPT ![op[w].place + 1] = op[w].id]]
  /\ op' = [op EXCEPT ![w].pc = IF view = "token" THEN "append" ELSE "end"]
  /\ UNCHANGED <<index_vars, view, current_write_id, current_read_id, records, q, claimed>>

\* set_without_alloc and append_pkt, after the pushes on the token lists and
\* before those on the character lists, where only packets that satisfy the
\* character's filter are pushed.
AppendRecord(w) ==
  /\ \/ op[w].pc = "append"
     \/ op[w].pc = "get" /\ Arrived(w) /\ ~AtList(w)
  /\ records' = [id \in DOMAIN records \cup {op[w].id} |->
                   IF id = op[w].id THEN op[w].rec ELSE records[id]]
  /\ \/ /\ view = "char" /\ op[w].rec.hit
        /\ Enter(w, walk[w].node, <<CharId>>)
        /\ UNCHANGED op
     \/ /\ view = "token" \/ ~op[w].rec.hit
        /\ op' = [op EXCEPT ![w].pc = "end"]
        /\ UNCHANGED walk
  /\ UNCHANGED <<length, idx, live, view, current_write_id, current_read_id, lists, q, claimed>>

\* Mutant: the id is published without waiting for the earlier ones.
EndUnordered(w) ==
  /\ op[w].pc = "end"
  /\ current_read_id' = op[w].id + 1
  /\ op' = [op EXCEPT ![w] = NoInsert]
  /\ walk' = [walk EXCEPT ![w] = NoWalk]
  /\ UNCHANGED <<length, idx, live, view, current_write_id, records, lists, q, claimed>>

\* offsetlog::end.
End(w) ==
  /\ op[w].pc = "end"
  /\ current_read_id = op[w].id
  /\ current_read_id' = op[w].id + 1
  /\ op' = [op EXCEPT ![w] = NoInsert]
  /\ walk' = [walk EXCEPT ![w] = NoWalk]
  /\ UNCHANGED <<length, idx, live, view, current_write_id, records, lists, q, claimed>>

Insert(w) ==
  Claim(w) \/ Get(w) \/ Reserve(w) \/ SetEntry(w) \/ AppendRecord(w) \/ End(w)

-----------------------------------------------------------------------------
(* Queries                                                                 *)

\* The locals of a query: the clauses ahead, the iterator (cur_tok, cur_idx,
\* cur_list, and whether operator++ has not been called yet), the results and
\* the count.  History: the plan, whether the entry at hand was read before it
\* was set, and whether nobody has inserted, or created lists, meanwhile.
NoQuery ==
  [pc |-> "idle", plan |-> <<>>, max_rid |-> 0, tok |-> 0, idx |-> 0, list |-> Null,
   first |-> FALSE, hole |-> FALSE, count |-> 0, results |-> {}, asked |-> <<>>,
   quiet |-> FALSE]

\* The process is gone.
Crash(s) == [NoQuery EXCEPT !.pc = "crash", !.asked = s.asked, !.quiet = s.quiet]

Clause(r) == Head(q[r].plan)

\* Lists that get() has created and nobody has pushed on.
EmptyLists ==
  {l \in {at(KeyPath(t)) : t \in UNION {c.lo..c.hi : c \in UNION {Range(p) : p \in Plans}}} :
     l # Null /\ Size(l) = 0}

\* Threads that create nodes of the index, or are about to: writers, and readers
\* in query_character.
Changing ==
  \/ \E w \in Writers : op[w].pc # "idle"
  \/ view = "char" /\ \E r \in Readers : q[r].pc = "count"

\* filter_pkts and complex_character_lookup load num_ids() once, before the
\* iterators are made; the counts do not.
Start(r) ==
  /\ q[r].pc = "idle"
  /\ \E p \in Plans, o \in {"filter", "count"} :
       /\ view = "token" => Dispatch(add_index(length, Number)) = {<<length, Number>>}
       /\ view = "char" \/ o = "count" => Len(p) = 1 /\ ~p[1].pf
       /\ q' = [(IF o = "count" /\ view = "char" THEN Disturb ELSE q) EXCEPT ![r] =
                  [NoQuery EXCEPT !.pc = IF o = "filter" THEN "begin" ELSE "count",
                     !.plan = p, !.asked = p, !.tok = p[1].lo,
                     !.max_rid = current_read_id, !.quiet = EmptyLists = {} /\ ~Changing]]
       /\ IF o = "count" /\ view = "char" /\ p[1].lo <= p[1].hi
            THEN Enter(r, Root, KeyPath(p[1].lo))
            ELSE UNCHANGED walk
  /\ UNCHANGED <<length, idx, live, store_vars>>

\* An index id that filter() does not know: the empty filter_result(), whose
\* begin() differs from its end() and points to no list.
Unknown(r) ==
  /\ q[r].pc = "idle" /\ view = "token"
  /\ Dispatch(add_index(0, 0)) = {}
  /\ q' = [q EXCEPT ![r] = Crash([@ EXCEPT !.asked = <<[lo |-> 1, hi |-> 0, pf |-> FALSE]>>])]
  /\ UNCHANGED <<index_vars, store_vars>>

\* The iterator's constructor: the list of the first key, before advance().
Begin(r) ==
  /\ q[r].pc = "begin"
  /\ q' = [q EXCEPT ![r] =
             [@ EXCEPT !.pc = "advance", !.tok = Clause(r).lo, !.idx = -1,
                       !.list = at(KeyPath(Clause(r).lo)), !.first = TRUE, !.hole = FALSE]]
  /\ UNCHANGED <<index_vars, store_vars>>

\* An element is reached: operator++ looks at it, the constructor does not.
Reached(s) == [s EXCEPT !.pc = IF s.first THEN "deref" ELSE "check"]

\* Mutant: cur_idx_ is not set to zero for the next list.
AdvanceKeepingIdx(r) ==
  /\ q[r].pc = "advance"
  /\ LET i == q[r].idx + 1
     IN  q' = [q EXCEPT ![r] =
                 IF q[r].tok = Clause(r).hi + 1 THEN Reached(@)
                 ELSE IF q[r].list = Null \/ i = Size(q[r].list)
                   THEN [@ EXCEPT !.pc = "scan", !.idx = i]
                   ELSE Reached([@ EXCEPT !.idx = i])]
  /\ UNCHANGED <<index_vars, store_vars>>

\* advance(): nothing happens at the end (so a range that ends just before it
\* begins leaves cur_idx_ at -1, where no list has an entry); otherwise the next
\* entry of the list, or the next list.
Advance(r) ==
  /\ q[r].pc = "advance"
  /\ LET i == q[r].idx + 1
     IN  q' = [q EXCEPT ![r] =
                 IF q[r].tok = Clause(r).hi + 1 THEN Reached(@)
                 ELSE IF q[r].list = Null \/ i = Size(q[r].list)
                   THEN [@ EXCEPT !.pc = "scan", !.idx = 0]
                   ELSE Reached([@ EXCEPT !.idx = i])]
  /\ UNCHANGED <<index_vars, store_vars>>

\* The end of a clause: its iterator equals end().  After the last one the
\* query returns.
NextClause(s) ==
  IF Len(s.plan) = 1 THEN NoQuery
  ELSE [s EXCEPT !.pc = "begin", !.plan = Tail(@), !.list = Null, !.idx = 0]

\* Mutant: the last key of the range is taken for the end.
ScanShort(r) ==
  /\ q[r].pc = "scan"
  /\ LET t == q[r].tok + 1
         l == at(KeyPath(t))
         s == [q[r] EXCEPT !.tok = t, !.list = l]
     IN  q' = [q EXCEPT ![r] = IF t >= Clause(r).hi THEN NextClause(s)
                                 ELSE IF l = Null THEN s
                                 ELSE Reached(s)]
  /\ UNCHANGED <<index_vars, store_vars>>

\* The loop of advance() over the keys: at(++cur_tok) until a list is found or
\* the end is passed.  The list after the last key is looked up too, past the
\* table if the key is the largest one: with several tiers what is found there
\* is followed.
Scan(r) ==
  /\ q[r].pc = "scan"
  /\ LET t == q[r].tok + 1
         l == at(KeyPath(t))
         s == [q[r] EXCEPT !.tok = t, !.list = l]
         wild == OutOfTable(KeyPath(t)) /\ Len(KeyPath(t)) > 1
     IN  \/ q' = [q EXCEPT ![r] = IF t = Clause(r).hi + 1 THEN NextClause(s)
                                    ELSE IF l = Null /\ t <= Clause(r).hi THEN s
                                    ELSE Reached(s)]
         \/ wild /\ q' = [q EXCEPT ![r] = Crash(@)]
  /\ UNCHANGED <<index_vars, store_vars>>

\* Mutant: the id max_rid itself passes.
CheckInclusive(r) ==
  /\ q[r].pc = "check"
  /\ LET s == [q[r] EXCEPT !.hole = IsHole(q[r].list, q[r].idx)]
     IN  \E v \in Read(q[r].list, q[r].idx) :
           q' = [q EXCEPT ![r] =
                   IF v = Null THEN Crash(s)
                   ELSE IF v > s.max_rid THEN [s EXCEPT !.pc = "advance"]
                   ELSE [s EXCEPT !.pc = IF Clause(r).pf THEN "apply" ELSE "deref"]]
  /\ UNCHANGED <<index_vars, store_vars>>

\* operator++: an entry at or above max_rid is skipped.
Check(r) ==
  /\ q[r].pc = "check"
  /\ LET s == [q[r] EXCEPT !.hole = IsHole(q[r].list, q[r].idx)]
     IN  \E v \in Read(q[r].list, q[r].idx) :
           q' = [q EXCEPT ![r] =
                   IF v = Null THEN Crash(s)
                   ELSE IF v >= s.max_rid THEN [s EXCEPT !.pc = "advance"]
                   ELSE [s EXCEPT !.pc = IF Clause(r).pf THEN "apply" ELSE "deref"]]
  /\ UNCHANGED <<index_vars, store_vars>>

\* packet_filter_iterator::operator++: the record is looked up and the filter
\* applied.  The offset of a record that is not written yet is arbitrary.
Apply(r) ==
  /\ q[r].pc = "apply"
  /\ \E v \in Read(q[r].list, q[r].idx) :
       \/ /\ v \notin DOMAIN records
          /\ \/ \E l \in {"deref", "advance"} : q' = [q EXCEPT ![r].pc = l]
             \/ q' = [q EXCEPT ![r] = Crash(@)]
       \/ /\ v \in DOMAIN records
          /\ q' = [q EXCEPT ![r].pc = IF records[v].hit THEN "deref" ELSE "advance"]
  /\ UNCHANGED <<index_vars, store_vars>>

\* operator*: the entry is read again and inserted in the results.
Deref(r) ==
  /\ q[r].pc = "deref"
  /\ \E v \in Read(q[r].list, q[r].idx) :
       q' = [q EXCEPT ![r] =
               IF v = Null THEN Crash(@)
               ELSE [@ EXCEPT !.pc = "advance", !.first = FALSE, !.hole = FALSE,
                              !.results = q[r].results \cup {v}]]
  /\ UNCHANGED <<index_vars, store_vars>>

\* Mutant: the last key of the range is left out.
FilterCountShort(r) ==
  /\ q[r].pc = "count" /\ view = "token"
  /\ q' = [q EXCEPT ![r] =
             IF q[r].tok >= Clause(r).hi THEN NoQuery
             ELSE [@ EXCEPT !.tok = q[r].tok + 1,
                            !.count = q[r].count + Size(at(Path(q[r].tok)))]]
  /\ UNCHANGED <<index_vars, store_vars>>

\* filter_count: the sizes of the lists of the range that exist.
FilterCount(r) ==
  /\ q[r].pc = "count" /\ view = "token"
  /\ q' = [q EXCEPT ![r] =
             IF q[r].tok > Clause(r).hi THEN NoQuery
             ELSE [@ EXCEPT !.tok = q[r].tok + 1,
                            !.count = q[r].count + Size(at(Path(q[r].tok)))]]
  /\ UNCHANGED <<index_vars, store_vars>>

\* query_character<packet_counter>: get() creates the lists of the range that do
\* not exist.
QueryCharacter(r) ==
  /\ q[r].pc = "count" /\ view = "char"
  /\ \/ GetStep(r) /\ UNCHANGED q
     \/ /\ Arrived(r) /\ q[r].tok <= Clause(r).hi
        /\ q' = [q EXCEPT ![r] = [@ EXCEPT !.tok = q[r].tok + 1,
                                           !.count = q[r].count + Size(walk[r].node)]]
        /\ IF q[r].tok < Clause(r).hi THEN Enter(r, Root, KeyPath(q[r].tok + 1))
                                        ELSE walk' = [walk EXCEPT ![r] = NoWalk]
        /\ UNCHANGED <<length, idx, live>>
     \/ /\ q[r].tok > Clause(r).hi
        /\ q' = [q EXCEPT ![r] = NoQuery]
        /\ UNCHANGED index_vars
  /\ UNCHANGED store_vars

Ask(r) ==
  \/ Start(r) \/ Unknown(r) \/ Begin(r) \/ Advance(r) \/ Scan(r) \/ Check(r) \/ Apply(r) \/ Deref(r)
  \/ FilterCount(r) \/ QueryCharacter(r)

Init ==
  /\ IndexInit
  /\ view \in Views
  /\ view = "char" => length = 4
  /\ current_write_id = 0
  /\ current_read_id = 0
  /\ records = [id \in {} |-> Null]
  /\ lists = [l \in {} |-> <<>>]
  /\ op = [w \in Writers |-> NoInsert]
  /\ q = [r \in Readers |-> NoQuery]
  /\ claimed = <<>>

\* A fault ends the process, and with it every thread.
Running == \A r \in Readers : q[r].pc # "crash"

Next ==
  /\ Running
  /\ (\E w \in Writers : Insert(w)) \/ (\E r \in Readers : Ask(r))

Spec == Init /\ [][Next]_vars

-----------------------------------------------------------------------------
(* Properties                                                              *)

\* The ids below `bound' of the records a clause asks for.
Matching(c, bound) ==
  {id \in 0..(bound - 1) :
     /\ claimed[id + 1].tok \in c.lo..c.hi
     /\ c.pf \/ view = "char" => claimed[id + 1].hit}

\* The step in which a query returns.
Returns(r) == q[r].pc # "idle" /\ q'[r].pc = "idle"

TypeOK ==
  /\ IndexTypeOK
  /\ view \in Views
  /\ current_read_id \in 0..current_write_id
  /\ current_write_id \in 0..MaxId
  /\ claimed \in [1..current_write_id -> Records]
  /\ DOMAIN records \subseteq 0..(current_write_id - 1)
  /\ DOMAIN lists \subseteq live
  /\ \A r \in Readers : /\ q[r].list \in live \cup {Null}
                        /\ q[r].max_rid \in 0..current_read_id
                        /\ q[r].results \subseteq 0..MaxId \cup Garbage

\* A published id is on the one list that at() finds for its key, once, however
\* many threads raced to create the tiers and the list: add_entry pushes on the
\* winner's list.
PublishedListed ==
  \A id \in 0..(current_read_id - 1) :
    view = "token" \/ claimed[id + 1].hit =>
      LET l == at(KeyPath(claimed[id + 1].tok))
      IN  Cardinality({j \in 1..Size(l) : Entries(l)[j] = id}) = 1

\* A query that returns misses no record that was published when it started:
\* the iterators of filter_pkts and complex_character_lookup pass every such
\* entry, whatever is inserted meanwhile.
QueryComplete ==
  [][\A r \in Readers :
       Returns(r) /\ q[r].pc # "count" =>
         \A c \in Range(q[r].asked) : Matching(c, q[r].max_rid) \subseteq q[r].results]_vars

\* What operator* is about to insert in the results.
Found(r) == {v \in Read(q[r].list, q[r].idx) : q[r].pc = "deref"}

\* The only ways into the results for an id that is not below max_rid or does
\* not satisfy the clause: as the element the constructor arrives at, which
\* operator++ never looked at, or through an entry read before it was set.
GapsKnown ==
  \A r \in Readers :
    \/ q[r].first \/ q[r].hole \/ IsHole(q[r].list, q[r].idx)
    \/ \A v \in Found(r) : v \in Matching(Clause(r), q[r].max_rid)

\* Range filters that end before the largest key.
Proper(r) ==
  \A c \in Range(q[r].asked) : c.lo <= c.hi /\ ~OutOfTable(Path(c.hi + 1))

\* With no insertion under way, no query_character under way and no empty list
\* left behind, a query faults nowhere and finds only what it asks for; the first
\* element of a clause with a packet filter alone has not been filtered.
QuietExact ==
  \A r \in Readers :
    q[r].quiet /\ Proper(r) =>
      /\ q[r].pc # "crash"
      /\ \A v \in Found(r) :
           v \in Matching(Clause(r), q[r].max_rid) \/ (q[r].first /\ Clause(r).pf)

\* approx_pkt_count and query_character count at least the packets published
\* before they started and at most those claimed when they return.
CountsBetween ==
  [][\A r \in Readers :
       Returns(r) /\ q[r].pc = "count" =>
         LET c == q[r].asked[1]
         IN  /\ Cardinality(Matching(c, q[r].max_rid)) <= q[r].count
             /\ q[r].count <= Cardinality(Matching(c, current_write_id))]_vars

\* "Atomically filter record ids for a given range of token values", with
\* "max_rid Largest record-id to consider" (the comment on log_store::filter):
\* a query returns the records that were published when it started, no others.
FilterAtomic ==
  [][\A r \in Readers :
       Returns(r) /\ q[r].pc # "count" =>
         q[r].results = UNION {Matching(c, q[r].max_rid) : c \in Range(q[r].asked)}]_vars

=============================================================================
