# NetPlay in TLA+

NetPlay captures packets from DPDK ports and keeps them in an in-memory store
that many writer threads fill and that queries read at the same time, all
without locks. These modules model the store and the log structures below it
access by access, the queries on it, the way from a filter expression to a
query, and the way of a packet from a generator through a switch's ring and a
daemon into the store. TLC checks them on small instances, and TLAPS proves the
safety claims of the packet store, of the log store, of the monologs, of the
queries on an index that grows, and of the generators and daemons, for every
number of threads, every packet or record length, every block size, every query
plan and every job.

## The system

| part | state | operations | who uses it |
|---|---|---|---|
| linear logs (`monolog.h`, `datalog.h`) | table of fixed-size buckets with spare cells | `ensure_alloc`, `set`, `set_unsafe`, `write`, `ptr`, `get`, `read` | data log, offset log |
| monologs (`monolog.h`, `entrylist.h`) | table of doubling buckets; `tail_`, or `write_tail_` and `read_tail_` | `push_back`, `push_back_range`, `at`, `size` | index lists, streams, tables of indexes |
| offset log (`offsetlog.h`) | `current_write_id_`, `current_read_id_`, `offlens_` | `start`, `request_id_block`, `set`, `set_without_alloc`, `end`, `lookup`, `is_valid`, `num_ids` | log store, packet store |
| log store (`logstore.h`, `streamlog.h`) | data log and `dtail_`, offset log, indexes, streams, handles | `insert`, `handle::insert`, `get`, `extract`, `add_index`, `add_stream`, `filter` | packet store (its base class) |
| tiered index (`tieredindex.h`) | tree of lazily created tables ending in entry lists | `get`, `at`, `add_entry` | log store, packet store |
| packet store, ingest (`packetstore.h`, `netplay_writer.h`) | the log store, `num_filters_`, `filters_`, `char_idx_` | `insert_pktburst`, `add_complex_character`, the polling loop | daemon, benchmarks |
| packet store, queries (`filterresult.h`, `packet_filter.h`, `complex_character_index.h`) | iterators over lists that grow meanwhile | `filter_pkts`, `execute_cast`, `complex_character_lookup`, `query_character` | casts, benchmarks |
| planner (`query_planner.h`, `netplay_utils.h`, builders) | the builder's expression; else pure, but for `std::time` and approximate counts | `plan`, `reduce_clause`, `build_*` | casts, characters |
| parser (`query_parser.h`, `expression.h`) | position in the text | `parse`, `negate` | benchmarks |
| daemon (`netplayd.cc`, `netplayd.h`) | pid file and its lock, options, ports, threads | start-up, writers, monitoring | operators |
| ports (`dpdk/`) | rings, mempool | initialization, `send_pkts`, `recv_pkts`, bulk allocation | writers, generator |
| generator (`pktgen/`), benchmarks (`bench/`) | token bucket, limits, buffers, batches | `consume`, `generate`, `pace`, loading and query threads | operators |

The writers share one packet store. A burst of packets goes through one call of
`insert_pktburst`: claim ids (`fetch_add` on `current_write_id_`), claim bytes
(`fetch_add` on `dtail_`), push the ids on the lists of the time stamp and of
each header field, write each packet and its offset, test it against every
complex character, and publish the burst by a compare-and-swap that moves
`current_read_id_` from the burst's first id to its last, waiting for all
earlier bursts. Readers take `num_ids()` once and ignore larger ids.

What is hard: the order of claims and of publications differs; regions of the
data log are exclusive only by arithmetic; buckets and lists are created by
whoever needs them first; list entries are visible before they are set;
complex characters are added while bursts are in flight; `end()` waits for
other threads. `PROJECT.json` lists these hazards at their lines.

Readers walk lists that are created, extended and filled in while they walk. The
planner turns an expression into ranges with arithmetic that wraps at its edges.
Generators refill buffers whose pointers are still under way, and daemons may
end at any point of their start and be replaced by others.

Correct means, part by part: a published id leads to its packet and is in its
lists, once (packet store); no bytes are written by two threads (data log);
every claimed id is published (offset log); a pushed entry is never lost and
nothing leaks (monologs, tiered index); a record is returned as inserted (log
store); a query misses nothing that was published when it started (iterators); a
plan selects what the expression says (planner); the parser accepts its grammar
(parser); rates, limits and slices are kept and packets are neither lost nor
doubled unseen (generator, ports, daemon); one daemon owns the pid file.

## Modules

| module | models |
|---|---|
| `LinearLog` | addresses in `__monolog_linear_base`: `<<bucket, cell>>`, the run of cells of a copy, the buckets of a range |
| `LinearLogProofs` | runs over disjoint offsets share no cell |
| `PacketStore` | the ingest path: one step per shared access of `insert_pktburst`, the polling loop, `add_complex_character`, the clock |
| `PublishedLog` | the abstract specification: a total order of records of which readers see a growing prefix |
| `PacketStoreRefinement` | `PacketStore` implements `PublishedLog` |
| `PacketStoreInvariant` | the inductive invariant of the proofs |
| `PacketStoreIndex` | the inductive invariant of the lists: who holds which entry, which lists each id is on |
| `SetInduction` | induction over an interval of numbers from the smallest counterexample, and what follows of finite sums |
| `PacketStoreProofs`, `PacketStoreIndexProofs` | the theorems about `PacketStore` |
| `EntryList` | the abstract list: places are handed out once and set once |
| `Monolog` | `monolog_relaxed` and `monolog_linearizable`: appends that race for buckets; implements `EntryList` |
| `MonologInvariant`, `MonologProofs` | its inductive invariant and the theorems about it |
| `LogStore` | `log_store::insert`, `handle::insert`, `get`, `extract`, indexes and streams |
| `LogStoreInvariant`, `LogStoreProofs` | its inductive invariant and the theorems about it |
| `TieredIndex` | the tiers of an index: keys split into slots, `get()` with its race for each slot, `at()` |
| `Query` | the iterators of `filter_pkts` and `complex_character_lookup`, and the counts, on a `TieredIndex` that insertions extend |
| `QueryProofs` | the inductive invariant of index, insertions and queries, and the theorems about them |
| `QueryParser` | the lexer's tokens, the recursive descent parser, `negate`, `free_expression`, and the grammar as a reference |
| `QueryPlanner` | predicates to ranges, `reduce_clause`, `plan`, `build_filter_list`, packet filters and the two builders |
| `Generator` | `packet_generator` with its token bucket, `rate_limiter`, `pacer`, the mempool's buffers |
| `Daemon` | `netplayd`: options, pid file, ports, writers, the end of a process |
| `Pipeline` | `Generator` and `Daemon` composed through the switch's ring and the stores |
| `PipelineProofs` | the inductive invariant of generators, daemons, ring and stores, and the theorems about them |
| `MC...` | instances for TLC |

How they fit together. `PacketStore` and `LogStore` share `LinearLog` and treat
each list as the `EntryList` that `Monolog` implements: a push is the
reservation of entries and then the setting of each. `PacketStore` has no
variable for a reader: what a reader finds is the state function `Record(id)`
(offset log, then data log), and the lists. `Query` adds the readers: it keeps
of an insertion what the index, the records and the ids show, in the order of
`PacketStore`, and adds the tiers that `PacketStore` leaves out. `QueryPlanner`
extends `QueryParser` and ends where `Query` begins, with a plan; executing it is
the set of packets that `filter_pkts` inserts into its result while no packet
arrives, the unfiltered first element of each clause included. `Pipeline` keeps of a store its claims, copies and
publications, as `PublishedLog` has them.

Names are those of the source without trailing underscores; `pc` names the
access a thread makes next. History variables and fields (`accepted`, `known`,
`inserted`, `owner`, `overrun`, `pushed`, `place` of an entry, `claimed` of
`Query`, `asked`, `quiet`, `hole`, `built`, `born`, `lost`) record what was asked
for or what happened and are read by properties only.

Abstractions. A packet is a record of its header fields and length; its bytes
are symbolic (`<<"pkt", p, j>>`). In `PacketStore` a filter list is the set of
packets one of its filters matches. Allocation of a bucket of the linear logs is
one step (the race for it is that of `Monolog`). All indexing options of the
build are on, which is their default. Memory is sequentially consistent: the
code uses release `fetch_add` and release/acquire compare-and-swap, and weaker
orders of plain stores are not modelled. Counters are unbounded numbers; 64-bit
ids do not wrap. The widths of addresses, ports, times and tokens in the planner
are parameters, and its arithmetic wraps at them. A packet's fields are numbers
compared as they stand in memory: the benchmarks write them in host order, and
packets in network order would be indexed and filtered by other numbers than those
of the expressions, which the code does not convert. Whatever
`rte_eth_rx_burst` and `rte_eth_tx_burst` move, they move in one step, also for
writers that share a port (`Recv`): DPDK gives that for rings with several consumers,
and a port whose ring is made for one consumer must not be shared.

Undefined reads are choices. An entry of a list that is reserved and not set
reads as any value of `Garbage`; an entry without memory, a null list and a slot
past a table are faults, which end the process (`Crash` in `Query`); the offset
of a record that is not written makes a packet filter pass, fail or fault.

## Runs

| run | instance | checks |
|---|---|---|
| `store` | 2 writers, 2 kinds of packets, bursts of 0 to 2, 3 ids, blocks of 4 cells | `PublishedReadable`, `PublishedIndexed`, `IndexSound`, `ExclusiveRegions`, `AllocatedBeforeUse`, `WithinBuckets`, `ReadersSeeLog` |
| `publishing` | 2 fair writers, bursts of 1 or 2, 2 ids, 1 adder of a character, 1 tick | `TypeOK`, `StoreInv`, `CharactersComplete`, `AllPublished` |
| `polling` | 2 fair writers, bursts of 0 or 1, 1 id | `KeepsPolling` fails |
| `monolog` | 3 threads, ranges of 0 to 2, buckets of 1 and 2 entries, both kinds of log | `EntriesKept`, `NoLeak`, `TailsAgree`, `ImplementsEntryList` |
| `linearizable` | 2 threads | `ReadsCompletedWrites` fails |
| `logstore` | 1 inserter, 1 handle (2 ids, 3 bytes a block), 4 records, 1 stream | `TypeOK`, `PublishedGettable`, `PublishedListed`, `InsertReturns` |
| `handle` | the same, 3 records | `ExclusiveRegion` fails |
| `query` | 2 writers, 1 reader, 2 ids, indexes of 1, 2 and 4 tiers and the character index, 3 plans | `TypeOK`, `NoNodeLeaks`, `PublishedListed`, `GapsKnown`, `QuietExact`, `QueryComplete`, `CountsBetween` |
| `bounded` | the same with 1 id | `FilterAtomic` fails |
| `planner` | all sequences of up to 5 lexemes, 9 plain and 12 awkward predicates in conjunctions and disjunctions, nested negations; 108 stored packets | `ParsesGrammar`, `NodesFreed`, `PlanProper`, `PlanSelects`, `CharacterSelects` |
| `prefix` | one predicate with prefixes of 0 to 4 of 4 bits | `PrefixNotation` fails |
| `pipeline` | 14 scenarios of 3 generators and 2 daemons, bursts of 2, a pool of 5 buffers, a ring of 3, a bucket of 3 | `RateKept`, `WithinSlice`, `Paced`, `StoredAsSent`, `Conserved`, `PidfileNames`, `PolledReady`, `BenchEnds`, `Drained` |

What they say.

- Ingest. Published packets are readable as they came, are in each of their
  lists once and nowhere else; regions are exclusive and allocated before use;
  characters miss no packet polled after they were added.
- Queries. `QueryComplete`: a query that returns has every matching record that
  was published when it started. Wrong ids get in only as the first element of a
  clause or through an entry read before it was set (`GapsKnown`). With no
  insertion under way, no `query_character` under way and no empty list left
  behind there is no fault and only the first element of a filtered clause can be
  wrong (`QuietExact`): that count calls `get()`, and a lookup beside it would walk
  into the empty list it has just created, with no writer at work.
  `CountsBetween` bounds the approximate counts by published and claimed
  packets, and `NoNodeLeaks` with `PublishedListed` is what the race for slots in
  `indexlet::get` must keep.
- Records. `PublishedGettable`: `get` and `extract` accept every published id and
  return its record, `extract` from any offset that lies in the record's bucket and
  in any length. `is_valid` compares with the ids claimed, not with those
  published; the property says how far this may go: an id that is accepted is
  published, or held by an insert or by a handle. For the latter nothing is said of
  the bytes.
- Planning. `PlanSelects` compares what a plan selects with the meaning of the
  expression for every choice of the index to search, since the counts it is made
  by may be anything. No packet that satisfies the expression is missed. A packet
  that does not is selected in two cases only: it is the first of the range of a
  clause with a packet filter, as `packet_filter_iterator` applies its filter in
  `operator++` and not to the element it begins with; or it has no ports, and then
  the packet filters do not test it against predicates on ports. The property
  excepts what the code gives another meaning (`Plain`): `!=` and `!in`, prefixes
  other than half the address, `<` of zero and values out of range. `PlanProper`
  says that a range is empty only for a lone predicate, with a plain value only if
  nothing stored satisfies it; what the iterators would then dereference is left
  out of `PlanSelects`. `ParsesGrammar` covers all inputs, those included that end
  in `!`, `<` or `>`, which are taken for the input without it.
- Pipeline. A generator of the benchmarks stores its packets in order, each once
  and as made, within its slice if bursts divide it. pktgen refills buffers that
  are under way: what a daemon stores is the packet sent or a later one of the
  same buffer (`StoredAsSent`). What pktgen counts as sent is in the ring, with a
  writer, stored, or lost with a process (`Conserved`). A benchmark ends (`BenchEnds`): its
  threads are joined, or, if its generators need more buffers than the pool has or
  its pacer would divide by zero, the process exits before that and does not hang.

Why the bounds suffice. Two writers are enough for every race between claims,
writes and publications; three ids let one writer publish twice around the
other's burst. A block of 4 cells with packets of 2 and 3 bytes (stamp included)
makes packets start in every cell of a block, cross its end and need the next
bucket; id blocks of 2 make bursts cross them too. In `monolog` a range crosses
from the first bucket to the second while two other threads race for the latter.
In `logstore` the handle can exhaust its id block and run past its data block.
In `query` both writers may create the same tiers and list, and the second entry
of a list needs a bucket of its own, so that a reader meets null slots, empty
lists, unset entries and missing memory; the plans cover a range to the largest
key, an empty range and a filtered clause. In `planner` the widths (4 bits of
address, 2 of port) let every bound be hit and wrapped. In `pipeline` the bursts
do not divide all of the limits, the ring cannot take two bursts, and the pool
has two bursts and a buffer over, so that two generators get theirs and a third
finds it exhausted. `WithinBuckets` relies on packets no
longer than the spare cells (`BufferSize`), as the code does.

The clock of `Generator` is saturating: at `MaxTime` it stands for every later
time, when buckets are full and sleeps are over; it ticks only while a generator
looks at it. `MaxPkts` bounds what pktgen makes, and `MaxExits` the processes
that end.

Symmetry under permutation of the threads is used only in runs without
liveness. Deadlock is checked except where the bounds or the system end a run
(`publishing`, `logstore`, `handle`: threads run out of ids or records; `query`,
`bounded`: ids run out or the process faults; `planner`, `prefix`: a builder is
destroyed; `pipeline`: a benchmark is over).

Fairness. `PacketStore!FairSpec` and `LogStore!FairSpec` assume weak fairness of
each thread that is inside an insert: writers are pinned to cores of their own
and their loops have no blocking call. A retried compare-and-swap is enabled
only when it can succeed, which is sound for weak fairness because a thread
waiting in `end()` is the only one that can move `current_read_id_` from its
start id. No fairness is assumed of polls that return packets, of adders or of
new calls of `insert`. `Pipeline!FairSpec` assumes that generators and writers
that can take a step do so eventually and that time passes; nothing is assumed
of how fast a daemon starts or of whether one is started at all. `Drained`
therefore speaks of writers that run, and excepts those stuck as `polling` shows.

## What the runs found

Five runs show where the code does not do what its comments say.

- `polling`: an empty poll is inserted too. Its `end(start_id, 0)` waits for
  `current_read_id_ = start_id`; if another writer with the same start id
  publishes first, that value never returns and the writer spins for ever.
- `linearizable`: `push_back` uses `idx` as the expected value of its
  compare-and-swap and so overwrites it when it fails. The next attempt publishes
  whatever is next, possibly an entry not written yet; the index returned (the
  id that `add_index` and `add_stream` hand out) may be another thread's too.
  What remains true is `TailsAgree` and `EntriesKept`.
- `handle`: `remaining_bytes_` is never decreased, so that a handle leaves its
  block once the block is used up. `PublishedGettable` holds up to that point.
- `bounded`: the constructor of an iterator goes to its first element without
  comparing it with `max_rid`, so that a packet inserted after the query started
  may be returned.
- `prefix`: the upper bound of an address range sets as many low bits as the
  prefix is long; it is right for /16 only.

Other places where the code promises less than one may think are listed as
hazards with a note: `get` accepts ids that are claimed and not written,
`extract` from an offset past the end of the bucket its record starts in reads
the next bucket, `handle::insert` returns the id after the record's and not, as
its comment says, the record's, a clause's first packet is not filtered, a parse that throws leaks its nodes, an input that ends in `!`, `<` or
`>` is read as if it ended before, a batch of a second or more is not paced.

## Proofs

Each theorem holds for every value of the constants that satisfies the named
assumptions. None of the properties is inductive; the invariants that are were
first checked with TLC on the constants of the runs, then proved, one lemma per
part and one step per action.

### The packet store

Assumptions: positive time stamp and block sizes, packets with natural lengths.

- `TypeCorrect`: the type invariant, with the control and id parts below;
- `StoreCorrect`: `Spec => []StoreInv`;
- `PublishedReadableHolds`, `AllocatedBeforeUseHolds`, `ExclusiveRegionsHolds`:
  the invariants of the same names;
- `WithinBucketsHolds`: `WithinBuckets`, if `PacketsFit`: a packet and its time
  stamp fit the extra cells of a bucket. The code has that room
  (`BUFFER_SIZE` = 1024) and never compares a length with it; without
  `PacketsFit` the property is false;
- `Refinement`: `Spec => ReadersSeeLog`, the implementation of `PublishedLog`;
- `IndexCorrect`: `Spec => []TypedIndexInv`, and from it `IndexSoundHolds`,
  `PublishedIndexedHolds`, `CharactersCompleteHolds`.

`StoreInv` adds who holds what: `IdInv` (the ids of the writers are disjoint,
claimed, unpublished and recorded), `ControlInv` (the program counter agrees with
the packets appended), `ByteInv` (what a writer has still to write is an interval
below `dtail`, disjoint from the others'), `StoredInv` (a stored packet is whole
and lies outside all these intervals), `PointerInv` (every offset set is that of
a packet stored or about to be), `BucketInv` and `BoundInv`. The step from
disjoint byte intervals to disjoint physical cells is `RunsApart`: a run stays
in the bucket of its first cell, so two runs meet only if their offsets lie in
one block, where cells and offsets differ by a constant. `Layout`, the running
sum of packet sizes, is a recursive function; what the proofs need of it
(existence, monotonicity) is shown with the interval induction of `SetInduction`.

`IndexInv` does the same for the lists. A published packet is on its lists
because, while its burst was inserted, it came on them one by one, and nothing
took it off: `HeldListed` says exactly which lists packet `m` of a burst is on at
each point of the loops (`ListedIn`), and needs `LoopInv` for what the loop
variables mean there. Nothing takes it off because a push writes only entries it
has reserved, which are unset and reserved by no other push (`FillInv`); it comes
on a list once because it was not on it before (`HeldListed` again) and because
no other burst pushes its ids (`IdInv`), which gives `UniqueInv`. For the
characters, `KnownInv` says that those a burst knew when it was polled have their
filters for good and lie below the `num_filters` it loads later, `Matched` that
the match found before a push still holds in it, and `HeldChars` which characters
each packet has been tried against. When the burst is published, `HeldListed` and
`HeldChars` become `PublishedOn` and `CharactersComplete`.

### Monologs

Assumptions: `ThreadAssumption` (threads are a finite set), `NullAssumption` (the
null pointer is not an array), `RoomAssumption` (the table has room for the
entries pushed; the code does not check it, see the hazard at `monolog.h:248`).

- `MonologCorrect`: `Spec => []MonologInv`, and from it `MonologTypeCorrect`,
  `EntriesKeptCorrect`, `NoLeakCorrect`, `TailsAgreeCorrect`;
- `MonologRefinement`: `Spec => ImplementsEntryList`.

`MonologInv` adds `CallInv` (the places of a call are below the tail, in the
history, and disjoint from those of other calls), `TableInv` (an array is only
ever in the table entry it was allocated for; the one a thread has just allocated
is not in the table) and `CellInv` (only cells of entries that are set have been
written). That entry `x` has its own cell rests on arithmetic of the table:
`BucketIdx` is the position of the highest bit of `x + 16`, `BucketOff` the rest,
and the pair determines `x`. `TailsAgree` is a sum over all threads: a step
changes one thread's summand and one tail by the same amount. In the refinement a
reservation maps to EntryList's, a store to its setting of one unset place, and
the race for a bucket and the publication to stutters.

### The log store

Assumptions: positive blocks of ids and block sizes, blocks of bytes of any size
(`BlockAssumption`), records no longer than a `len_t` can say
(`RecordAssumption`: `record_len` is 16 bits wide), threads that insert in one of
the two ways (`ThreadAssumption`), and uninitialised memory that looks like no id
and no offset (`UnsetAssumption`).

- `LogStoreCorrect`: `Spec => []LogStoreInv`, and from it `LogStoreTypeCorrect`
  and `PublishedListedHolds`;
- `PublishedGettableHolds`: `PublishedGettable`, what `get` and `extract` accept and
  return, which speaks of the time before an insert writes outside its own bytes.
  That a handle does so sooner or later is what the run `handle` shows; types, ids
  and lists stay right even then.

`LogStoreInv` is about what a thread holds. `IdInv`: the id of an insert and the
rest of a handle's block of ids are disjoint from those of all other threads and
not published, so that what an id stands for never changes. `HeldInv`: every id
claimed and not published is among these, because a handle asks for a block only
when it has none left and an insert lets go of its id only by publishing it; with
it, an id that nobody holds is refused. `PushInv`: the entry
a push has reserved is unset and nobody else's. `ListedInv`: an insert's id is on
the lists of the tokens and streams it is done with, on no other stream, and an
id that stands for nothing is on no list; `end()` turns this into
`PublishedListed`. `OffsetInv`: offset and length are set exactly by the inserts
that are past that point, which is early in `log_store::insert` and last in
`handle::insert`. `StoredInv`, for the bytes: each thread has a `Front` before
which it writes no more, in a handle the next byte of its block, and a record
that is written lies in the bytes of one thread, before its `Front`. Another
append then either belongs to another thread, and meets none of these bytes by
`Owns`, or to the same, and starts behind them; disjoint bytes are disjoint cells
by `RunsApart`, which the packet store uses too.

### The tiered index and the queries

Assumptions: tiers and tokens of positive sizes (`LengthAssumption`,
`WidthAssumption`), threads that are writers or readers and not both
(`ThreadAssumption`), a null pointer that is no node (`NullNode`), records of a
key and a verdict of the filter (`RecordAssumption`), uninitialised memory that
holds numbers and an unset entry that is none (`UnsetEntry`), and plans of at
least one clause whose ranges are proper or just empty (`PlanAssumption`). A
conjunction gives only proper ranges (`PlanProper`); a lone predicate may give an
empty one, and one on a time yet to come a range that ends before the key before
its first, which the assumption leaves out: its iterator starts behind its end
and never meets it. Nothing is assumed of the number of threads, records, clauses
and keys, or of the shape of the index.

- `QueriesCorrect`: `Spec => []Inv`, and from it `TypeOKHolds`,
  `NoNodeLeaksHolds`, `PublishedListedHolds`, `GapsKnownHolds`,
  `QuietExactHolds`;
- `QueryCompleteHolds` and `CountsBetweenHolds`, of the step in which a query
  returns.

`Inv` has three parts. `IndexInv`: a node is named by the slots that lead to it
and the threads that installed them, every slot that is taken holds a node made
for that slot (`SlotInv`), and the item a thread has allocated and not yet
installed hangs nowhere (`WalkOf`); `live` is what is reachable and these items,
which is `NoNodeLeaks`. As a slot, once taken, stays as it is, and `Path` is
injective on the keys of the index (`KeyFacts`), a node whose slots spell the key
is the one `at()` finds: losers of a race go on from the winner's node.

`StoreInv`: a writer is on the way to the list of its key (`WriterWalk`), the
entries of a list that are set are ids of that key, published or pushed
(`EntryInv`), no id is in two places (`OnceInv`), each unset entry is one
writer's to set (`PushInv`), and an id is on its list from its push on (`OnInv`).
`end()` makes the last of these `PublishedListed`.

`QueryInv` says of each query where its iterator is and what it must have by
then. `KeyOf`: it is on the list of its key, or there was none when it looked,
and then none of the ids it must find has this key, because those are published
and so listed. `FoundOf`: what it must find of the keys before (`Behind`) is in
the results, and of this list what stands before its entry (`Passed`). An entry
it must find is set, as it was published before the query began, and set entries
never change, so that reading it later than the check gives the same id
(`SeenOf`). `QuietOf` adds, while nothing changes the index, that every list met
has an entry and that none is unset. `CountOf` bounds a count from both sides by
cardinalities of ids whose keys it has passed; `ListedAtLeast` and `ListedAtMost`
give one list's share, with injections between its entries and the ids of its
key. The steps of the other threads cannot disturb these facts because lists only
grow at their ends and published ids keep their records (`Steady`).

### The pipeline

Assumptions: `GeneratorAssumption` (positive sizes, finitely many generators, a
burst smaller than the bucket's capacity, as `RTE_BURST_SIZE` = 32 and
`TOKEN_BUCKET_CAPACITY` are), `DaemonAssumption` (finitely many daemons, whose
names are neither an absent nor an empty pid file, and cores that are numbers),
`PipelineAssumption` (jobs are jobs, generators are not writers) and
`BatchAssumption` (only `rate_limiter` and `pacer` pace, and the batches of
`rate_limiter` are whole bursts: 65536 and 32 in `rate_limiter.h`). `MaxTime`,
`MaxPkts` and `MaxExits` are any numbers: they stay in the theorems as bounds of
the model, and the theorems hold for each.

- `PipeInductive`: `Spec => []PipeInv`, and from it `RateKeptHolds`,
  `WithinSliceHolds`, `PacedHolds`, `StoredAsSentHolds`, `PidfileNamesHolds`,
  `PolledReadyHolds`;
- `ConservedHolds`: `Conserved`, with `AccountInv` beside `PipeInv`.

`DaemonInv`: between `flock()` and the end a process has the lock (`PidOf`). It has
written its pid while it had the lock, and nobody truncates or writes without
it, so the file names it; `OpenPidfile` does not truncate, which is what makes this
inductive. `PortOf`: writers are started by `start()` alone, each when its port
has made all its calls, and a port that is complete is not opened again.

`GenInv`: `RateOf` bounds what a bucket has let through *and* what is left in it by
its capacity and what flowed in up to its last refill; the second summand is what
`RateKept` leaves out, and `Burst < Capacity` is why the comparison is strict.
`SliceOf` says that the loops send while less than the limit is sent, and that a
benchmark's bursts are sent whole, so that its numbers are multiples of `Burst`.
`PaceOf` counts batches, with one less while a thread sleeps for the last.

`BufferInv` and `DataInv`: a buffer is one generator's, once, and holds the latest
packet made for its position, since nothing gives buffers back. `RingInv` and
`ActInv` follow a pointer from there: `Points` says that its buffer holds the packet
it was sent for or a later one of the same position, a property every refill
keeps, as it adds `Burst` to the number. The places of an insert stay its own
(`PlacesOf`), so that a copy leaves a packet of which this is still true (`Later`).
`BenchInv`: a benchmark's generator waits for its insert to end before it refills,
so the packets copied are those made, and the store has its first `n` packets
in order (`InOrder`, by the cardinality of the places up to each).

`Conserved` is an equation of sums over all generators, writers and daemons, and
inductive once `lost` is known to be a number. Each step moves the same number
of packets from one sum to another: `send_pkts` adds to the ring what it counts as
sent, `recv_pkts` takes from the ring what the writer holds, `request_id_block`
makes of these places in a store, and the end of a process adds its store and what
all its writers hold to `lost`. `SetInduction` has what this needs of sums: they are
determined by their equations, change with one summand (`TotalUpdate`), and lose a
row when all summands of one process become zero (`TotalRow`).

### Only model-checked

Liveness is out of the prover's reach: `AllPublished`, `InsertReturns`, `BenchEnds`
and `Drained` are TLC's. So is what recursive operators compute: `QueryParser` is
written with them, as the parser is recursive, and so it and `QueryPlanner`
(`ParsesGrammar`, `NodesFreed`, `PlanProper`, `PlanSelects`, `CharacterSelects`) are
for TLC only.

## Not modelled

- Physical ports (`pmd_init.h`), the arguments of the EAL and the listing of
  ports (`dpdk_utils.h`): configuration of a library with no state of NetPlay's.
- Range set and get of the monologs, `__atomic_monolog_base`, `sweep_list`,
  `path_check` and the integer accessors of `packet_attributes.h`: nothing in the
  system calls them, or they are accessors of a packet's bytes.
- Storage statistics, the aggregates other than the count, log and usage output,
  CPU measurements, the random numbers of the benchmarks, their latency loops and
  the throughput loop of the casts: measurements that change nothing.
- The characters of a token, and addresses as text.
- `3rdparty` and the build files.
- Undefined behaviour that no model of the values can narrow: the uninitialised
  `pkt_data` of `storage_bench`, the 65537th character, a list of 2^28 ids.

## What could follow

1. `Query` as it is refined by the whole insertion of `PacketStore`, so that its
   theorems speak of that module's lists.
2. `Pipeline`'s stores as instances of `PublishedLog`, which the proofs of
   `PacketStore` already lead to.
