----------------------------- MODULE Generator ------------------------------
(***************************************************************************)
(* Threads that make packets, or pace queries: packet_generator of pktgen  *)
(* with its token bucket, rate_limiter and pacer of the benchmarks, and    *)
(* the mempool they take their buffers from.  Where packets are sent is    *)
(* left to Pipeline.                                                       *)
(*                                                                         *)
(* A generator fills the same Burst buffers again and again.  Time is in   *)
(* abstract units; a rate is in packets per unit.                          *)
(***************************************************************************)
EXTENDS Integers, Sequences, FiniteSets, FiniteSetsExt, SequencesExt

CONSTANTS
  Gens,      \* generator threads
  Burst,     \* RTE_BURST_SIZE, BURST_SIZE
  Capacity,  \* TOKEN_BUCKET_CAPACITY
  PoolSize,  \* NUM_PFRAMES
  Second,    \* a tv_nsec that nanosleep refuses
  Span,      \* the 2000 ms for which bench_char_throughput runs
  MaxTime,   \* bound on the clock, which stands for every later time too
  MaxPkts    \* bound on the packets pktgen makes

ASSUME GeneratorAssumption ==
  /\ {Burst, Capacity, PoolSize, Second, Span, MaxPkts} \subseteq Nat \ {0} /\ MaxTime \in Nat
  /\ Burst < Capacity
  /\ IsFiniteSet(Gens)

VARIABLES
  clock,
  pool,     \* free buffers of the mempool
  data,     \* the packet in each buffer: its generator and its number there
  gen,      \* the generators: what they were made for, and their state
  exited,   \* the benchmark or pktgen called exit(-1), or crashed
  joined    \* the main thread has joined all the others

genVars == <<clock, pool, data, gen, exited, joined>>

Buffers == 1..PoolSize
NoPacket == [gen |-> "none", n |-> 0]

\* A job is what a generator is made for.  kind: packet_generator for "pktgen" and
\* "filter_bench", rate_limiter for "load_bench", pacer for "query"; "none" is no
\* thread.  batch and min_batch are those of the rate limiter or the pacer, 0 for
\* no pacing; `after' are the threads that finish first.
Jobs ==
  [kind : {"pktgen", "filter_bench", "load_bench", "query", "none"}, rate : Nat,
   time_limit : Nat, limit : Nat, batch : Nat, min_batch : Nat, after : SUBSET Gens]

Made(job) ==
  [job |-> job, pc |-> IF job.kind = "none" THEN "done" ELSE "new", limit |-> job.limit,
   bufs |-> <<>>, pos |-> 0, sent |-> 0, tokens |-> 0, fill |-> 0, born |-> 0, start |-> 0,
   epoch |-> 0, wake |-> 0]

GenInit(jobs) ==
  /\ clock = 0
  /\ pool = Buffers
  /\ data = [b \in Buffers |-> NoPacket]
  /\ gen = [g \in Gens |-> Made(jobs[g])]
  /\ exited = FALSE
  /\ joined = FALSE

At(g, pc) == ~exited /\ gen[g].pc = pc

Sends(g) == gen[g].job.kind \in {"pktgen", "filter_bench", "load_bench"}

-----------------------------------------------------------------------------
(* Construction                                                            *)

\* mbuf_alloc_bulk: all of them or none, and which of the free ones they are does not
\* matter.  Nothing ever gives buffers back.
mbuf_alloc_bulk(cnt) == SubSeq(SetToSeq(pool), 1, cnt)

\* The constructors of rand_generator or static_rand_generator, and of
\* packet_generator with its bucket or of rate_limiter.  The one of storage_bench
\* assigns pkt_data to itself: its threads are those of load_bench with the slice
\* that was meant.
Construct(g) ==
  /\ At(g, "new") /\ Sends(g)
  /\ \A h \in gen[g].job.after : gen[h].pc = "done"
  /\ IF Cardinality(pool) < Burst
       THEN exited' = TRUE /\ UNCHANGED <<pool, gen>>
       ELSE LET bs == mbuf_alloc_bulk(Burst)
            IN  /\ pool' = pool \ Range(bs)
                /\ gen' = [gen EXCEPT ![g].pc = "ready", ![g].bufs = bs, ![g].tokens = Capacity,
                                      ![g].fill = clock, ![g].born = clock]
                /\ UNCHANGED exited
  /\ UNCHANGED <<clock, data, joined>>

\* A thread of bench_char_throughput makes its pacer, whose first epoch begins with
\* it: batch_size * (2000 / batch_ms) queries; for batch_ms = 0, its default, the
\* process dies.
ConstructPacer(g) ==
  /\ At(g, "new") /\ ~Sends(g)
  /\ \A h \in gen[g].job.after : gen[h].pc = "done"
  /\ IF gen[g].job.min_batch = 0
       THEN exited' = TRUE /\ UNCHANGED gen
       ELSE /\ gen' = [gen EXCEPT ![g].pc = "ready", ![g].start = clock, ![g].epoch = clock,
                         ![g].limit = gen[g].job.batch * (Span \div gen[g].job.min_batch)]
            /\ UNCHANGED exited
  /\ UNCHANGED <<clock, pool, data, joined>>

\* The entry of generate(), which takes the time, or of the loop of queries, which
\* does not.
Begin(g) ==
  /\ At(g, "ready")
  /\ gen' = IF Sends(g)
              THEN [gen EXCEPT ![g].pc = "test", ![g].start = clock, ![g].epoch = clock]
              ELSE [gen EXCEPT ![g].pc = "test"]
  /\ UNCHANGED <<clock, pool, data, exited, joined>>

-----------------------------------------------------------------------------
(* The loops                                                               *)

\* Mutant: one more burst is sent when the limit is reached.
TestInclusive(g) ==
  /\ At(g, "test")
  /\ gen' = [gen EXCEPT ![g].pc = IF gen[g].sent <= gen[g].limit THEN "fill" ELSE "done"]
  /\ UNCHANGED <<clock, pool, data, exited, joined>>

\* The condition of the loop.
Test(g) ==
  LET r == gen[g]
  IN  /\ At(g, "test")
      /\ gen' = [gen EXCEPT ![g].pc =
                   IF (r.job.time_limit = 0 \/ clock - r.start < r.job.time_limit) /\ r.sent < r.limit
                     THEN "fill" ELSE "done"]
      /\ UNCHANGED <<clock, pool, data, exited, joined>>

\* The tokens there are now; given enough time, the bucket is full.
Available(r) ==
  IF clock = MaxTime THEN Capacity ELSE Min({Capacity, r.tokens + r.job.rate * (clock - r.fill)})

\* Mutant: last_fill_time_ is not updated.
consume_refilling(r) ==
  LET available == Available(r)
  IN  IF Burst < available
        THEN [ok |-> TRUE, r |-> [r EXCEPT !.tokens = available - Burst]]
        ELSE [ok |-> FALSE, r |-> [r EXCEPT !.tokens = available]]

\* token_bucket::consume(Burst): it must leave something.
consume(r) ==
  LET available == Available(r)
  IN  IF Burst < available
        THEN [ok |-> TRUE, r |-> [r EXCEPT !.tokens = available - Burst, !.fill = clock]]
        ELSE [ok |-> FALSE, r |-> [r EXCEPT !.tokens = available, !.fill = clock]]

\* generate_batch(Burst) writes the next packets into the buffers.
generate_batch(g) ==
  [b \in Buffers |-> IF \E i \in 1..Burst : gen[g].bufs[i] = b
                       THEN [gen |-> g, n |-> gen[g].pos + (CHOOSE i \in 1..Burst : gen[g].bufs[i] = b)]
                       ELSE data[b]]

\* The batch to send, if the bucket grants it.
Fill(g) ==
  LET c == IF gen[g].job.rate = 0 THEN [ok |-> TRUE, r |-> gen[g]] ELSE consume(gen[g])
  IN  /\ At(g, "fill") /\ Sends(g)
      /\ gen[g].job.kind = "pktgen" => gen[g].pos < MaxPkts
      /\ IF c.ok
           THEN /\ data' = generate_batch(g)
                /\ gen' = [gen EXCEPT ![g] = [c.r EXCEPT !.pc = "send", !.pos = gen[g].pos + Burst]]
           ELSE gen' = [gen EXCEPT ![g] = [c.r EXCEPT !.pc = "test"]] /\ UNCHANGED data
      /\ UNCHANGED <<clock, pool, exited, joined>>

\* What follows a send of n packets, or a query: at the end of a batch, pacing.
Sent(g, n) ==
  LET total == gen[g].sent + n
      paced == gen[g].job.min_batch > 0 /\ gen[g].job.batch > 0 /\ total % gen[g].job.batch = 0
  IN  [gen EXCEPT ![g].sent = total, ![g].pc = IF paced THEN "pace" ELSE "test"]

\* rate_limiter and pacer::pace: sleep for what the batch was too fast by.
\* nanosleep refuses a tv_nsec of a second or more, and tv_sec is always 0.
Pace(g) ==
  LET left == gen[g].job.min_batch - (clock - gen[g].epoch)
  IN  /\ At(g, "pace")
      /\ gen' = IF left > 0 /\ left < Second
                  THEN [gen EXCEPT ![g].pc = "sleep", ![g].wake = clock + left]
                  ELSE [gen EXCEPT ![g].pc = "test", ![g].epoch = clock]
      /\ UNCHANGED <<clock, pool, data, exited, joined>>

\* Mutant: the epoch is not renewed after the sleep, only when there was none.
WakeKeepingEpoch(g) ==
  /\ At(g, "sleep") /\ (clock >= gen[g].wake \/ clock = MaxTime)
  /\ gen' = [gen EXCEPT ![g].pc = "test"]
  /\ UNCHANGED <<clock, pool, data, exited, joined>>

\* nanosleep returns, and a new epoch begins.
Wake(g) ==
  /\ At(g, "sleep") /\ (clock >= gen[g].wake \/ clock = MaxTime)
  /\ gen' = [gen EXCEPT ![g].pc = "test", ![g].epoch = clock]
  /\ UNCHANGED <<clock, pool, data, exited, joined>>

\* The main thread joins the workers and the thread that samples the CPU until
\* `done' counts them all.
Join ==
  /\ ~exited /\ ~joined
  /\ \A g \in Gens : gen[g].pc = "done"
  /\ joined' = TRUE
  /\ UNCHANGED <<clock, pool, data, gen, exited>>

\* Time passes while some generator looks at it.
Tick ==
  /\ clock < MaxTime
  /\ \E g \in Gens : gen[g].pc # "done" /\ (gen[g].job.rate > 0 \/ gen[g].job.time_limit > 0
                                            \/ gen[g].job.min_batch > 0)
  /\ clock' = clock + 1
  /\ UNCHANGED <<pool, data, gen, exited, joined>>

GenStep(g) ==
  \/ Construct(g) \/ ConstructPacer(g) \/ Begin(g) \/ Test(g) \/ Fill(g) \/ Pace(g) \/ Wake(g)

=============================================================================
