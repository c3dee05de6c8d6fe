------------------------------ MODULE Pipeline ------------------------------
(***************************************************************************)
(* Packets on their way into packet stores.  A benchmark's generators hand *)
(* their buffers to insert_pktburst themselves (bench_vport.h).  pktgen    *)
(* sends pointers to its buffers through a ring of the virtual switch, and *)
(* the writers of netplayd poll the ring and insert what they find.        *)
(*                                                                         *)
(* A store is what PublishedLog makes of it, with the steps of an insert:  *)
(* places are claimed, packets copied one by one, places published in      *)
(* order.  PacketStore has the code of these steps.                        *)
(***************************************************************************)
EXTENDS Generator, Daemon

CONSTANTS
  Bench,      \* the store of a benchmark
  RingSize,   \* slots of the switch's ring
  Scenarios   \* what is started: the jobs of the generators, the arguments of the daemons

ASSUME PipelineAssumption ==
  /\ RingSize \in Nat /\ Bench \notin Daemons /\ Gens \cap (Daemons \X Cores) = {}
  /\ \A s \in Scenarios : s.jobs \in [Gens -> Jobs] /\ DOMAIN s.args = Daemons

\* Only rate_limiter and pacer pace, and BATCH_SIZE is a multiple of BURST_SIZE.
ASSUME BatchAssumption ==
  \A s \in Scenarios : \A g \in Gens :
    /\ s.jobs[g].kind \in {"pktgen", "filter_bench", "none"} => s.jobs[g].min_batch = 0
    /\ s.jobs[g].kind = "load_bench" => s.jobs[g].batch % Burst = 0

VARIABLES
  ring,       \* the ring: buffers, each with the packet it was sent for
  claimed,    \* places of each store: the packet claimed for, and the one copied
  published,  \* current_read_id_ of each store
  act,        \* the insert each thread is in
  lost        \* packets that were lost with a process

vars == <<genVars, daemonVars, ring, claimed, published, act, lost>>

storeVars == <<claimed, published>>
Stores == Daemons \cup {Bench}
Writers == Daemons \X Cores
Threads == Gens \cup Writers
StoreOf(t) == IF t \in Gens THEN Bench ELSE t[1]

Idle == [pc |-> "idle", pkts |-> <<>>, first |-> 0, next |-> 0]

Init ==
  /\ \E s \in Scenarios : GenInit(s.jobs) /\ DaemonInit(s.args)
  /\ ring = <<>>
  /\ claimed = [s \in Stores |-> <<>>]
  /\ published = [s \in Stores |-> 0]
  /\ act = [t \in Threads |-> Idle]
  /\ lost = 0

-----------------------------------------------------------------------------
(* Sending and polling                                                     *)

\* The pointers to a generator's first n buffers.
Pointers(g, n) == [i \in 1..n |-> [buf |-> gen[g].bufs[i], pkt |-> data[gen[g].bufs[i]]]]

\* pktstore_vport::send_pkts inserts the burst.
SendBench(g) ==
  /\ At(g, "send") /\ gen[g].job.kind \in {"filter_bench", "load_bench"}
  /\ gen' = [gen EXCEPT ![g].pc = "insert"]
  /\ act' = [act EXCEPT ![g] = [Idle EXCEPT !.pc = "claim", !.pkts = Pointers(g, Burst)]]
  /\ UNCHANGED <<clock, pool, data, exited, joined, daemonVars, ring, storeVars, lost>>

\* A query of a paced thread.
SendQuery(g) ==
  /\ At(g, "fill") /\ ~Sends(g)
  /\ gen' = Sent(g, 1)
  /\ UNCHANGED <<clock, pool, data, exited, joined, daemonVars, ring, storeVars, act, lost>>

\* Mutant: packets the ring has no room for count as sent.
SendRingAll(g) ==
  LET n == Min({Burst, RingSize - Len(ring)})
  IN  /\ At(g, "send") /\ gen[g].job.kind = "pktgen"
      /\ ring' = ring \o Pointers(g, n)
      /\ gen' = Sent(g, Burst)
      /\ UNCHANGED <<clock, pool, data, exited, joined, daemonVars, storeVars, act, lost>>

\* virtual_port::send_pkts: the ring takes what it has room for; packets it does
\* not take are not sent again.
SendRing(g) ==
  LET n == Min({Burst, RingSize - Len(ring)})
  IN  /\ At(g, "send") /\ gen[g].job.kind = "pktgen"
      /\ ring' = ring \o Pointers(g, n)
      /\ gen' = Sent(g, n)
      /\ UNCHANGED <<clock, pool, data, exited, joined, daemonVars, storeVars, act, lost>>

Runs(w) == w[2] \in inst[w[1]].writers

\* Mutant: a burst that is not full is left in the ring.
RecvFull(w) ==
  /\ Runs(w) /\ act[w].pc = "idle" /\ Len(ring) >= Burst
  /\ act' = [act EXCEPT ![w] = [Idle EXCEPT !.pc = "claim", !.pkts = SubSeq(ring, 1, Burst)]]
  /\ ring' = SubSeq(ring, Burst + 1, Len(ring))
  /\ UNCHANGED <<genVars, daemonVars, storeVars, lost>>

\* virtual_port::recv_pkts in the loop of netplay_writer::start; there may be
\* nothing to receive.  Writers that share a port poll the same queue; that one
\* poll is over before another begins is what a ring for many consumers gives.
Recv(w) ==
  LET n == Min({Burst, Len(ring)})
  IN  /\ Runs(w) /\ act[w].pc = "idle"
      /\ act' = [act EXCEPT ![w] = [Idle EXCEPT !.pc = "claim", !.pkts = SubSeq(ring, 1, n)]]
      /\ ring' = SubSeq(ring, n + 1, Len(ring))
      /\ UNCHANGED <<genVars, daemonVars, storeVars, lost>>

-----------------------------------------------------------------------------
(* insert_pktburst                                                         *)

Running(t) == IF t \in Gens THEN ~exited ELSE Runs(t)

\* request_id_block.
Claim(t) ==
  LET s == StoreOf(t)
      places == [i \in 1..Len(act[t].pkts) |-> [pkt |-> act[t].pkts[i].pkt, got |-> NoPacket]]
  IN  /\ Running(t) /\ act[t].pc = "claim"
      /\ claimed' = [claimed EXCEPT ![s] = @ \o places]
      /\ act' = [act EXCEPT ![t].pc = IF places = <<>> THEN "end" ELSE "copy",
                            ![t].first = Len(claimed[s]), ![t].next = 1]
      /\ UNCHANGED <<genVars, daemonVars, ring, published, lost>>

\* Mutant: the first packet of the burst is copied every time.
CopyFirst(t) ==
  LET a == act[t]
  IN  /\ Running(t) /\ a.pc = "copy"
      /\ claimed' = [claimed EXCEPT ![StoreOf(t)][a.first + a.next].got = data[a.pkts[1].buf]]
      /\ act' = [act EXCEPT ![t].next = @ + 1,
                            ![t].pc = IF a.next = Len(a.pkts) THEN "end" ELSE "copy"]
      /\ UNCHANGED <<genVars, daemonVars, ring, published, lost>>

\* The packet as it is now in its buffer is indexed and appended.
Copy(t) ==
  LET a == act[t]
  IN  /\ Running(t) /\ a.pc = "copy"
      /\ claimed' = [claimed EXCEPT ![StoreOf(t)][a.first + a.next].got = data[a.pkts[a.next].buf]]
      /\ act' = [act EXCEPT ![t].next = a.next + 1,
                            ![t].pc = IF a.next = Len(a.pkts) THEN "end" ELSE "copy"]
      /\ UNCHANGED <<genVars, daemonVars, ring, published, lost>>

\* Mutant: one id is published, not the burst.
PublishOne(t) ==
  LET s == StoreOf(t)
  IN  /\ Running(t) /\ act[t].pc = "end"
      /\ published[s] = act[t].first
      /\ published' = [published EXCEPT ![s] = @ + Min({1, Len(act[t].pkts)})]
      /\ act' = [act EXCEPT ![t] = Idle]
      /\ gen' = IF t \in Gens THEN Sent(t, Burst) ELSE gen
      /\ UNCHANGED <<clock, pool, data, exited, joined, daemonVars, ring, claimed, lost>>

\* offsetlog::end, then back to the loop.  The buffers are not freed.
Publish(t) ==
  LET s == StoreOf(t)
  IN  /\ Running(t) /\ act[t].pc = "end"
      /\ published[s] = act[t].first
      /\ published' = [published EXCEPT ![s] = @ + Len(act[t].pkts)]
      /\ act' = [act EXCEPT ![t] = Idle]
      /\ gen' = IF t \in Gens THEN Sent(t, Burst) ELSE gen
      /\ UNCHANGED <<clock, pool, data, exited, joined, daemonVars, ring, claimed, lost>>

-----------------------------------------------------------------------------
(* Monitor, and processes that end                                         *)

\* The entry of monitor(): some writers have been at work before.
StartMonitor(d) ==
  /\ inst[d].pc = "start" /\ inst[d].todo = <<>>
  /\ inst' = [inst EXCEPT ![d].pc = "monitor",
                ![d].start_pkts = published[d], ![d].epoch_pkts = published[d]]
  /\ UNCHANGED <<genVars, lock, file, exits, ring, storeVars, act, lost>>

\* A round of monitor(): the packets since the last one are reported.
Monitor(d) ==
  /\ inst[d].pc = "monitor"
  /\ inst' = [inst EXCEPT ![d].epoch_pkts = published[d]]
  /\ UNCHANGED <<genVars, lock, file, exits, ring, storeVars, act, lost>>

\* What a writer has taken from the ring and not claimed places for.
Held(w) == IF act[w].pc = "claim" THEN Len(act[w].pkts) ELSE 0

\* What a daemon has taken from the ring is lost when it ends; the ring, which is
\* the switch's, is not.
Exit(d) ==
  /\ End(d)
  /\ lost' = lost + Len(claimed[d]) + MapThenSumSet(LAMBDA c : Held(<<d, c>>), Cores)
  /\ claimed' = [claimed EXCEPT ![d] = <<>>]
  /\ published' = [published EXCEPT ![d] = 0]
  /\ act' = [t \in Threads |-> IF t \in Gens \/ t[1] # d THEN act[t] ELSE Idle]
  /\ UNCHANGED <<genVars, ring>>

-----------------------------------------------------------------------------

Insert(t) == Claim(t) \/ Copy(t) \/ Publish(t)

GenNext(g) ==
  \/ GenStep(g) /\ UNCHANGED <<daemonVars, ring, storeVars, act, lost>>
  \/ SendBench(g) \/ SendQuery(g) \/ SendRing(g) \/ Insert(g)

WriterNext(w) == Recv(w) \/ Insert(w)

DaemonNext(d) ==
  \/ Startup(d) /\ UNCHANGED <<genVars, ring, storeVars, act, lost>>
  \/ StartMonitor(d) \/ Monitor(d)

Environment == (Tick \/ Join) /\ UNCHANGED <<daemonVars, ring, storeVars, act, lost>>

Next ==
  \/ \E g \in Gens : GenNext(g)
  \/ \E w \in Writers : WriterNext(w)
  \/ \E d \in Daemons : DaemonNext(d) \/ Exit(d)
  \/ Environment

Spec == Init /\ [][Next]_vars

\* Generators and writers that are not blocked are scheduled, and time passes;
\* nothing is asked of how fast a daemon starts.
Fairness ==
  /\ WF_vars(Environment)
  /\ \A g \in Gens : WF_vars(GenNext(g))
  /\ \A w \in Writers : WF_vars(WriterNext(w))

FairSpec == Spec /\ Fairness

-----------------------------------------------------------------------------
(* Properties                                                              *)

\* The token bucket lets through no more than its capacity and what the rate
\* allows since it was made, however the calls of consume() fall in time.
RateKept ==
  \A g \in Gens :
    gen[g].job.rate > 0 /\ gen[g].bufs # <<>> /\ clock < MaxTime =>
      gen[g].pos < Capacity + gen[g].job.rate * (clock - gen[g].born)

\* Of its packets, a generator of the benchmarks reads and stores less than a
\* burst more than it was asked for, and none if bursts divide that number: only
\* then does it stay within its part of pkt_data.
WithinSlice ==
  \A g \in Gens :
    LET m == gen[g].limit
    IN  /\ gen[g].sent < m + Burst
        /\ gen[g].job.kind \in {"filter_bench", "load_bench"} =>
             gen[g].pos < m + Burst /\ (m % Burst = 0 => gen[g].pos <= m)

\* A paced thread takes at least min_batch for each batch it has left behind; not
\* so if that is a second or more, since nanosleep then returns at once.
Paced ==
  \A g \in Gens :
    LET r == gen[g]
    IN  r.job.min_batch > 0 /\ r.job.min_batch < Second /\ r.pc \in {"test", "fill", "done"} =>
          r.job.batch = 0 \/ clock = MaxTime \/ clock - r.start >= (r.sent \div r.job.batch) * r.job.min_batch

\* A benchmark's packets are in its store in the order in which they were made,
\* each once and as it was made, though the buffers are used again.  pktgen writes
\* new packets into buffers that are still on their way: there, what a writer
\* stores is the packet that was sent or a later one of the same buffer.
StoredAsSent ==
  /\ \A g \in Gens :
       gen[g].job.kind \in {"filter_bench", "load_bench"} =>
         \A i \in 1..Len(claimed[Bench]) :
           LET p == claimed[Bench][i]
           IN  p.pkt.gen = g =>
                 /\ p.pkt.n = Cardinality({j \in 1..i : claimed[Bench][j].pkt.gen = g})
                 /\ p.got \in {p.pkt, NoPacket}
  /\ \A d \in Daemons : \A i \in 1..Len(claimed[d]) :
       LET p == claimed[d][i]
       IN  p.got # NoPacket =>
             p.got.gen = p.pkt.gen /\ p.got.n >= p.pkt.n /\ (p.got.n - p.pkt.n) % Burst = 0

\* Every packet pktgen counts as sent is once in the ring, in the hands of a
\* writer or in a store, or was lost with a process: also when the ring is full,
\* when writers share a port and when a daemon takes over from another.
Conserved ==
  MapThenSumSet(LAMBDA g : gen[g].sent, {g \in Gens : gen[g].job.kind = "pktgen"})
    = lost + Len(ring) + MapThenSumSet(Held, Writers)
      + MapThenSumSet(LAMBDA d : Len(claimed[d]), Daemons)

\* Of the processes started with a pid file at most one gets past it, and the
\* file names that one.
PidfileNames ==
  \A d \in Daemons :
    inst[d].conf.pidfile /\ inst[d].pc \in {"dpdk", "start", "monitor"} => lock = d /\ file = d

\* A writer polls only a port all of whose initialization succeeded, and that is
\* not initialized again under it.
PolledReady ==
  \A d \in Daemons : \A c \in inst[d].writers :
    inst[d].port[inst[d].conf.mapping[c]] = Calls(d)

\* A generator that may run for ever.
Endless == \E g \in Gens : gen[g].job.kind = "pktgen"

\* Too few buffers for all the generators ever made, or a pacer that divides by
\* zero.
Doomed ==
  \/ Burst * Cardinality({g \in Gens : Sends(g)}) > PoolSize
  \/ \E g \in Gens : gen[g].job.kind = "query" /\ gen[g].job.min_batch = 0

\* A benchmark ends: its main thread joins all the others, since the token bucket
\* grants every burst, sleeps end and bursts are published; and when the pool runs
\* out between generators, or a pacer cannot be made, the process exits before
\* that.
BenchEnds == <>(Endless \/ (IF Doomed THEN exited ELSE joined))

\* A writer whose burst can no longer be published: see KeepsPolling of PacketStore.
Stuck(w) == act[w].pc = "end" /\ published[w[1]] > act[w].first

\* What is in the ring is taken out of it as long as a writer runs and polls.
Drained ==
  (ring # <<>>) ~> (ring = <<>> \/ \A w \in Writers : Runs(w) => Stuck(w))

=============================================================================
