----------------------------- MODULE MCPipeline -----------------------------
(* Instances of Pipeline for TLC: bursts of two packets, a bucket of three *)
(* tokens, five buffers, a ring of three slots, two daemons, two cores.     *)
EXTENDS Pipeline

CONSTANTS g1, g2, g3, d1, d2, eth0, eth1

None0 == [kind |-> "none", rate |-> 0, time_limit |-> 0, limit |-> 0, batch |-> 0,
          min_batch |-> 0, after |-> {}]
Load(limit, batch, min, after) ==
  [None0 EXCEPT !.kind = "load_bench", !.limit = limit, !.batch = batch, !.min_batch = min,
                !.after = after]
Filter(rate, limit) == [None0 EXCEPT !.kind = "filter_bench", !.rate = rate, !.limit = limit]
Query(batch, ms, after) ==
  [None0 EXCEPT !.kind = "query", !.batch = batch, !.min_batch = ms, !.after = after]
Pktgen(rate, time, limit) ==
  [None0 EXCEPT !.kind = "pktgen", !.rate = rate, !.time_limit = time, !.limit = limit]

Three(a, b, c) == (g1 :> a) @@ (g2 :> b) @@ (g3 :> c)

Pair(c, i) == [core |-> c, iface |-> i]
W(pairs) == [opt |-> "w", arg |-> pairs]
P == [opt |-> "p", arg |-> None]
L(arg) == [opt |-> "l", arg |-> arg]
M(core) == [opt |-> "m", arg |-> core]

Ovs(opts) == [opts |-> opts, vswitch |-> "ovs"]
Bess(opts) == [opts |-> opts, vswitch |-> "bess"]

NoDaemons == (d1 :> None) @@ (d2 :> None)
Benchmark(a, b, c) == [jobs |-> Three(a, b, c), args |-> NoDaemons]
Started(job, x, y) == [jobs |-> Three(job, None0, None0), args |-> (d1 :> x) @@ (d2 :> y)]

BenchScenarios ==
  {\* packet_bench: slices loaded together or alone, with and without a rate
   Benchmark(Load(2, 2, 1, {}), Load(3, 4, 0, {}), None0),
   Benchmark(Load(4, 2, 1, {}), None0, None0), Benchmark(Load(4, 2, 3, {}), None0, None0),
   \* storage_bench: intervals one after another, the last without buffers
   Benchmark(Load(2, 2, 0, {}), Load(3, 2, 0, {g1}), None0),
   Benchmark(Load(2, 2, 0, {}), Load(3, 2, 0, {g1}), Load(2, 2, 0, {g1, g2})),
   \* filter_bench: a load with a rate, then queries
   Benchmark(Filter(1, 5), Query(1, 1, {g1}), Query(2, 2, {g1})),
   Benchmark(Filter(0, 3), Query(1, 0, {g1}), None0)}

Both == W(<<Pair(1, eth0), Pair(2, eth0)>>)
One == W(<<Pair(1, eth0)>>)

DaemonScenarios ==
  {\* two daemons with a pid file, and a switch there is none for
   Started(None0, Ovs(<<P, Both>>), Bess(<<W(<<Pair(2, eth1), Pair(1, eth0)>>), P>>)),
   Started(None0, Ovs(<<P, Both>>), [opts |-> <<P>>, vswitch |-> "other"]),
   \* one without, and arguments that end the other
   Started(None0, Ovs(<<M(1), W(<<Pair(1, eth1)>>)>>), Bess(<<P, L(None)>>)),
   Started(None0, Bess(<<P, L("dir"), W(<<Pair(1, eth1), Pair(1, eth0)>>)>>), Bess(<<W(<<Pair(1, None)>>)>>))}

TrafficScenarios ==
  {\* writers that share a port, and a daemon that takes over
   Started(Pktgen(0, 0, 3), Ovs(<<Both>>), None),
   Started(Pktgen(0, 0, 3), Ovs(<<P, One>>), Ovs(<<P, One>>)),
   \* limits of rate and time
   Started(Pktgen(1, 2, 3), Ovs(<<One>>), None)}

MCScenarios == BenchScenarios \cup DaemonScenarios \cup TrafficScenarios

=============================================================================
