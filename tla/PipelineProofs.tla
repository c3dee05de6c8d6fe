--------------------------- MODULE PipelineProofs ---------------------------
(***************************************************************************)
(* What TLAPS proves of the generators, the daemons and the way of the     *)
(* packets between them, for any number of threads and processes, any      *)
(* jobs, arguments, rates and sizes: rates, slices and pacing are kept, no *)
(* packet is lost or doubled unseen, what is stored is what was sent, and  *)
(* one daemon owns the pid file.                                           *)
(***************************************************************************)
EXTENDS Pipeline, SetInduction, SequenceTheorems

-----------------------------------------------------------------------------
(* The inductive invariant: daemons                                        *)

\* A function on an initial segment of the naturals, whatever its values are.
IsSeq(s) == s \in Seq({s[i] : i \in DOMAIN s})

InstFields ==
  {"pc", "args", "conf", "told", "todo", "port", "writers", "start_pkts", "epoch_pkts"}

\* Who is between flock() and the end has the lock; who has written its pid finds
\* it in the file, as nobody else writes without the lock.
PidOf(d) ==
  /\ inst[d].pc \in {"truncate", "write"} => lock = d
  /\ inst[d].conf.pidfile /\ inst[d].pc \in {"dpdk", "start", "monitor"} => lock = d /\ file = d

\* Writers are started by start() alone, each when its port is ready.
PortOf(d) ==
  /\ inst[d].pc \notin {"start", "monitor"} => inst[d].writers = {}
  /\ \A c \in inst[d].writers : inst[d].port[inst[d].conf.mapping[c]] = Calls(d)

DaemonInv ==
  /\ inst = [d \in Daemons |-> inst[d]]
  /\ \A d \in Daemons : DOMAIN inst[d] = InstFields /\ PidOf(d) /\ PortOf(d)

-----------------------------------------------------------------------------
(* The inductive invariant: generators                                     *)

GenPcs == {"new", "ready", "test", "fill", "send", "insert", "pace", "sleep", "done"}
GenRecords ==
  [job : Jobs, pc : GenPcs, limit : Nat, bufs : Seq(Buffers), pos : Nat, sent : Nat,
   tokens : Nat, fill : Nat, born : Nat, start : Nat, epoch : Nat, wake : Nat]

IsBench(g) == gen[g].job.kind \in {"filter_bench", "load_bench"}

JobOf(g) ==
  /\ gen[g].job.kind \in {"pktgen", "filter_bench", "none"} => gen[g].job.min_batch = 0
  /\ gen[g].job.kind = "load_bench" => gen[g].job.batch % Burst = 0

\* Buffers come with the constructor, and only threads that send have them.
ControlOf(g) ==
  /\ gen[g].pc \in {"new", "ready"} => gen[g].sent = 0 /\ gen[g].pos = 0
  /\ gen[g].job.kind = "none" => gen[g].pc = "done" /\ gen[g].sent = 0
  /\ gen[g].bufs # <<>> <=> Sends(g) /\ gen[g].pc # "new"
  /\ ~Sends(g) => gen[g].pc \notin {"send", "insert"}
  /\ gen[g].pc = "send" => gen[g].pos > 0
  /\ gen[g].pc = "insert" => IsBench(g)
  /\ gen[g].pc = "insert" <=> act[g].pc # "idle"

TimeOf(g) ==
  /\ gen[g].born <= gen[g].fill /\ gen[g].fill <= clock
  /\ gen[g].start <= gen[g].epoch /\ gen[g].epoch <= clock

\* What the bucket has let through and what is left in it came with it or since.
RateOf(g) ==
  gen[g].bufs # <<>> =>
    /\ gen[g].tokens \in 1..Capacity
    /\ gen[g].job.rate > 0 /\ clock < MaxTime =>
         gen[g].pos + gen[g].tokens <= Capacity + gen[g].job.rate * (gen[g].fill - gen[g].born)

\* The loops send while less than the limit has been sent; a benchmark's bursts
\* are sent whole.
SliceOf(g) ==
  /\ gen[g].sent < gen[g].limit + Burst
  /\ gen[g].pc \in {"fill", "send", "insert"} => gen[g].sent < gen[g].limit
  /\ IsBench(g) => /\ gen[g].sent % Burst = 0
                   /\ gen[g].pos = IF gen[g].pc \in {"send", "insert"}
                                     THEN gen[g].sent + Burst ELSE gen[g].sent

\* Each batch but the one under way has taken its time.
PaceOf(g) ==
  LET r == gen[g]
      batches == r.sent \div r.job.batch
  IN  r.job.min_batch > 0 /\ r.job.min_batch < Second /\ r.job.batch > 0 =>
        /\ r.pc \in {"test", "fill", "send", "insert", "done"} =>
             clock = MaxTime \/ r.epoch - r.start >= batches * r.job.min_batch
        /\ r.pc \in {"pace", "sleep"} =>
             /\ r.sent % r.job.batch = 0 /\ batches >= 1
             /\ clock = MaxTime \/ r.epoch - r.start >= (batches - 1) * r.job.min_batch
        /\ r.pc = "sleep" => r.wake >= r.epoch + r.job.min_batch

GenInv ==
  /\ clock \in 0..MaxTime
  /\ gen \in [Gens -> GenRecords]
  /\ \A g \in Gens : /\ JobOf(g) /\ ControlOf(g) /\ TimeOf(g)
                     /\ RateOf(g) /\ SliceOf(g) /\ PaceOf(g)

-----------------------------------------------------------------------------
(* The inductive invariant: buffers and packets                            *)

\* Each buffer is one generator's, once.
BufferInv ==
  /\ pool \subseteq Buffers
  /\ data = [b \in Buffers |-> data[b]]
  /\ \A g \in Gens : gen[g].bufs # <<>> =>
       Len(gen[g].bufs) = Burst /\ \A i \in 1..Burst : gen[g].bufs[i] \notin pool
  /\ \A g, h \in Gens : \A i \in 1..Len(gen[g].bufs), j \in 1..Len(gen[h].bufs) :
       gen[g].bufs[i] = gen[h].bufs[j] => g = h /\ i = j

\* The number of the packet now in a generator's i-th buffer.
Latest(g, i) == gen[g].pos - Burst + i

DataInv ==
  \A g \in Gens : gen[g].bufs # <<>> /\ gen[g].pos > 0 =>
    /\ gen[g].pos >= Burst
    /\ \A i \in 1..Burst : data[gen[g].bufs[i]] = [gen |-> g, n |-> Latest(g, i)]

\* A pointer and the packet it was sent for, as the generators now are: the buffer
\* holds that packet or a later one that came into the same buffer.
Points(e, gs) ==
  \E g \in Gens, i \in 1..Burst :
    LET latest == gs[g].pos - Burst + i
    IN  /\ gs[g].bufs # <<>> /\ gs[g].pos > 0
        /\ e.buf = gs[g].bufs[i]
        /\ e.pkt.gen = g /\ e.pkt.n \in Nat
        /\ e.pkt.n <= latest /\ (latest - e.pkt.n) % Burst = 0

RingInv ==
  /\ IsSeq(ring) /\ Len(ring) <= RingSize
  /\ \A i \in 1..Len(ring) : Points(ring[i], gen)

ActRecord(t) ==
  /\ DOMAIN act[t] = {"pc", "pkts", "first", "next"}
  /\ act[t].pc \in {"idle", "claim", "copy", "end"}
  /\ IsSeq(act[t].pkts)
  /\ act[t].first \in Nat /\ act[t].next \in Nat
  /\ act[t].pc = "idle" => act[t].pkts = <<>>

\* The places of an insert are in the store, claimed for its packets.
PlacesOf(t) ==
  /\ act[t].pc \in {"copy", "end"} =>
       /\ act[t].first + Len(act[t].pkts) <= Len(claimed[StoreOf(t)])
       /\ \A i \in 1..Len(act[t].pkts) :
            claimed[StoreOf(t)][act[t].first + i].pkt = act[t].pkts[i].pkt
  /\ act[t].pc = "copy" => act[t].next \in 1..Len(act[t].pkts)

\* What a daemon's store holds of a packet.
Later(p) ==
  p.got # NoPacket =>
    p.got.gen = p.pkt.gen /\ p.got.n >= p.pkt.n /\ (p.got.n - p.pkt.n) % Burst = 0

ActInv ==
  /\ act = [t \in Threads |-> act[t]]
  /\ claimed = [s \in Stores |-> claimed[s]]
  /\ \A s \in Stores : IsSeq(claimed[s])
  /\ \A s \in Stores : \A i \in 1..Len(claimed[s]) : DOMAIN claimed[s][i] = {"pkt", "got"}
  /\ \A t \in Threads : ActRecord(t) /\ PlacesOf(t)
  /\ \A w \in Writers : \A i \in 1..Len(act[w].pkts) : Points(act[w].pkts[i], gen)
  /\ \A d \in Daemons : \A i \in 1..Len(claimed[d]) : Later(claimed[d][i])

\* The places of a generator among the first i of a store c.
PlacesUpTo(g, c, i) == {j \in 1..i : c[j].pkt.gen = g}

\* The store has the first total packets of a generator, each once and in order.
InOrder(g, c, total) ==
  /\ Cardinality(PlacesUpTo(g, c, Len(c))) = total
  /\ \A i \in 1..Len(c) :
       c[i].pkt.gen = g => /\ c[i].pkt.n = Cardinality(PlacesUpTo(g, c, i))
                           /\ c[i].got \in {c[i].pkt, NoPacket}

\* A benchmark's generator hands on the packets that follow those it has sent.
BenchOf(g) ==
  /\ gen[g].pc = "insert" =>
       act[g].pkts = [i \in 1..Burst |->
                        [buf |-> gen[g].bufs[i], pkt |-> [gen |-> g, n |-> gen[g].sent + i]]]
  /\ InOrder(g, claimed[Bench],
             IF act[g].pc \in {"copy", "end"} THEN gen[g].sent + Burst ELSE gen[g].sent)

BenchInv == \A g \in Gens : IsBench(g) => BenchOf(g)

PipeInv == DaemonInv /\ GenInv /\ BufferInv /\ DataInv /\ RingInv /\ ActInv /\ BenchInv

-----------------------------------------------------------------------------
(* Daemons                                                                 *)

\* A step of one process: the others' part of the invariant stays, if it keeps
\* the lock of those that have it, and the file of whoever has the lock.
LEMMA OthersStay ==
  ASSUME DaemonInv, NEW d \in Daemons, NEW i,
         inst' = [inst EXCEPT ![d] = i],
         \A e \in Daemons \ {d} : lock = e => lock' = e /\ (file = e => file' = e),
         DOMAIN i = InstFields,
         PidOf(d)', PortOf(d)'
  PROVE  DaemonInv'
<1>1. inst' = [e \in Daemons |-> IF e = d THEN i ELSE inst[e]]
  BY DEF DaemonInv
<1>2. inst'[d] = i /\ \A e \in Daemons \ {d} : inst'[e] = inst[e]
  BY <1>1
<1>3. (DOMAIN inst[d] = InstFields)'
  BY <1>2
<1>4. ASSUME NEW e \in Daemons \ {d}
      PROVE  (DOMAIN inst[e] = InstFields)' /\ PidOf(e)' /\ PortOf(e)'
  <2>1. DOMAIN inst[e] = InstFields /\ PidOf(e) /\ PortOf(e)
    BY DEF DaemonInv
  <2>2. (DOMAIN inst[e] = InstFields)'
    BY <1>2, <2>1
  <2>3. PidOf(e)'
    BY <1>2, <2>1 DEF PidOf
  <2>4. PortOf(e)'
    BY <1>2, <2>1 DEF PortOf, Calls
  <2>5. QED
    BY <2>2, <2>3, <2>4
<1>5. inst' = [e \in Daemons |-> inst'[e]]
  BY <1>1
<1>6. QED
  BY <1>3, <1>4, <1>5 DEF DaemonInv

\* The number of calls that make a port does not depend on a process's progress.
LEMMA CallsType ==
  ASSUME NEW d
  PROVE  Calls(d) \in Nat
<1> DEFINE Names == {"rx ring", "tx ring", "port file", "bar", "rte_eth_from_rings", "configure",
                     "rx queue", "tx queue"}
<1>1. ovs_ring_init \in Seq(Names)
  BY DEF ovs_ring_init
<1>2. bess_ring_init \in Seq(Names)
  <2>1. /\ <<"port file", "bar", "rte_eth_from_rings", "configure">> \in Seq(Names)
        /\ [j \in 1..Queues |-> "rx queue"] \in Seq(Names)
        /\ [j \in 1..Queues |-> "tx queue"] \in Seq(Names)
    BY DaemonAssumption
  <2>2. QED
    BY <2>1, ConcatProperties DEF bess_ring_init
<1>3. QED
  BY <1>1, <1>2, LenProperties DEF Calls, vport_init

LEMMA StartupStep ==
  ASSUME DaemonInv, NEW d \in Daemons, Startup(d)
  PROVE  DaemonInv'
<1>1. DOMAIN inst[d] = InstFields /\ PidOf(d) /\ PortOf(d) /\ inst = [e \in Daemons |-> inst[e]]
  BY DEF DaemonInv
<1>2. \A e \in Daemons \ {d} : lock = e => inst[d].pc \notin {"truncate", "write"}
  BY <1>1 DEF PidOf
<1>3. CASE ReadOptions(d)
  <2> DEFINE c == ParseOptions(inst[d].args)
             pc == IF ~c.ok THEN "ended" ELSE IF c.pidfile THEN "open" ELSE "dpdk"
             i == [inst[d] EXCEPT !.conf = c, !.pc = pc]
  <2>1. inst' = [inst EXCEPT ![d] = i] /\ inst'[d] = i
    BY <1>1, <1>3 DEF ReadOptions
  <2>0. pc \in {"ended", "open", "dpdk"} /\ (pc = "dpdk" => ~c.pidfile)
    OBVIOUS
  <2> HIDE DEF c, pc
  <2>2. inst[d].pc = "new" /\ UNCHANGED <<lock, file>>
    BY <1>3 DEF ReadOptions
  <2>3. /\ i.conf = c /\ i.writers = inst[d].writers /\ DOMAIN i = InstFields
        /\ i.pc \in {"ended", "open", "dpdk"} /\ (i.pc = "dpdk" => ~c.pidfile)
    BY <1>1, <2>0 DEF InstFields
  <2> HIDE DEF i
  <2>4. PidOf(d)'
    BY <2>1, <2>2, <2>3 DEF PidOf
  <2>5. PortOf(d)'
    BY <1>1, <2>1, <2>2, <2>3 DEF PortOf
  <2>6. QED
    BY <2>1, <2>2, <2>3, <2>4, <2>5, OthersStay
<1>4. ASSUME NEW pc \in {"flock", "truncate", "refused", "write", "dpdk", "ended"}, Goto(d, pc),
             inst[d].pc \notin {"start", "monitor"},
             pc \in {"truncate", "write"} => lock' = d,
             pc = "dpdk" => lock' = d /\ file' = d,
             \A e \in Daemons \ {d} : lock = e => lock' = e /\ (file = e => file' = e)
      PROVE  DaemonInv'
  <2> DEFINE i == [inst[d] EXCEPT !.pc = pc]
  <2>1. inst' = [inst EXCEPT ![d] = i] /\ inst'[d] = i
    BY <1>1, <1>4 DEF Goto
  <2>2. i.pc = pc /\ i.writers = inst[d].writers /\ i.conf = inst[d].conf /\ DOMAIN i = InstFields
    BY <1>1 DEF InstFields
  <2> HIDE DEF i
  <2>3. PidOf(d)'
    BY <1>4, <2>1, <2>2 DEF PidOf
  <2>4. PortOf(d)'
    BY <1>1, <1>4, <2>1, <2>2 DEF PortOf
  <2>5. QED
    BY <1>4, <2>1, <2>2, <2>3, <2>4, OthersStay
<1>5. CASE OpenPidfile(d)
  BY <1>4, <1>5, DaemonAssumption DEF OpenPidfile
<1>6. CASE LockPidfile(d)
  BY <1>4, <1>6, DaemonAssumption DEF LockPidfile
<1>7. CASE ReportPid(d)
  <2> DEFINE i == [inst[d] EXCEPT !.pc = "ended", !.told = file]
  <2>1. inst' = [inst EXCEPT ![d] = i] /\ inst'[d] = i
    BY <1>1, <1>7 DEF ReportPid
  <2>2. inst[d].pc = "refused" /\ UNCHANGED <<lock, file>>
    BY <1>7 DEF ReportPid
  <2>3. i.pc = "ended" /\ i.writers = inst[d].writers /\ i.conf = inst[d].conf /\ DOMAIN i = InstFields
    BY <1>1 DEF InstFields
  <2> HIDE DEF i
  <2>4. PidOf(d)' /\ PortOf(d)'
    BY <1>1, <2>1, <2>2, <2>3 DEF PidOf, PortOf
  <2>5. QED
    BY <2>1, <2>2, <2>3, <2>4, OthersStay
<1>8. CASE TruncatePidfile(d)
  BY <1>1, <1>2, <1>4, <1>8 DEF TruncatePidfile, PidOf
<1>9. CASE WritePidfile(d)
  BY <1>1, <1>2, <1>4, <1>9 DEF WritePidfile, PidOf
<1>10. CASE InitDpdk(d)
  <2> DEFINE todo == SetToSortSeq({c \in Cores : inst[d].conf.mapping[c] # None}, <)
             i == [inst[d] EXCEPT !.pc = "start", !.todo = todo]
  <2>1. inst' = [inst EXCEPT ![d] = i] /\ inst'[d] = i
    BY <1>1, <1>10 DEF InitDpdk
  <2>2. inst[d].pc = "dpdk" /\ UNCHANGED <<lock, file>>
    BY <1>10 DEF InitDpdk
  <2> HIDE DEF todo
  <2>3. i.pc = "start" /\ i.writers = inst[d].writers /\ i.conf = inst[d].conf /\ DOMAIN i = InstFields
    BY <1>1 DEF InstFields
  <2> HIDE DEF i
  <2>4. PidOf(d)' /\ PortOf(d)'
    BY <1>1, <2>1, <2>2, <2>3 DEF PidOf, PortOf
  <2>5. QED
    BY <2>1, <2>2, <2>3, <2>4, OthersStay
<1>11. CASE Unsupported(d)
  BY <1>4, <1>11, DaemonAssumption DEF Unsupported
<1>12. CASE OpenPort(d)
  <2> DEFINE f == NextIface(d)
             port == [inst[d].port EXCEPT ![f] = inst[d].port[f] + 1]
             i == [inst[d] EXCEPT !.port = port]
  <2>1. inst' = [inst EXCEPT ![d] = i] /\ inst'[d] = i
    BY <1>1, <1>12 DEF OpenPort
  <2>2. /\ inst[d].pc = "start" /\ UNCHANGED <<lock, file>>
        /\ inst[d].port[f] < Calls(d)
    BY <1>12 DEF OpenPort
  <2>3. /\ i.pc = inst[d].pc /\ i.writers = inst[d].writers /\ i.conf = inst[d].conf
        /\ i.port = port /\ DOMAIN i = InstFields
    BY <1>1 DEF InstFields
  <2>4. \A x : x # f => port[x] = inst[d].port[x]
    OBVIOUS
  <2>5. ASSUME NEW c \in inst[d].writers
        PROVE  inst[d].conf.mapping[c] # f
    BY <1>1, <2>2, CallsType DEF PortOf
  <2> HIDE DEF i, port, f
  <2>6. PidOf(d)'
    BY <1>1, <2>1, <2>2, <2>3 DEF PidOf
  <2>7. PortOf(d)'
    <3>1. Calls(d)' = Calls(d)
      BY <2>1, <2>3 DEF Calls
    <3>2. QED
      BY <1>1, <2>1, <2>2, <2>3, <2>4, <2>5, <3>1 DEF PortOf
  <2>8. QED
    BY <2>1, <2>2, <2>3, <2>6, <2>7, OthersStay
<1>13. CASE StartWriter(d)
  <2> DEFINE w == inst[d].writers \cup {Head(inst[d].todo)}
             i == [inst[d] EXCEPT !.writers = w, !.todo = Tail(inst[d].todo)]
  <2>1. inst' = [inst EXCEPT ![d] = i] /\ inst'[d] = i
    BY <1>1, <1>13 DEF StartWriter
  <2>2. /\ inst[d].pc = "start" /\ UNCHANGED <<lock, file>>
        /\ inst[d].port[inst[d].conf.mapping[Head(inst[d].todo)]] = Calls(d)
    BY <1>13 DEF StartWriter, NextIface
  <2>3. /\ i.pc = inst[d].pc /\ i.writers = w /\ i.conf = inst[d].conf
        /\ i.port = inst[d].port /\ DOMAIN i = InstFields
    BY <1>1 DEF InstFields
  <2> HIDE DEF i
  <2>4. PidOf(d)'
    BY <1>1, <2>1, <2>2, <2>3 DEF PidOf
  <2>5. PortOf(d)'
    <3>1. Calls(d)' = Calls(d)
      BY <2>1, <2>3 DEF Calls
    <3>2. QED
      BY <1>1, <2>1, <2>2, <2>3, <3>1 DEF PortOf
  <2>6. QED
    BY <2>1, <2>2, <2>3, <2>4, <2>5, OthersStay
<1>14. QED
  BY <1>3, <1>5, <1>6, <1>7, <1>8, <1>9, <1>10, <1>11, <1>12, <1>13 DEF Startup

\* The steps of monitor().
LEMMA MonitorStep ==
  ASSUME DaemonInv, NEW d \in Daemons, StartMonitor(d) \/ Monitor(d)
  PROVE  DaemonInv'
<1>1. DOMAIN inst[d] = InstFields /\ PidOf(d) /\ PortOf(d) /\ inst = [e \in Daemons |-> inst[e]]
  BY DEF DaemonInv
<1>2. UNCHANGED <<lock, file>> /\ inst[d].pc \in {"start", "monitor"}
  BY DEF StartMonitor, Monitor
<1>3. PICK i : /\ inst' = [inst EXCEPT ![d] = i] /\ DOMAIN i = InstFields
               /\ i.pc = "monitor" /\ i.writers = inst[d].writers /\ i.conf = inst[d].conf
               /\ i.port = inst[d].port
  <2> DEFINE i1 == [inst[d] EXCEPT !.pc = "monitor", !.start_pkts = published[d],
                                   !.epoch_pkts = published[d]]
             i2 == [inst[d] EXCEPT !.epoch_pkts = published[d]]
  <2>1. CASE StartMonitor(d)
    <3>1. inst' = [inst EXCEPT ![d] = i1]
      BY <1>1, <2>1 DEF StartMonitor
    <3>2. /\ DOMAIN i1 = InstFields /\ i1.pc = "monitor" /\ i1.writers = inst[d].writers
          /\ i1.conf = inst[d].conf /\ i1.port = inst[d].port
      BY <1>1 DEF InstFields
    <3>3. QED
      BY <3>1, <3>2
  <2>2. CASE Monitor(d)
    <3>1. inst' = [inst EXCEPT ![d] = i2] /\ inst[d].pc = "monitor"
      BY <1>1, <2>2 DEF Monitor
    <3>2. /\ DOMAIN i2 = InstFields /\ i2.pc = inst[d].pc /\ i2.writers = inst[d].writers
          /\ i2.conf = inst[d].conf /\ i2.port = inst[d].port
      BY <1>1 DEF InstFields
    <3>3. QED
      BY <3>1, <3>2
  <2>3. QED
    BY <2>1, <2>2
<1>4. inst'[d] = i
  BY <1>1, <1>3
<1>5. PidOf(d)'
  BY <1>1, <1>2, <1>3, <1>4 DEF PidOf
<1>6. PortOf(d)'
  <2>1. Calls(d)' = Calls(d)
    BY <1>3, <1>4 DEF Calls
  <2>2. QED
    BY <1>1, <1>2, <1>3, <1>4, <2>1 DEF PortOf
<1>7. QED
  BY <1>2, <1>3, <1>5, <1>6, OthersStay

\* The end of a process: its lock goes with it, and its writers.
LEMMA EndStep ==
  ASSUME DaemonInv, NEW d \in Daemons, End(d)
  PROVE  DaemonInv'
<1>1. DOMAIN inst[d] = InstFields /\ inst = [e \in Daemons |-> inst[e]]
  BY DEF DaemonInv
<1> DEFINE i == [inst[d] EXCEPT !.pc = "ended", !.writers = {}]
<1>2. inst' = [inst EXCEPT ![d] = i] /\ inst'[d] = i
  BY <1>1 DEF End
<1>3. file' = file /\ \A e \in Daemons \ {d} : lock = e => lock' = e
  BY DEF End
<1>4. i.pc = "ended" /\ i.writers = {} /\ DOMAIN i = InstFields
  BY <1>1 DEF InstFields
<1> HIDE DEF i
<1>5. PidOf(d)' /\ PortOf(d)'
  BY <1>2, <1>4 DEF PidOf, PortOf
<1>6. QED
  BY <1>2, <1>3, <1>4, <1>5, OthersStay

LEMMA DaemonStep ==
  ASSUME DaemonInv, [Next]_vars
  PROVE  DaemonInv'
<1>1. CASE UNCHANGED daemonVars
  BY <1>1 DEF daemonVars, DaemonInv, PidOf, PortOf, Calls
<1>2. ASSUME NEW g \in Gens, GenNext(g)
      PROVE  UNCHANGED daemonVars
  BY <1>2 DEF GenNext, SendBench, SendQuery, SendRing, Insert, Claim, Copy, Publish
<1>3. ASSUME NEW w \in Writers, WriterNext(w)
      PROVE  UNCHANGED daemonVars
  BY <1>3 DEF WriterNext, Recv, Insert, Claim, Copy, Publish
<1>4. ASSUME NEW d \in Daemons, DaemonNext(d)
      PROVE  DaemonInv'
  BY <1>4, StartupStep, MonitorStep DEF DaemonNext
<1>5. ASSUME NEW d \in Daemons, Exit(d)
      PROVE  DaemonInv'
  BY <1>5, EndStep DEF Exit
<1>6. Environment => UNCHANGED daemonVars
  BY DEF Environment
<1>7. UNCHANGED vars => UNCHANGED daemonVars
  BY DEF vars
<1>8. QED
  BY <1>1, <1>2, <1>3, <1>4, <1>5, <1>6, <1>7 DEF Next

LEMMA DaemonInitial ==
  ASSUME Init
  PROVE  DaemonInv
<1>1. PICK s \in Scenarios : DaemonInit(s.args)
  BY DEF Init
<1>2. inst = [d \in Daemons |-> Process(s.args[d])]
  BY <1>1 DEF DaemonInit
<1>3. ASSUME NEW d \in Daemons
      PROVE  DOMAIN inst[d] = InstFields /\ PidOf(d) /\ PortOf(d)
  BY <1>2 DEF InstFields, PidOf, PortOf, Process
<1>4. QED
  BY <1>2, <1>3 DEF DaemonInv

-----------------------------------------------------------------------------
(* Arithmetic                                                              *)

LEMMA TimesMonotone ==
  ASSUME NEW n \in Nat, NEW a \in Nat, NEW b \in Nat, a <= b
  PROVE  n * a \in Nat /\ n * b \in Nat /\ n * a <= n * b
<1> DEFINE c == b - a
<1>1. c \in Nat /\ b = a + c
  OBVIOUS
<1> HIDE DEF c
<1>2. n * a \in Nat /\ n * c \in Nat /\ n * (a + c) = n * a + n * c
  BY <1>1
<1>3. QED
  BY <1>1, <1>2

\* Quotient and remainder are what they should be, and nothing else is.
LEMMA QuotientIs ==
  ASSUME NEW n \in Nat \ {0}, NEW q \in Nat, NEW r \in 0..(n - 1)
  PROVE  (n * q + r) \div n = q /\ (n * q + r) % n = r
<1> DEFINE a == n * q + r
           p == a \div n
           t == a % n
<1>1. a \in Nat
  OBVIOUS
<1>2. p \in Nat /\ t \in 0..(n - 1) /\ a = n * p + t
  BY <1>1
<1>3. a = n * q + r
  OBVIOUS
<1> HIDE DEF a, p, t
<1>4. p <= q
  <2>1. SUFFICES ASSUME q + 1 <= p
                 PROVE  FALSE
    BY <1>2
  <2>2. n * (q + 1) <= n * p /\ n * (q + 1) = n * q + n /\ n * q \in Nat /\ n * p \in Nat
    BY <1>2, <2>1, TimesMonotone
  <2>3. QED
    BY <1>2, <1>3, <2>2
<1>5. q <= p
  <2>1. SUFFICES ASSUME p + 1 <= q
                 PROVE  FALSE
    BY <1>2
  <2>2. n * (p + 1) <= n * q /\ n * (p + 1) = n * p + n /\ n * q \in Nat /\ n * p \in Nat
    BY <1>2, <2>1, TimesMonotone
  <2>3. QED
    BY <1>2, <1>3, <2>2
<1>6. p = q
  BY <1>2, <1>4, <1>5
<1>7. t = r
  BY <1>2, <1>3, <1>6
<1>8. QED
  BY <1>6, <1>7 DEF p, t, a

LEMMA Multiple ==
  ASSUME NEW n \in Nat \ {0}, NEW s \in Nat, s % n = 0
  PROVE  s \div n \in Nat /\ s = n * (s \div n)
<1>1. s \div n \in Nat /\ s = n * (s \div n) + (s % n)
  OBVIOUS
<1>2. n * (s \div n) \in Nat
  BY <1>1
<1>3. QED
  BY <1>1, <1>2

\* What a burst does to a number of packets.
LEMMA AddBurst ==
  ASSUME NEW n \in Nat \ {0}, NEW s \in Nat
  PROVE  (s + n) % n = s % n
<1> DEFINE q == s \div n
           r == s % n
<1>1. q \in Nat /\ r \in 0..(n - 1) /\ s = n * q + r
  OBVIOUS
<1> HIDE DEF q, r
<1>2. n * q \in Nat /\ n * (q + 1) = n * q + n
  BY <1>1
<1>3. s + n = n * (q + 1) + r
  BY <1>1, <1>2
<1>4. (n * (q + 1) + r) % n = r
  BY <1>1, QuotientIs
<1>5. QED
  BY <1>3, <1>4 DEF r

\* A multiple of n that is less than n above another is not above it.
LEMMA MultipleBelow ==
  ASSUME NEW n \in Nat \ {0}, NEW s \in Nat, NEW m \in Nat, s % n = 0, m % n = 0, s < m + n
  PROVE  s <= m
<1> DEFINE p == s \div n
           q == m \div n
<1>1. p \in Nat /\ q \in Nat /\ s = n * p /\ m = n * q
  BY Multiple
<1> HIDE DEF p, q
<1>2. SUFFICES ASSUME q + 1 <= p
               PROVE  FALSE
  BY <1>1, TimesMonotone
<1>3. n * (q + 1) <= n * p /\ n * (q + 1) = n * q + n
  BY <1>1, <1>2, TimesMonotone
<1>4. QED
  BY <1>1, <1>3

\* Batches that bursts divide: the burst that ends one completes it, the others
\* complete none.
LEMMA BatchStep ==
  ASSUME NEW n \in Nat \ {0}, NEW b \in Nat \ {0}, NEW s \in Nat, s % n = 0, b % n = 0
  PROVE  /\ (s + n) % b = 0 => (s + n) \div b = (s \div b) + 1
         /\ (s + n) % b # 0 => (s + n) \div b = s \div b
<1> DEFINE q == s \div b
           r == s % b
           k == b \div n
           m == s \div n
<1>1. q \in Nat /\ r \in 0..(b - 1) /\ s = b * q + r
  OBVIOUS
<1>2. k \in Nat /\ b = n * k /\ m \in Nat /\ s = n * m
  BY Multiple
<1>3. (b * q + r) \div b = q
  BY <1>1, QuotientIs
<1> HIDE DEF q, r, k, m
<1>4. r + n <= b
  <2>1. b * q = n * (k * q) /\ k * q \in Nat /\ b * q \in Nat
    BY <1>1, <1>2
  <2>2. r = n * m - n * (k * q) /\ n * m \in Nat /\ n * (k * q) \in Nat
    BY <1>1, <1>2, <2>1
  <2>3. k * q <= m
    <3>1. SUFFICES ASSUME m + 1 <= k * q
                   PROVE  FALSE
      BY <1>2, <2>1
    <3>2. n * (m + 1) <= n * (k * q) /\ n * (m + 1) = n * m + n
      BY <1>2, <2>1, <3>1, TimesMonotone
    <3>3. QED
      BY <1>1, <2>2, <3>2
  <2> DEFINE z == k * q
             e == m - z
  <2>4. e \in Nat /\ n * e = n * m - n * (k * q)
    <3>1. z \in Nat /\ z <= m
      BY <2>1, <2>3
    <3> HIDE DEF z
    <3>2. e \in Nat /\ m = e + z
      BY <1>2, <3>1
    <3> HIDE DEF e
    <3>3. n * (e + z) = n * e + n * z /\ n * e \in Nat /\ n * z \in Nat
      BY <3>1, <3>2
    <3>4. n * e = n * m - n * z
      BY <3>2, <3>3
    <3>5. QED
      BY <3>2, <3>4 DEF z
  <2> HIDE DEF e, z
  <2>5. r = n * e
    BY <2>2, <2>4
  <2>6. e + 1 <= k
    <3>1. SUFFICES ASSUME k <= e
                   PROVE  FALSE
      BY <1>2, <2>4
    <3>2. n * k <= n * e
      BY <1>2, <2>4, <3>1, TimesMonotone
    <3>3. QED
      BY <1>1, <1>2, <2>5, <3>2
  <2>7. n * (e + 1) <= n * k /\ n * (e + 1) = n * e + n
    BY <1>2, <2>4, <2>6, TimesMonotone
  <2>8. QED
    BY <1>2, <2>5, <2>7
<1>5. CASE r + n = b
  <2>1. s + n = b * (q + 1) + 0
    BY <1>1, <1>5
  <2>2. (b * (q + 1) + 0) \div b = q + 1 /\ (b * (q + 1) + 0) % b = 0
    BY <1>1, QuotientIs
  <2>3. QED
    BY <2>1, <2>2 DEF q
<1>6. CASE r + n < b
  <2>1. s + n = b * q + (r + n) /\ r + n \in 0..(b - 1) /\ r + n # 0
    BY <1>1, <1>6
  <2>2. (b * q + (r + n)) \div b = q /\ (b * q + (r + n)) % b = r + n
    BY <1>1, <2>1, QuotientIs
  <2>3. QED
    BY <2>1, <2>2 DEF q
<1>7. QED
  BY <1>1, <1>4, <1>5, <1>6

\* What a rate allows adds up over time.
LEMMA RateSplit ==
  ASSUME NEW n \in Nat, NEW a \in Nat, NEW b \in Nat, NEW c \in Nat, a <= b, b <= c
  PROVE  /\ n * (b - a) \in Nat /\ n * (c - b) \in Nat
         /\ n * (c - a) = n * (b - a) + n * (c - b)
<1> DEFINE x == b - a
           y == c - b
<1>1. x \in Nat /\ y \in Nat /\ c - a = x + y
  OBVIOUS
<1> HIDE DEF x, y
<1>2. n * x \in Nat /\ n * y \in Nat /\ n * (x + y) = n * x + n * y
  BY <1>1
<1>3. QED
  BY <1>1, <1>2 DEF x, y

LEMMA MinPair ==
  ASSUME NEW a \in Int, NEW b \in Int
  PROVE  Min({a, b}) = IF a <= b THEN a ELSE b
<1> DEFINE m == IF a <= b THEN a ELSE b
<1>1. m \in {a, b} /\ \A y \in {a, b} : m <= y
  OBVIOUS
<1>2. \A x \in {a, b} : (\A y \in {a, b} : x <= y) => x = m
  OBVIOUS
<1> HIDE DEF m
<1>3. Min({a, b}) = m
  BY <1>1, <1>2 DEF Min
<1>4. QED
  BY <1>3 DEF m

-----------------------------------------------------------------------------
(* Generators                                                              *)

\* What a generator is, taken out of the invariant.
LEMMA GenOf ==
  ASSUME GenInv, NEW g \in Gens
  PROVE  /\ gen[g] \in GenRecords /\ gen[g].job \in Jobs
         /\ JobOf(g) /\ ControlOf(g) /\ TimeOf(g) /\ RateOf(g) /\ SliceOf(g) /\ PaceOf(g)
BY DEF GenInv, GenRecords

\* The types of the constants, of its fields and of its job's.
LEMMA GenType ==
  ASSUME GenInv, NEW g \in Gens
  PROVE  /\ clock \in 0..MaxTime /\ clock \in Nat /\ MaxTime \in Nat /\ Second \in Nat
         /\ Burst \in Nat \ {0} /\ Capacity \in Nat /\ Burst < Capacity
         /\ gen \in [Gens -> GenRecords]
         /\ gen[g].limit \in Nat /\ gen[g].pos \in Nat /\ gen[g].sent \in Nat /\ gen[g].tokens \in Nat
         /\ gen[g].fill \in Nat /\ gen[g].born \in Nat /\ gen[g].start \in Nat
         /\ gen[g].epoch \in Nat /\ gen[g].wake \in Nat /\ gen[g].bufs \in Seq(Buffers)
         /\ gen[g].job.rate \in Nat /\ gen[g].job.batch \in Nat /\ gen[g].job.min_batch \in Nat
<1>1. gen[g] \in GenRecords /\ gen[g].job \in Jobs
  BY GenOf
<1>2. /\ gen[g].limit \in Nat /\ gen[g].pos \in Nat /\ gen[g].sent \in Nat /\ gen[g].tokens \in Nat
      /\ gen[g].fill \in Nat /\ gen[g].born \in Nat /\ gen[g].start \in Nat
      /\ gen[g].epoch \in Nat /\ gen[g].wake \in Nat /\ gen[g].bufs \in Seq(Buffers)
  BY <1>1 DEF GenRecords
<1>3. gen[g].job.rate \in Nat /\ gen[g].job.batch \in Nat /\ gen[g].job.min_batch \in Nat
  BY <1>1 DEF Jobs
<1>4. clock \in 0..MaxTime /\ gen \in [Gens -> GenRecords]
  BY DEF GenInv
<1>5. QED
  BY <1>2, <1>3, <1>4, GeneratorAssumption

\* A step of one generator: the others' part of the invariant stays.
LEMMA GenOthers ==
  ASSUME GenInv, NEW g \in Gens, NEW r \in GenRecords,
         gen' = [gen EXCEPT ![g] = r], clock' = clock, r.job = gen[g].job,
         \A h \in Gens \ {g} : act'[h].pc = "idle" <=> act[h].pc = "idle",
         ControlOf(g)', TimeOf(g)', RateOf(g)', SliceOf(g)', PaceOf(g)'
  PROVE  GenInv'
<1>1. gen \in [Gens -> GenRecords] /\ clock \in 0..MaxTime
  BY DEF GenInv
<1>2. gen' \in [Gens -> GenRecords] /\ clock' \in 0..MaxTime
  BY <1>1
<1>3. gen'[g] = r /\ \A h \in Gens \ {g} : gen'[h] = gen[h]
  BY <1>1
<1>4. JobOf(g)'
  BY <1>3, GenOf DEF JobOf
<1>5. ASSUME NEW h \in Gens \ {g}
      PROVE  (JobOf(h) /\ ControlOf(h) /\ TimeOf(h) /\ RateOf(h) /\ SliceOf(h) /\ PaceOf(h))'
  <2>1. JobOf(h) /\ ControlOf(h) /\ TimeOf(h) /\ RateOf(h) /\ SliceOf(h) /\ PaceOf(h)
    BY GenOf
  <2>2. gen'[h] = gen[h] /\ (act'[h].pc = "idle" <=> act[h].pc = "idle")
    BY <1>3
  <2>3. JobOf(h)' /\ ControlOf(h)' /\ TimeOf(h)'
    BY <2>1, <2>2 DEF JobOf, ControlOf, IsBench, Sends, TimeOf
  <2>4. RateOf(h)' /\ SliceOf(h)' /\ PaceOf(h)'
    BY <2>1, <2>2 DEF RateOf, SliceOf, IsBench, PaceOf
  <2>5. QED
    BY <2>3, <2>4
<1>6. QED
  BY <1>2, <1>4, <1>5 DEF GenInv

\* A step of no generator.
LEMMA GenStays ==
  ASSUME GenInv, UNCHANGED <<gen, clock>>,
         \A g \in Gens : act'[g].pc = "idle" <=> act[g].pc = "idle"
  PROVE  GenInv'
<1>1. ASSUME NEW h \in Gens
      PROVE  (JobOf(h) /\ ControlOf(h) /\ TimeOf(h) /\ RateOf(h) /\ SliceOf(h) /\ PaceOf(h))'
  <2>1. JobOf(h) /\ ControlOf(h) /\ TimeOf(h) /\ RateOf(h) /\ SliceOf(h) /\ PaceOf(h)
    BY GenOf
  <2>2. act'[h].pc = "idle" <=> act[h].pc = "idle"
    OBVIOUS
  <2>3. JobOf(h)' /\ ControlOf(h)' /\ TimeOf(h)'
    BY <2>1, <2>2 DEF JobOf, ControlOf, IsBench, Sends, TimeOf
  <2>4. RateOf(h)' /\ SliceOf(h)' /\ PaceOf(h)'
    BY <2>1, <2>2 DEF RateOf, SliceOf, IsBench, PaceOf
  <2>5. QED
    BY <2>3, <2>4
<1>2. QED
  BY <1>1 DEF GenInv

\* The buffers that the constructor takes: as many as it asks for, each once.
LEMMA AllocBulk ==
  ASSUME pool \subseteq Buffers, Burst <= Cardinality(pool)
  PROVE  /\ mbuf_alloc_bulk(Burst) \in Seq(pool) /\ Len(mbuf_alloc_bulk(Burst)) = Burst
         /\ \A i, j \in 1..Burst : mbuf_alloc_bulk(Burst)[i] = mbuf_alloc_bulk(Burst)[j] => i = j
<1>1. Burst \in Nat /\ PoolSize \in Nat
  BY GeneratorAssumption
<1>2. IsFiniteSet(pool)
  <2>1. IsFiniteSet(1..PoolSize)
    BY <1>1, FS_Interval
  <2>2. QED
    BY <2>1, FS_Subset DEF Buffers
<1> DEFINE n == Cardinality(pool)
           s == SetToSeq(pool)
<1>3. n \in Nat /\ ExistsBijection(1..n, pool)
  BY <1>2, FS_CardinalityType, FS_NatBijection
<1>4. s \in [1..n -> pool] /\ IsInjective(s)
  <2>1. \E f \in [1..n -> pool] : IsInjective(f)
    BY <1>3 DEF ExistsBijection, Bijection, Injection
  <2>2. QED
    BY <2>1 DEF SetToSeq
<1> HIDE DEF n, s
<1>5. s \in Seq(pool) /\ Len(s) = n
  BY <1>3, <1>4
<1> DEFINE bs == SubSeq(s, 1, Burst)
<1>6. bs \in Seq(pool) /\ Len(bs) = Burst /\ \A i \in 1..Burst : bs[i] = s[i]
  BY <1>1, <1>5 DEF n
<1>7. \A i, j \in 1..Burst : s[i] = s[j] => i = j
  BY <1>1, <1>3, <1>4 DEF IsInjective, n
<1>8. mbuf_alloc_bulk(Burst) = bs
  BY DEF mbuf_alloc_bulk, s
<1>9. QED
  BY <1>6, <1>7, <1>8

LEMMA ConstructGen ==
  ASSUME GenInv, pool \subseteq Buffers, NEW g \in Gens, Construct(g), UNCHANGED act
  PROVE  GenInv'
<1>1. CASE Cardinality(pool) < Burst
  BY <1>1, GenStays DEF Construct
<1>2. CASE ~(Cardinality(pool) < Burst)
  <2> DEFINE bs == mbuf_alloc_bulk(Burst)
             r == [gen[g] EXCEPT !.pc = "ready", !.bufs = bs, !.tokens = Capacity,
                                 !.fill = clock, !.born = clock]
  <2>1. gen[g] \in GenRecords /\ ControlOf(g) /\ TimeOf(g) /\ SliceOf(g)
    BY GenOf
  <2>2. clock \in Nat /\ Capacity \in Nat \ {0} /\ Burst \in Nat \ {0} /\ gen \in [Gens -> GenRecords]
    BY GeneratorAssumption DEF GenInv
  <2>3. bs \in Seq(Buffers) /\ bs # <<>>
    <3>1. Cardinality(pool) \in Nat
      <4>1. IsFiniteSet(1..PoolSize)
        BY GeneratorAssumption, FS_Interval
      <4>2. QED
        BY <4>1, FS_Subset, FS_CardinalityType DEF Buffers
    <3>2. bs \in Seq(pool) /\ Len(bs) = Burst
      BY <1>2, <2>2, <3>1, AllocBulk
    <3> HIDE DEF bs
    <3>3. bs \in Seq(Buffers)
      BY <3>2
    <3>4. QED
      BY <2>2, <3>2, <3>3
  <2>4. gen' = [gen EXCEPT ![g] = r] /\ gen'[g] = r
    BY <1>2, <2>2 DEF Construct
  <2>5. gen[g].pc = "new" /\ Sends(g) /\ UNCHANGED clock
    BY DEF Construct, At
  <2> HIDE DEF bs
  <2>6. /\ r \in GenRecords /\ r.job = gen[g].job /\ r.pc = "ready" /\ r.bufs = bs
        /\ r.tokens = Capacity /\ r.fill = clock /\ r.born = clock /\ r.pos = gen[g].pos
        /\ r.sent = gen[g].sent /\ r.limit = gen[g].limit
        /\ r.start = gen[g].start /\ r.epoch = gen[g].epoch
    BY <2>1, <2>2, <2>3 DEF GenRecords, GenPcs
  <2> HIDE DEF r
  <2>7. gen[g].sent = 0 /\ gen[g].pos = 0
    BY <2>1, <2>5 DEF ControlOf
  <2>8. ControlOf(g)'
    BY <2>1, <2>3, <2>4, <2>5, <2>6, <2>7 DEF ControlOf, IsBench, Sends
  <2>9. TimeOf(g)'
    BY <2>1, <2>2, <2>4, <2>5, <2>6 DEF TimeOf
  <2>10. RateOf(g)'
    <3>1. gen[g].job.rate \in Nat
      BY <2>1 DEF GenRecords, Jobs
    <3>2. clock - clock = 0 /\ gen[g].job.rate * 0 = 0
      BY <2>2, <3>1
    <3>3. QED
      BY <2>2, <2>4, <2>5, <2>6, <2>7, <3>2 DEF RateOf
  <2>11. SliceOf(g)'
    BY <2>1, <2>4, <2>5, <2>6, <2>7 DEF SliceOf, IsBench
  <2>12. PaceOf(g)'
    BY <2>4, <2>6 DEF PaceOf
  <2>13. QED
    BY <2>4, <2>5, <2>6, <2>8, <2>9, <2>10, <2>11, <2>12, GenOthers
<1>3. QED
  BY <1>1, <1>2

LEMMA ConstructPacerGen ==
  ASSUME GenInv, NEW g \in Gens, ConstructPacer(g), UNCHANGED act
  PROVE  GenInv'
<1>1. CASE gen[g].job.min_batch = 0
  BY <1>1, GenStays DEF ConstructPacer
<1>2. CASE gen[g].job.min_batch # 0
  <2> DEFINE l == gen[g].job.batch * (Span \div gen[g].job.min_batch)
             r == [gen[g] EXCEPT !.pc = "ready", !.start = clock, !.epoch = clock, !.limit = l]
  <2>1. /\ gen[g] \in GenRecords /\ gen[g].job \in Jobs
        /\ ControlOf(g) /\ TimeOf(g) /\ RateOf(g) /\ SliceOf(g)
    BY GenOf
  <2>2. clock \in Nat /\ Span \in Nat \ {0} /\ Burst \in Nat \ {0} /\ gen \in [Gens -> GenRecords]
    BY GeneratorAssumption DEF GenInv
  <2>3. l \in Nat
    <3>1. gen[g].job.batch \in Nat /\ gen[g].job.min_batch \in Nat \ {0}
      BY <1>2, <2>1 DEF Jobs
    <3>2. Span \div gen[g].job.min_batch \in Nat
      BY <2>2, <3>1
    <3>3. QED
      BY <3>1, <3>2
  <2>4. gen' = [gen EXCEPT ![g] = r] /\ gen'[g] = r
    BY <1>2, <2>2 DEF ConstructPacer
  <2>5. gen[g].pc = "new" /\ ~Sends(g) /\ UNCHANGED clock
    BY DEF ConstructPacer, At
  <2> HIDE DEF l
  <2>6. /\ r \in GenRecords /\ r.job = gen[g].job /\ r.pc = "ready" /\ r.bufs = gen[g].bufs
        /\ r.tokens = gen[g].tokens /\ r.fill = gen[g].fill /\ r.born = gen[g].born
        /\ r.pos = gen[g].pos /\ r.sent = gen[g].sent /\ r.limit = l
        /\ r.start = clock /\ r.epoch = clock
    BY <2>1, <2>2, <2>3 DEF GenRecords, GenPcs
  <2> HIDE DEF r
  <2>7. gen[g].sent = 0 /\ gen[g].pos = 0 /\ gen[g].bufs = <<>>
    BY <2>1, <2>5 DEF ControlOf
  <2>8. ControlOf(g)'
    BY <2>1, <2>4, <2>5, <2>6 DEF ControlOf, IsBench, Sends
  <2>9. TimeOf(g)'
    BY <2>1, <2>2, <2>4, <2>5, <2>6 DEF TimeOf
  <2>10. RateOf(g)'
    BY <2>4, <2>6, <2>7 DEF RateOf
  <2>11. SliceOf(g)'
    BY <2>1, <2>2, <2>3, <2>4, <2>5, <2>6, <2>7 DEF SliceOf, IsBench, Sends
  <2>12. PaceOf(g)'
    BY <2>4, <2>6 DEF PaceOf
  <2>13. QED
    BY <2>4, <2>5, <2>6, <2>8, <2>9, <2>10, <2>11, <2>12, GenOthers
<1>3. QED
  BY <1>1, <1>2

LEMMA BeginGen ==
  ASSUME GenInv, NEW g \in Gens, Begin(g), UNCHANGED act
  PROVE  GenInv'
<1> DEFINE r == IF Sends(g)
                  THEN [gen[g] EXCEPT !.pc = "test", !.start = clock, !.epoch = clock]
                  ELSE [gen[g] EXCEPT !.pc = "test"]
<1>1. /\ gen[g] \in GenRecords /\ gen[g].job \in Jobs
      /\ ControlOf(g) /\ TimeOf(g) /\ RateOf(g) /\ SliceOf(g)
  BY GenOf
<1>2. clock \in Nat /\ gen \in [Gens -> GenRecords]
  BY GeneratorAssumption DEF GenInv
<1>3. gen' = [gen EXCEPT ![g] = r] /\ gen'[g] = r
  BY <1>2 DEF Begin
<1>4. gen[g].pc = "ready" /\ UNCHANGED clock
  BY DEF Begin, At
<1>5. /\ r \in GenRecords /\ r.job = gen[g].job /\ r.pc = "test" /\ r.bufs = gen[g].bufs
      /\ r.tokens = gen[g].tokens /\ r.fill = gen[g].fill /\ r.born = gen[g].born
      /\ r.pos = gen[g].pos /\ r.sent = gen[g].sent /\ r.limit = gen[g].limit
      /\ r.start \in Nat /\ r.epoch \in Nat /\ r.start <= r.epoch /\ r.epoch <= clock
  <2>1. gen[g].start \in Nat /\ gen[g].epoch \in Nat
    BY <1>1 DEF GenRecords
  <2>2. gen[g].start <= gen[g].epoch /\ gen[g].epoch <= clock
    BY <1>1 DEF TimeOf
  <2>3. CASE Sends(g)
    <3> DEFINE q == [gen[g] EXCEPT !.pc = "test", !.start = clock, !.epoch = clock]
    <3>1. /\ q \in GenRecords /\ q.job = gen[g].job /\ q.pc = "test" /\ q.bufs = gen[g].bufs
          /\ q.tokens = gen[g].tokens /\ q.fill = gen[g].fill /\ q.born = gen[g].born
          /\ q.pos = gen[g].pos /\ q.sent = gen[g].sent /\ q.limit = gen[g].limit
          /\ q.start = clock /\ q.epoch = clock
      BY <1>1, <1>2 DEF GenRecords, GenPcs
    <3>2. r = q
      BY <2>3
    <3> HIDE DEF q, r
    <3>3. QED
      BY <1>2, <3>1, <3>2
  <2>4. CASE ~Sends(g)
    BY <1>1, <2>1, <2>2, <2>4 DEF GenRecords, GenPcs
  <2>5. QED
    BY <2>3, <2>4
<1> HIDE DEF r
<1>6. gen[g].sent = 0
  BY <1>1, <1>4 DEF ControlOf
<1>7. ControlOf(g)'
  BY <1>1, <1>3, <1>4, <1>5 DEF ControlOf, IsBench, Sends
<1>8. TimeOf(g)'
  BY <1>1, <1>2, <1>3, <1>4, <1>5 DEF TimeOf
<1>9. RateOf(g)'
  BY <1>1, <1>3, <1>4, <1>5 DEF RateOf
<1>10. SliceOf(g)'
  BY <1>1, <1>3, <1>4, <1>5 DEF SliceOf, IsBench
<1>11. PaceOf(g)'
  <2>1. SUFFICES ASSUME gen[g].job.batch > 0
                 PROVE  r.epoch - r.start >= (0 \div gen[g].job.batch) * gen[g].job.min_batch
    BY <1>3, <1>5, <1>6 DEF PaceOf
  <2>2. gen[g].job.batch \in Nat \ {0} /\ gen[g].job.min_batch \in Nat
    BY <1>1, <2>1 DEF Jobs
  <2>3. 0 \div gen[g].job.batch = 0
    BY <2>2
  <2>4. QED
    BY <1>5, <2>2, <2>3
<1>12. QED
  BY <1>3, <1>4, <1>5, <1>7, <1>8, <1>9, <1>10, <1>11, GenOthers

LEMMA TestGen ==
  ASSUME GenInv, NEW g \in Gens, Test(g), UNCHANGED act
  PROVE  GenInv'
<1>1. /\ gen[g] \in GenRecords /\ gen[g].job \in Jobs
      /\ ControlOf(g) /\ TimeOf(g) /\ RateOf(g) /\ SliceOf(g) /\ PaceOf(g)
  BY GenOf
<1>2. PICK pc \in {"fill", "done"} :
        /\ gen' = [gen EXCEPT ![g].pc = pc]
        /\ pc = "fill" => gen[g].sent < gen[g].limit
  BY DEF Test
<1> DEFINE r == [gen[g] EXCEPT !.pc = pc]
<1>3. gen' = [gen EXCEPT ![g] = r] /\ gen'[g] = r
  BY <1>2 DEF GenInv
<1>4. gen[g].pc = "test" /\ UNCHANGED clock
  BY DEF Test, At
<1>5. /\ r \in GenRecords /\ r.job = gen[g].job /\ r.pc = pc /\ r.bufs = gen[g].bufs
      /\ r.tokens = gen[g].tokens /\ r.fill = gen[g].fill /\ r.born = gen[g].born
      /\ r.pos = gen[g].pos /\ r.sent = gen[g].sent /\ r.limit = gen[g].limit
      /\ r.start = gen[g].start /\ r.epoch = gen[g].epoch
  BY <1>1 DEF GenRecords, GenPcs
<1> HIDE DEF r
<1>6. ControlOf(g)'
  BY <1>1, <1>3, <1>4, <1>5 DEF ControlOf, IsBench, Sends
<1>7. TimeOf(g)' /\ RateOf(g)'
  BY <1>1, <1>3, <1>4, <1>5 DEF TimeOf, RateOf
<1>8. SliceOf(g)'
  BY <1>1, <1>2, <1>3, <1>4, <1>5 DEF SliceOf, IsBench
<1>9. PaceOf(g)'
  BY <1>1, <1>3, <1>4, <1>5 DEF PaceOf
<1>10. QED
  BY <1>3, <1>4, <1>5, <1>6, <1>7, <1>8, <1>9, GenOthers

LEMMA PaceGen ==
  ASSUME GenInv, NEW g \in Gens, Pace(g) \/ Wake(g), UNCHANGED act
  PROVE  GenInv'
<1> DEFINE left == gen[g].job.min_batch - (clock - gen[g].epoch)
           r1 == [gen[g] EXCEPT !.pc = "sleep", !.wake = clock + left]
           r2 == [gen[g] EXCEPT !.pc = "test", !.epoch = clock]
<1>1. /\ gen[g] \in GenRecords /\ gen[g].job \in Jobs
      /\ ControlOf(g) /\ TimeOf(g) /\ RateOf(g) /\ SliceOf(g) /\ PaceOf(g)
  BY GenOf
<1>2. /\ clock \in Nat /\ MaxTime \in Nat /\ Second \in Nat /\ gen \in [Gens -> GenRecords]
      /\ gen[g].job.min_batch \in Nat /\ gen[g].job.batch \in Nat
      /\ gen[g].epoch \in Nat /\ gen[g].start \in Nat /\ gen[g].sent \in Nat /\ gen[g].wake \in Nat
      /\ gen[g].start <= gen[g].epoch /\ gen[g].epoch <= clock
  BY <1>1, GenType DEF TimeOf
<1>3. left \in Int /\ left <= gen[g].job.min_batch /\ clock + left = gen[g].epoch + gen[g].job.min_batch
  BY <1>2
<1>4. gen[g].pc \in {"pace", "sleep"} /\ UNCHANGED clock
  BY DEF Pace, Wake, At
<1> DEFINE q == gen[g].sent \div gen[g].job.batch
           b == gen[g].job.min_batch
<1>5. CASE Pace(g) /\ left > 0 /\ left < Second
  <2>1. gen' = [gen EXCEPT ![g] = r1] /\ gen'[g] = r1
    BY <1>2, <1>5 DEF Pace
  <2>2. /\ r1 \in GenRecords /\ r1.job = gen[g].job /\ r1.pc = "sleep" /\ r1.bufs = gen[g].bufs
        /\ r1.tokens = gen[g].tokens /\ r1.fill = gen[g].fill /\ r1.born = gen[g].born
        /\ r1.pos = gen[g].pos /\ r1.sent = gen[g].sent /\ r1.limit = gen[g].limit
        /\ r1.start = gen[g].start /\ r1.epoch = gen[g].epoch
        /\ r1.wake = gen[g].epoch + gen[g].job.min_batch
    <3>1. clock + left \in Nat
      BY <1>2, <1>3
    <3> HIDE DEF left
    <3>2. QED
      BY <1>1, <1>3, <3>1 DEF GenRecords, GenPcs
  <2>3. gen[g].pc = "pace"
    BY <1>5 DEF Pace, At
  <2> HIDE DEF r1
  <2>4. ControlOf(g)'
    BY <1>1, <2>1, <2>2, <2>3 DEF ControlOf, IsBench, Sends
  <2>5. TimeOf(g)' /\ RateOf(g)'
    BY <1>1, <1>4, <2>1, <2>2 DEF TimeOf, RateOf
  <2>6. SliceOf(g)'
    BY <1>1, <2>1, <2>2, <2>3 DEF SliceOf, IsBench
  <2>7. PaceOf(g)'
    <3>1. gen[g].epoch + b >= gen[g].epoch + b
      BY <1>2
    <3>2. QED
      BY <1>1, <1>4, <2>1, <2>2, <2>3, <3>1 DEF PaceOf
  <2>8. QED
    BY <1>4, <2>1, <2>2, <2>4, <2>5, <2>6, <2>7, GenOthers
<1>6. CASE Wake(g) \/ ~(left > 0 /\ left < Second)
  <2>1. gen' = [gen EXCEPT ![g] = r2] /\ gen'[g] = r2
    BY <1>2, <1>6 DEF Pace, Wake
  <2>2. /\ r2 \in GenRecords /\ r2.job = gen[g].job /\ r2.pc = "test" /\ r2.bufs = gen[g].bufs
        /\ r2.tokens = gen[g].tokens /\ r2.fill = gen[g].fill /\ r2.born = gen[g].born
        /\ r2.pos = gen[g].pos /\ r2.sent = gen[g].sent /\ r2.limit = gen[g].limit
        /\ r2.start = gen[g].start /\ r2.epoch = clock
    BY <1>1, <1>2 DEF GenRecords, GenPcs
  <2> HIDE DEF r2
  <2>4. ControlOf(g)'
    BY <1>1, <1>4, <2>1, <2>2 DEF ControlOf, IsBench, Sends
  <2>5. TimeOf(g)' /\ RateOf(g)'
    BY <1>1, <1>2, <1>4, <2>1, <2>2 DEF TimeOf, RateOf
  <2>6. SliceOf(g)'
    BY <1>1, <1>4, <2>1, <2>2 DEF SliceOf, IsBench
  <2>7. PaceOf(g)'
    <3>1. SUFFICES ASSUME b > 0, b < Second, gen[g].job.batch > 0, clock # MaxTime
                   PROVE  clock - gen[g].start >= q * b
      BY <1>4, <2>1, <2>2 DEF PaceOf
    <3>2. q \in Nat
      BY <1>2, <3>1
    <3>3. q >= 1 /\ gen[g].epoch - gen[g].start >= (q - 1) * b
      BY <1>1, <1>4, <3>1 DEF PaceOf
    <3>4. clock >= gen[g].epoch + b
      <4>1. CASE Wake(g)
        <5>1. clock >= gen[g].wake /\ gen[g].pc = "sleep"
          BY <3>1, <4>1 DEF Wake, At
        <5>2. gen[g].wake >= gen[g].epoch + b
          BY <1>1, <3>1, <5>1 DEF PaceOf
        <5>3. QED
          BY <1>2, <5>1, <5>2
      <4>2. CASE ~(left > 0 /\ left < Second)
        <5>1. left <= 0
          BY <1>2, <1>3, <3>1, <4>2
        <5>2. QED
          BY <1>2, <5>1
      <4>3. QED
        BY <1>6, <4>1, <4>2
    <3> HIDE DEF q, b
    <3>5. (q - 1) * b = q * b - b /\ q * b \in Nat /\ b \in Nat
      BY <1>2, <3>2 DEF b
    <3>6. QED
      BY <1>2, <3>3, <3>4, <3>5
  <2>8. QED
    BY <1>4, <2>1, <2>2, <2>4, <2>5, <2>6, <2>7, GenOthers
<1>7. QED
  BY <1>5, <1>6

\* The end of a turn of the loop: n packets sent, or one query.
LEMMA SentGen ==
  ASSUME GenInv, NEW g \in Gens, NEW n \in 0..Burst, gen' = Sent(g, n), clock' = clock,
         gen[g].pc \in {"fill", "send", "insert"}, act'[g].pc = "idle",
         \A h \in Gens \ {g} : act'[h].pc = "idle" <=> act[h].pc = "idle",
         IsBench(g) => n = Burst /\ gen[g].pc = "insert",
         gen[g].job.min_batch > 0 => n > 0 /\ gen[g].sent % n = 0 /\ gen[g].job.batch % n = 0
  PROVE  GenInv'
<1> DEFINE total == gen[g].sent + n
           paced == gen[g].job.min_batch > 0 /\ gen[g].job.batch > 0 /\ total % gen[g].job.batch = 0
           pc == IF paced THEN "pace" ELSE "test"
           r == [gen[g] EXCEPT !.sent = total, !.pc = pc]
<1>1. /\ gen[g] \in GenRecords /\ gen[g].job \in Jobs
      /\ ControlOf(g) /\ TimeOf(g) /\ RateOf(g) /\ SliceOf(g) /\ PaceOf(g)
  BY GenOf
<1>2. /\ clock \in Nat /\ Burst \in Nat \ {0} /\ gen \in [Gens -> GenRecords]
      /\ gen[g].job.min_batch \in Nat /\ gen[g].job.batch \in Nat
      /\ gen[g].epoch \in Nat /\ gen[g].start \in Nat /\ gen[g].sent \in Nat
      /\ gen[g].pos \in Nat /\ gen[g].limit \in Nat
  BY GenType
<1>3. gen' = [gen EXCEPT ![g] = r] /\ gen'[g] = r
  BY <1>2 DEF Sent
<1>4. total \in Nat /\ pc \in {"pace", "test"} /\ (pc = "pace" <=> paced)
  BY <1>2
<1> HIDE DEF total, pc
<1>5. /\ r \in GenRecords /\ r.job = gen[g].job /\ r.pc = pc /\ r.bufs = gen[g].bufs
      /\ r.tokens = gen[g].tokens /\ r.fill = gen[g].fill /\ r.born = gen[g].born
      /\ r.pos = gen[g].pos /\ r.sent = total /\ r.limit = gen[g].limit
      /\ r.start = gen[g].start /\ r.epoch = gen[g].epoch
  BY <1>1, <1>4 DEF GenRecords, GenPcs
<1> HIDE DEF r, paced
<1>6. ControlOf(g)'
  BY <1>1, <1>3, <1>4, <1>5 DEF ControlOf, IsBench, Sends
<1>7. TimeOf(g)' /\ RateOf(g)'
  BY <1>1, <1>3, <1>5 DEF TimeOf, RateOf
<1>8. SliceOf(g)'
  <2>1. total = gen[g].sent + n
    BY DEF total
  <2>2. total < gen[g].limit + Burst
    BY <1>1, <1>2, <2>1 DEF SliceOf
  <2>3. ASSUME IsBench(g)
        PROVE  total % Burst = 0 /\ gen[g].pos = total
    <3>1. gen[g].sent % Burst = 0 /\ gen[g].pos = gen[g].sent + Burst
      BY <1>1, <2>3 DEF SliceOf
    <3>2. QED
      BY <1>2, <2>1, <2>3, <3>1, AddBurst
  <2>4. QED
    BY <1>3, <1>4, <1>5, <2>2, <2>3 DEF SliceOf, IsBench
<1>9. PaceOf(g)'
  <2>1. CASE ~(gen[g].job.min_batch > 0 /\ gen[g].job.min_batch < Second /\ gen[g].job.batch > 0)
    BY <1>3, <1>5, <2>1 DEF PaceOf
  <2>2. CASE gen[g].job.min_batch > 0 /\ gen[g].job.min_batch < Second /\ gen[g].job.batch > 0
    <3> DEFINE q == gen[g].sent \div gen[g].job.batch
               p == total \div gen[g].job.batch
    <3>1. clock = MaxTime \/ gen[g].epoch - gen[g].start >= q * gen[g].job.min_batch
      BY <1>1, <2>2 DEF PaceOf
    <3>2. q \in Nat
      BY <1>2, <2>2
    <3>3. n \in Nat \ {0} /\ gen[g].job.batch \in Nat \ {0}
      BY <1>2, <2>2
    <3>4. /\ total % gen[g].job.batch = 0 => p = q + 1
          /\ total % gen[g].job.batch # 0 => p = q
      <4>1. gen[g].sent % n = 0 /\ gen[g].job.batch % n = 0 /\ total = gen[g].sent + n
        BY <2>2 DEF total
      <4> DEFINE m == gen[g].sent
                 b == gen[g].job.batch
      <4>2. m \in Nat /\ b \in Nat \ {0} /\ m % n = 0 /\ b % n = 0
        BY <1>2, <3>3, <4>1
      <4> HIDE DEF m, b
      <4>3. /\ (m + n) % b = 0 => (m + n) \div b = (m \div b) + 1
            /\ (m + n) % b # 0 => (m + n) \div b = m \div b
        BY <3>3, <4>2, BatchStep
      <4>4. QED
        BY <4>1, <4>3 DEF m, b
    <3> HIDE DEF p, q
    <3>5. CASE paced
      <4>1. p = q + 1 /\ total % gen[g].job.batch = 0 /\ pc = "pace" /\ q = p - 1 /\ p >= 1
        BY <1>4, <3>2, <3>4, <3>5 DEF paced
      <4>2. clock = MaxTime \/ gen[g].epoch - gen[g].start >= (p - 1) * gen[g].job.min_batch
        BY <3>1, <4>1
      <4>3. QED
        BY <1>3, <1>5, <4>1, <4>2 DEF PaceOf, p
    <3>6. CASE ~paced
      <4>1. p = q /\ pc = "test"
        BY <1>4, <2>2, <3>4, <3>6 DEF paced
      <4>2. QED
        BY <1>3, <1>5, <3>1, <4>1 DEF PaceOf, p
    <3>7. QED
      BY <3>5, <3>6
  <2>3. QED
    BY <2>1, <2>2
<1>10. QED
  BY <1>3, <1>5, <1>6, <1>7, <1>8, <1>9, GenOthers

\* The bucket: what consume() leaves in it, and what it lets through.
LEMMA Consumed ==
  ASSUME GenInv, NEW g \in Gens, gen[g].bufs # <<>>
  PROVE  LET c == consume(gen[g])
         IN  /\ c.r \in GenRecords /\ c.ok \in BOOLEAN
             /\ c.r = [gen[g] EXCEPT !.tokens = c.r.tokens, !.fill = clock]
             /\ c.r.tokens \in 1..Capacity
             /\ clock < MaxTime =>
                  (IF c.ok THEN Burst ELSE 0) + c.r.tokens
                    <= gen[g].tokens + gen[g].job.rate * (clock - gen[g].fill)
<1> DEFINE r == gen[g]
           x == r.job.rate * (clock - r.fill)
           available == Available(r)
           tokens == IF Burst < available THEN available - Burst ELSE available
           n == [r EXCEPT !.tokens = tokens, !.fill = clock]
<1>1. r \in GenRecords /\ r.tokens \in 1..Capacity /\ r.fill <= clock
  BY GenOf DEF RateOf, TimeOf
<1>2. /\ clock \in Nat /\ Capacity \in Nat /\ Burst \in Nat \ {0} /\ r.tokens \in Nat
      /\ r.fill \in Nat /\ r.job.rate \in Nat /\ Burst < Capacity
  BY GenType
<1>3. x \in Nat
  <2> DEFINE d == clock - r.fill
             q == r.job.rate
  <2>1. d \in Nat /\ q \in Nat
    BY <1>1, <1>2
  <2> HIDE DEF d, q
  <2>2. q * d \in Nat
    BY <2>1
  <2>3. QED
    BY <2>2 DEF d, q
<1>4. available \in 1..Capacity /\ (clock < MaxTime => available <= r.tokens + x)
  <2>1. CASE clock = MaxTime
    BY <1>2, <2>1 DEF Available
  <2>2. CASE clock # MaxTime
    <3>1. available = Min({Capacity, r.tokens + x})
      BY <2>2 DEF Available
    <3> HIDE DEF x, available, r
    <3>2. r.tokens + x \in Int /\ Capacity \in Int
      BY <1>2, <1>3
    <3>3. available = IF Capacity <= r.tokens + x THEN Capacity ELSE r.tokens + x
      BY <3>1, <3>2, MinPair
    <3>4. QED
      BY <1>1, <1>2, <1>3, <3>3
  <2>3. QED
    BY <2>1, <2>2
<1>5. consume(r) = [ok |-> Burst < available, r |-> n]
  <2>1. CASE Burst < available
    BY <2>1 DEF consume
  <2>2. CASE ~(Burst < available)
    <3>1. consume(r) = [ok |-> FALSE, r |-> [r EXCEPT !.tokens = available, !.fill = clock]]
      BY <2>2 DEF consume
    <3>2. (Burst < available) = FALSE /\ tokens = available
      BY <2>2
    <3> HIDE DEF available
    <3>3. QED
      BY <3>1, <3>2
  <2>3. QED
    BY <2>1, <2>2
<1> HIDE DEF available, x
<1>6. /\ tokens \in 1..Capacity
      /\ clock < MaxTime => (IF Burst < available THEN Burst ELSE 0) + tokens <= r.tokens + x
  BY <1>2, <1>3, <1>4
<1> HIDE DEF tokens
<1>7. n \in GenRecords /\ n.tokens = tokens
  <2>1. tokens \in Nat
    BY <1>2, <1>6
  <2> HIDE DEF r
  <2>2. QED
    BY <1>1, <1>2, <2>1 DEF GenRecords
<1> DEFINE c == consume(r)
<1>8. c.ok = (Burst < available) /\ c.r = n
  BY <1>5
<1> HIDE DEF c, n
<1>9. n = [r EXCEPT !.tokens = n.tokens, !.fill = clock]
  BY <1>7 DEF n
<1> HIDE DEF r
<1>10. /\ c.r \in GenRecords /\ c.ok \in BOOLEAN
       /\ c.r = [r EXCEPT !.tokens = c.r.tokens, !.fill = clock]
       /\ c.r.tokens \in 1..Capacity
       /\ clock < MaxTime => (IF c.ok THEN Burst ELSE 0) + c.r.tokens <= r.tokens + x
  <2> DEFINE k == Burst < available
  <2>1. c.ok \in BOOLEAN /\ (c.ok <=> Burst < available)
    <3>1. k \in BOOLEAN
      OBVIOUS
    <3>2. c.ok = k
      BY <1>8
    <3> HIDE DEF k
    <3>3. c.ok \in BOOLEAN /\ (c.ok <=> k)
      BY <3>1, <3>2
    <3>4. QED
      BY <3>3 DEF k
  <2>2. (IF c.ok THEN Burst ELSE 0) = IF Burst < available THEN Burst ELSE 0
    BY <2>1
  <2>3. n.tokens = tokens /\ n \in GenRecords
    BY <1>7
  <2>4. c.r \in GenRecords /\ c.r = [r EXCEPT !.tokens = c.r.tokens, !.fill = clock]
    BY <1>8, <1>9, <2>3
  <2>5. c.r.tokens = tokens
    BY <1>8, <2>3
  <2>6. QED
    BY <1>6, <2>1, <2>2, <2>4, <2>5
<1>11. QED
  BY <1>10 DEF c, r, x

LEMMA FillGen ==
  ASSUME GenInv, NEW g \in Gens, Fill(g), UNCHANGED act
  PROVE  GenInv'
<1> DEFINE c == IF gen[g].job.rate = 0 THEN [ok |-> TRUE, r |-> gen[g]] ELSE consume(gen[g])
<1>1. /\ gen[g] \in GenRecords
      /\ JobOf(g) /\ ControlOf(g) /\ TimeOf(g) /\ RateOf(g) /\ SliceOf(g) /\ PaceOf(g)
  BY GenOf
<1>2. /\ clock \in Nat /\ Capacity \in Nat /\ Burst \in Nat \ {0} /\ gen[g].tokens \in Nat
      /\ gen[g].fill \in Nat /\ gen[g].job.rate \in Nat /\ gen[g].pos \in Nat
      /\ gen[g].born \in Nat /\ gen[g].sent \in Nat /\ gen \in [Gens -> GenRecords]
  BY GenType
<1>3. gen[g].pc = "fill" /\ Sends(g) /\ UNCHANGED clock
  BY DEF Fill, At
<1>4. gen[g].bufs # <<>> /\ gen[g].tokens \in 1..Capacity
  BY <1>1, <1>3 DEF ControlOf, RateOf
<1>5. /\ c.r \in GenRecords /\ c.ok \in BOOLEAN
      /\ c.r.job = gen[g].job /\ c.r.bufs = gen[g].bufs /\ c.r.born = gen[g].born
      /\ c.r.pos = gen[g].pos /\ c.r.sent = gen[g].sent /\ c.r.limit = gen[g].limit
      /\ c.r.start = gen[g].start /\ c.r.epoch = gen[g].epoch
      /\ c.r.tokens \in 1..Capacity
      /\ c.r.fill = IF gen[g].job.rate = 0 THEN gen[g].fill ELSE clock
      /\ gen[g].job.rate > 0 /\ clock < MaxTime =>
           (IF c.ok THEN Burst ELSE 0) + c.r.tokens
              <= gen[g].tokens + gen[g].job.rate * (clock - gen[g].fill)
  <2>1. CASE gen[g].job.rate = 0
    BY <1>1, <1>4, <2>1
  <2>2. CASE gen[g].job.rate # 0
    <3> DEFINE k == consume(gen[g])
    <3>1. /\ k.r \in GenRecords /\ k.ok \in BOOLEAN
          /\ k.r = [gen[g] EXCEPT !.tokens = k.r.tokens, !.fill = clock]
          /\ k.r.tokens \in 1..Capacity
          /\ clock < MaxTime =>
               (IF k.ok THEN Burst ELSE 0) + k.r.tokens
                 <= gen[g].tokens + gen[g].job.rate * (clock - gen[g].fill)
      BY <1>4, Consumed
    <3>2. c = k
      BY <2>2
    <3> HIDE DEF c, k
    <3>3. /\ k.r.job = gen[g].job /\ k.r.bufs = gen[g].bufs /\ k.r.born = gen[g].born
          /\ k.r.pos = gen[g].pos /\ k.r.sent = gen[g].sent /\ k.r.limit = gen[g].limit
          /\ k.r.start = gen[g].start /\ k.r.epoch = gen[g].epoch /\ k.r.fill = clock
      BY <1>1, <3>1 DEF GenRecords
    <3>4. QED
      BY <2>2, <3>1, <3>2, <3>3
  <2>3. QED
    BY <2>1, <2>2
<1>6. gen' = [gen EXCEPT ![g] = IF c.ok THEN [c.r EXCEPT !.pc = "send", !.pos = gen[g].pos + Burst]
                                        ELSE [c.r EXCEPT !.pc = "test"]]
  BY DEF Fill
<1> HIDE DEF c
<1> DEFINE r == IF c.ok THEN [c.r EXCEPT !.pc = "send", !.pos = gen[g].pos + Burst]
                        ELSE [c.r EXCEPT !.pc = "test"]
<1>7. gen' = [gen EXCEPT ![g] = r] /\ gen'[g] = r
  BY <1>2, <1>6
<1>8. /\ r \in GenRecords /\ r.job = gen[g].job /\ r.bufs = gen[g].bufs
      /\ r.pc = (IF c.ok THEN "send" ELSE "test")
      /\ r.pos = (IF c.ok THEN gen[g].pos + Burst ELSE gen[g].pos)
      /\ r.tokens = c.r.tokens /\ r.fill = c.r.fill /\ r.born = gen[g].born
      /\ r.sent = gen[g].sent /\ r.limit = gen[g].limit
      /\ r.start = gen[g].start /\ r.epoch = gen[g].epoch
  <2>1. CASE c.ok
    <3> DEFINE p == gen[g].pos + Burst
    <3>1. p \in Nat
      BY <1>2
    <3>2. r = [c.r EXCEPT !.pc = "send", !.pos = p]
      BY <2>1
    <3> HIDE DEF p, r
    <3>3. /\ r \in GenRecords /\ r.job = c.r.job /\ r.bufs = c.r.bufs /\ r.pc = "send"
          /\ r.pos = p /\ r.tokens = c.r.tokens /\ r.fill = c.r.fill /\ r.born = c.r.born
          /\ r.sent = c.r.sent /\ r.limit = c.r.limit /\ r.start = c.r.start /\ r.epoch = c.r.epoch
      BY <1>5, <3>1, <3>2 DEF GenRecords, GenPcs
    <3>4. QED
      BY <1>5, <2>1, <3>3 DEF p
  <2>2. CASE ~c.ok
    BY <1>2, <1>5, <2>2 DEF GenRecords, GenPcs
  <2>3. QED
    BY <1>5, <2>1, <2>2
<1> HIDE DEF r
<1>9. ControlOf(g)'
  BY <1>1, <1>2, <1>3, <1>4, <1>7, <1>8 DEF ControlOf, IsBench, Sends
<1>10. TimeOf(g)'
  BY <1>1, <1>2, <1>3, <1>5, <1>7, <1>8 DEF TimeOf
<1>11. RateOf(g)'
  <2>1. c.r.tokens \in 1..Capacity
    BY <1>5
  <2>2. ASSUME gen[g].job.rate > 0, clock < MaxTime
        PROVE  r.pos + r.tokens <= Capacity + gen[g].job.rate * (r.fill - gen[g].born)
    <3> DEFINE old == gen[g].job.rate * (gen[g].fill - gen[g].born)
               now == gen[g].job.rate * (clock - gen[g].fill)
               all == gen[g].job.rate * (clock - gen[g].born)
    <3>1. gen[g].pos + gen[g].tokens <= Capacity + old
      BY <1>1, <1>4, <2>2 DEF RateOf
    <3>2. old \in Nat /\ now \in Nat /\ all = old + now
      BY <1>1, <1>2, RateSplit DEF TimeOf
    <3>3. (IF c.ok THEN Burst ELSE 0) + c.r.tokens <= gen[g].tokens + now
      BY <1>5, <2>2
    <3>4. r.pos = gen[g].pos + (IF c.ok THEN Burst ELSE 0)
      BY <1>2, <1>8
    <3>5. r.fill = clock
      BY <1>2, <1>5, <1>8, <2>2
    <3> HIDE DEF old, now, all
    <3>6. r.pos + r.tokens <= Capacity + all
      <4> DEFINE n == IF c.ok THEN Burst ELSE 0
      <4>1. n \in Nat /\ c.r.tokens \in Nat
        BY <1>2, <2>1
      <4> HIDE DEF n
      <4>2. n + c.r.tokens <= gen[g].tokens + now /\ r.pos = gen[g].pos + n
        BY <3>3, <3>4 DEF n
      <4>3. QED
        BY <1>2, <1>8, <3>1, <3>2, <4>1, <4>2
    <3>7. QED
      BY <3>5, <3>6 DEF all
  <2>3. QED
    BY <1>3, <1>7, <1>8, <2>1, <2>2 DEF RateOf
<1>12. SliceOf(g)'
  BY <1>1, <1>3, <1>7, <1>8 DEF SliceOf, IsBench
<1>13. PaceOf(g)'
  BY <1>1, <1>3, <1>7, <1>8 DEF PaceOf
<1>14. QED
  BY <1>3, <1>7, <1>8, <1>9, <1>10, <1>11, <1>12, <1>13, GenOthers

\* What an insert is, taken out of the invariant.
LEMMA ActOf ==
  ASSUME ActInv, NEW t \in Threads
  PROVE  ActRecord(t) /\ PlacesOf(t) /\ act = [u \in Threads |-> act[u]]
BY DEF ActInv

\* Generators and writers are different threads.
LEMMA ThreadKinds ==
  /\ \A g \in Gens : g \in Threads /\ g \notin Writers
  /\ \A w \in Writers : w \in Threads /\ w \notin Gens
BY PipelineAssumption DEF Threads, Writers

\* An insert's record with all its fields written out.
LEMMA InsertRecord ==
  ASSUME NEW q, DOMAIN q = {"pc", "pkts", "first", "next"}, NEW pc, NEW first, NEW next
  PROVE  [q EXCEPT !.pc = pc, !.first = first, !.next = next] =
           [pc |-> pc, pkts |-> q.pkts, first |-> first, next |-> next]
<1> DEFINE e == [q EXCEPT !.pc = pc, !.first = first, !.next = next]
           r == [pc |-> pc, pkts |-> q.pkts, first |-> first, next |-> next]
<1>1. e = [x \in {"pc", "pkts", "first", "next"} |-> e[x]]
  OBVIOUS
<1>2. r = [x \in {"pc", "pkts", "first", "next"} |-> r[x]]
  OBVIOUS
<1>3. e.pc = pc /\ e.pkts = q.pkts /\ e.first = first /\ e.next = next
  OBVIOUS
<1>4. r.pc = pc /\ r.pkts = q.pkts /\ r.first = first /\ r.next = next
  OBVIOUS
<1> HIDE DEF e, r
<1>5. e = r
  BY <1>1, <1>2, <1>3, <1>4
<1>6. QED
  BY <1>5 DEF e, r

LEMMA FirstRecord ==
  ASSUME NEW p
  PROVE  [Idle EXCEPT !.pc = "claim", !.pkts = p] =
           [pc |-> "claim", pkts |-> p, first |-> 0, next |-> 0]
<1> DEFINE e == [Idle EXCEPT !.pc = "claim", !.pkts = p]
           r == [pc |-> "claim", pkts |-> p, first |-> 0, next |-> 0]
<1>0. /\ DOMAIN Idle = {"pc", "pkts", "first", "next"}
      /\ Idle.first = 0 /\ Idle.next = 0
  BY DEF Idle
<1>1. e = [x \in {"pc", "pkts", "first", "next"} |-> e[x]]
  BY <1>0
<1>2. r = [x \in {"pc", "pkts", "first", "next"} |-> r[x]]
  OBVIOUS
<1>3. e.pc = "claim" /\ e.pkts = p /\ e.first = 0 /\ e.next = 0
  BY <1>0
<1>4. r.pc = "claim" /\ r.pkts = p /\ r.first = 0 /\ r.next = 0
  OBVIOUS
<1> HIDE DEF e, r
<1>5. e = r
  BY <1>1, <1>2, <1>3, <1>4
<1>6. QED
  BY <1>5 DEF e, r

\* The steps of an insert: what they do to the thread's own record.
LEMMA ClaimAct ==
  ASSUME ActInv, NEW t \in Threads, Claim(t)
  PROVE  /\ act' = [act EXCEPT ![t] = [pc |-> IF Len(act[t].pkts) = 0 THEN "end" ELSE "copy",
                                       pkts |-> act[t].pkts,
                                       first |-> Len(claimed[StoreOf(t)]), next |-> 1]]
         /\ \A u \in Threads : act'[u].pc = "idle" <=> act[u].pc = "idle"
<1> DEFINE places == [i \in 1..Len(act[t].pkts) |-> [pkt |-> act[t].pkts[i].pkt, got |-> NoPacket]]
           n == Len(act[t].pkts)
<1>1. ActRecord(t) /\ act = [u \in Threads |-> act[u]]
  BY ActOf
<1>2. act[t].pkts \in Seq({act[t].pkts[i] : i \in DOMAIN act[t].pkts})
  BY <1>1 DEF ActRecord, IsSeq
<1>3. n \in Nat
  BY <1>2, LenProperties
<1>4. places = <<>> <=> n = 0
  <2> HIDE DEF n
  <2>1. DOMAIN places = 1..n
    BY DEF n
  <2>2. DOMAIN <<>> = {}
    OBVIOUS
  <2>3. n = 0 => places = <<>>
    <3>1. ASSUME n = 0
          PROVE  places = <<>>
      <4>1. Len(act[t].pkts) = 0
        BY <3>1 DEF n
      <4>2. 1..0 = {}
        OBVIOUS
      <4>3. QED
        BY <4>1, <4>2
    <3>2. QED
      BY <3>1
  <2>4. n # 0 => 1 \in 1..n
    BY <1>3
  <2> HIDE DEF places
  <2>5. QED
    BY <2>1, <2>2, <2>3, <2>4
<1> DEFINE pc == IF places = <<>> THEN "end" ELSE "copy"
<1>5. /\ act[t].pc = "claim"
      /\ act' = [act EXCEPT ![t].pc = pc, ![t].first = Len(claimed[StoreOf(t)]), ![t].next = 1]
  BY DEF Claim
<1>6. pc = IF n = 0 THEN "end" ELSE "copy"
  BY <1>4
<1> HIDE DEF pc, places
<1> DEFINE r == [pc |-> pc, pkts |-> act[t].pkts, first |-> Len(claimed[StoreOf(t)]), next |-> 1]
<1> DEFINE e == [act[t] EXCEPT !.pc = pc, !.first = Len(claimed[StoreOf(t)]), !.next = 1]
<1>10. act' = [act EXCEPT ![t] = e]
  BY <1>1, <1>5
<1>11. e = r
  <2> DEFINE q == act[t]
             first == Len(claimed[StoreOf(t)])
  <2>1. DOMAIN q = {"pc", "pkts", "first", "next"}
    BY <1>1 DEF ActRecord
  <2> HIDE DEF q, first
  <2>2. [q EXCEPT !.pc = pc, !.first = first, !.next = 1] =
          [pc |-> pc, pkts |-> q.pkts, first |-> first, next |-> 1]
    BY <2>1, InsertRecord
  <2>3. QED
    BY <2>2 DEF q, first
<1>7. act' = [act EXCEPT ![t] = r]
  BY <1>10, <1>11
<1>8. \A u \in Threads : act'[u].pc = "idle" <=> act[u].pc = "idle"
  BY <1>1, <1>5, <1>6, <1>7
<1>9. QED
  BY <1>6, <1>7, <1>8

LEMMA CopyAct ==
  ASSUME ActInv, NEW t \in Threads, Copy(t)
  PROVE  /\ act' = [act EXCEPT ![t] =
                      [pc |-> IF act[t].next = Len(act[t].pkts) THEN "end" ELSE "copy",
                       pkts |-> act[t].pkts, first |-> act[t].first, next |-> act[t].next + 1]]
         /\ \A u \in Threads : act'[u].pc = "idle" <=> act[u].pc = "idle"
<1>1. ActRecord(t) /\ act = [u \in Threads |-> act[u]]
  BY ActOf
<1> DEFINE pc == IF act[t].next = Len(act[t].pkts) THEN "end" ELSE "copy"
           r == [pc |-> pc, pkts |-> act[t].pkts, first |-> act[t].first, next |-> act[t].next + 1]
<1>2. act[t].pc = "copy" /\ act' = [act EXCEPT ![t].next = act[t].next + 1, ![t].pc = pc]
  BY DEF Copy
<1>3. pc \in {"end", "copy"}
  OBVIOUS
<1> HIDE DEF pc
<1> DEFINE first == act[t].first
           next == act[t].next + 1
           e == [act[t] EXCEPT !.pc = pc, !.first = first, !.next = next]
           d == [act[t] EXCEPT !.next = next, !.pc = pc]
<1>7. act' = [act EXCEPT ![t] = d]
  BY <1>1, <1>2
<1>9. d = e
  BY <1>1 DEF ActRecord
<1>8. d = r
  <2> DEFINE q == act[t]
  <2>1. DOMAIN q = {"pc", "pkts", "first", "next"}
    BY <1>1 DEF ActRecord
  <2> HIDE DEF q, first, next
  <2>2. [q EXCEPT !.pc = pc, !.first = first, !.next = next] =
          [pc |-> pc, pkts |-> q.pkts, first |-> first, next |-> next]
    BY <2>1, InsertRecord
  <2>3. e = r
    BY <2>2 DEF q, first, next
  <2>4. QED
    BY <1>9, <2>3
<1>4. act' = [act EXCEPT ![t] = r]
  <2> HIDE DEF d, r
  <2> QED
    BY <1>7, <1>8
<1>5. \A u \in Threads : act'[u].pc = "idle" <=> act[u].pc = "idle"
  BY <1>1, <1>2, <1>3, <1>4
<1>6. QED
  BY <1>4, <1>5 DEF pc

LEMMA InsertGen ==
  ASSUME GenInv, ActInv, NEW t \in Threads, Insert(t)
  PROVE  GenInv'
<1>1. CASE Claim(t) \/ Copy(t)
  <2>1. \A u \in Threads : act'[u].pc = "idle" <=> act[u].pc = "idle"
    BY <1>1, ClaimAct, CopyAct
  <2>2. UNCHANGED <<gen, clock>>
    BY <1>1 DEF Claim, Copy, genVars
  <2>3. QED
    BY <2>1, <2>2, GenStays, ThreadKinds
<1>2. CASE Publish(t)
  <2>1. act = [u \in Threads |-> act[u]] /\ act' = [act EXCEPT ![t] = Idle] /\ clock' = clock
    BY <1>2, ActOf DEF Publish
  <2>2. act'[t].pc = "idle" /\ \A u \in Threads \ {t} : act'[u] = act[u]
    BY <2>1 DEF Idle
  <2>3. CASE t \in Gens
    <3>1. gen' = Sent(t, Burst) /\ act[t].pc = "end"
      BY <1>2, <2>3 DEF Publish
    <3>2. JobOf(t) /\ ControlOf(t) /\ SliceOf(t)
      BY <2>3, GenOf
    <3>3. gen[t].pc = "insert" /\ IsBench(t)
      BY <3>1, <3>2 DEF ControlOf
    <3>4. gen[t].job.min_batch > 0 => gen[t].sent % Burst = 0 /\ gen[t].job.batch % Burst = 0
      BY <3>2, <3>3 DEF JobOf, SliceOf, IsBench
    <3>5. \A h \in Gens \ {t} : act'[h] = act[h]
      BY <2>2, ThreadKinds
    <3>6. Burst \in 0..Burst /\ Burst > 0
      BY GeneratorAssumption
    <3>7. QED
      BY <2>1, <2>2, <2>3, <3>1, <3>3, <3>4, <3>5, <3>6, SentGen
  <2>4. CASE t \notin Gens
    <3>1. UNCHANGED <<gen, clock>>
      BY <1>2, <2>4 DEF Publish
    <3>2. \A g \in Gens : act'[g] = act[g]
      BY <2>2, <2>4, ThreadKinds
    <3>3. QED
      BY <3>1, <3>2, GenStays
  <2>5. QED
    BY <2>3, <2>4
<1>3. QED
  BY <1>1, <1>2 DEF Insert

LEMMA SendGen ==
  ASSUME GenInv, ActInv, RingInv, NEW g \in Gens, SendBench(g) \/ SendQuery(g) \/ SendRing(g)
  PROVE  GenInv'
<1>1. /\ gen[g] \in GenRecords
      /\ JobOf(g) /\ ControlOf(g) /\ TimeOf(g) /\ RateOf(g) /\ SliceOf(g) /\ PaceOf(g)
  BY GenOf
<1>2. gen \in [Gens -> GenRecords] /\ Burst \in Nat \ {0}
  BY GenType
<1>3. CASE SendBench(g)
  <2> DEFINE r == [gen[g] EXCEPT !.pc = "insert"]
             a == [Idle EXCEPT !.pc = "claim", !.pkts = Pointers(g, Burst)]
  <2>1. gen' = [gen EXCEPT ![g] = r] /\ gen'[g] = r
    BY <1>2, <1>3 DEF SendBench
  <2>2. gen[g].pc = "send" /\ IsBench(g) /\ UNCHANGED clock /\ act' = [act EXCEPT ![g] = a]
    BY <1>3 DEF SendBench, At, IsBench
  <2>3. act'[g].pc = "claim" /\ \A h \in Gens \ {g} : act'[h] = act[h]
    <3>1. act = [u \in Threads |-> act[u]]
      BY ActOf DEF ActInv
    <3>2. a.pc = "claim"
      BY DEF Idle
    <3>3. QED
      BY <2>2, <3>1, <3>2, ThreadKinds
  <2>4. /\ r \in GenRecords /\ r.job = gen[g].job /\ r.pc = "insert" /\ r.bufs = gen[g].bufs
        /\ r.tokens = gen[g].tokens /\ r.fill = gen[g].fill /\ r.born = gen[g].born
        /\ r.pos = gen[g].pos /\ r.sent = gen[g].sent /\ r.limit = gen[g].limit
        /\ r.start = gen[g].start /\ r.epoch = gen[g].epoch
    BY <1>1 DEF GenRecords, GenPcs
  <2> HIDE DEF r, a
  <2>5. ControlOf(g)'
    BY <1>1, <2>1, <2>2, <2>3, <2>4 DEF ControlOf, IsBench, Sends
  <2>6. TimeOf(g)' /\ RateOf(g)'
    BY <1>1, <2>1, <2>2, <2>4 DEF TimeOf, RateOf
  <2>7. SliceOf(g)'
    BY <1>1, <2>1, <2>2, <2>4 DEF SliceOf, IsBench
  <2>8. PaceOf(g)'
    BY <1>1, <2>1, <2>2, <2>4 DEF PaceOf
  <2>9. QED
    BY <2>1, <2>2, <2>3, <2>4, <2>5, <2>6, <2>7, <2>8, GenOthers
<1>4. CASE SendQuery(g)
  <2>1. gen[g].pc = "fill" /\ ~Sends(g) /\ gen' = Sent(g, 1) /\ UNCHANGED <<clock, act>>
    BY <1>4 DEF SendQuery, At
  <2>2. act[g].pc = "idle" /\ ~IsBench(g)
    BY <1>1, <2>1 DEF ControlOf, IsBench, Sends
  <2>3. gen[g].sent % 1 = 0 /\ gen[g].job.batch % 1 = 0
    BY GenType
  <2>4. 1 \in 0..Burst
    BY <1>2
  <2>5. QED
    BY <2>1, <2>2, <2>3, <2>4, SentGen
<1>5. CASE SendRing(g)
  <2> DEFINE n == Min({Burst, RingSize - Len(ring)})
  <2>1. gen[g].pc = "send" /\ gen[g].job.kind = "pktgen" /\ gen' = Sent(g, n) /\ UNCHANGED <<clock, act>>
    BY <1>5 DEF SendRing, At
  <2>2. act[g].pc = "idle" /\ ~IsBench(g) /\ gen[g].job.min_batch = 0
    BY <1>1, <2>1 DEF ControlOf, IsBench, JobOf
  <2>3. n \in 0..Burst
    <3>1. RingSize - Len(ring) \in Nat
      BY PipelineAssumption, LenProperties DEF RingInv, IsSeq
    <3>2. n = IF Burst <= RingSize - Len(ring) THEN Burst ELSE RingSize - Len(ring)
      BY <1>2, <3>1, MinPair
    <3>3. QED
      BY <1>2, <3>1, <3>2
  <2> HIDE DEF n
  <2>4. ~(gen[g].job.min_batch > 0)
    BY <2>2
  <2>5. QED
    BY <2>1, <2>2, <2>3, <2>4, SentGen
<1>6. QED
  BY <1>3, <1>4, <1>5

\* Time passes.
LEMMA TickGen ==
  ASSUME GenInv, Tick, UNCHANGED act
  PROVE  GenInv'
<1>1. clock \in 0..MaxTime /\ gen \in [Gens -> GenRecords] /\ clock' = clock + 1 /\ clock < MaxTime
  BY DEF GenInv, Tick
<1>2. clock' \in 0..MaxTime /\ gen' = gen
  BY <1>1, GeneratorAssumption DEF Tick
<1>3. ASSUME NEW h \in Gens
      PROVE  (JobOf(h) /\ ControlOf(h) /\ TimeOf(h) /\ RateOf(h) /\ SliceOf(h) /\ PaceOf(h))'
  <2>1. JobOf(h) /\ ControlOf(h) /\ TimeOf(h) /\ RateOf(h) /\ SliceOf(h) /\ PaceOf(h)
    BY GenOf
  <2>2. JobOf(h)' /\ ControlOf(h)'
    BY <1>2, <2>1 DEF JobOf, ControlOf, IsBench, Sends
  <2>3. TimeOf(h)'
    BY <1>1, <1>2, <2>1, GenType DEF TimeOf
  <2>4. RateOf(h)'
    BY <1>1, <1>2, <2>1, GenType DEF RateOf
  <2>5. SliceOf(h)'
    BY <1>2, <2>1 DEF SliceOf, IsBench
  <2>6. PaceOf(h)'
    BY <1>1, <1>2, <2>1, GenType DEF PaceOf
  <2>7. QED
    BY <2>2, <2>3, <2>4, <2>5, <2>6
<1>4. QED
  BY <1>1, <1>2, <1>3 DEF GenInv

LEMMA GenPreserved ==
  ASSUME GenInv, ActInv, RingInv, BufferInv, [Next]_vars
  PROVE  GenInv'
<1>1. ASSUME NEW g \in Gens, GenNext(g)
      PROVE  GenInv'
  <2>1. CASE GenStep(g) /\ UNCHANGED <<daemonVars, ring, storeVars, act, lost>>
    <3>1. UNCHANGED act /\ pool \subseteq Buffers
      BY <2>1 DEF BufferInv
    <3>2. QED
      BY <2>1, <3>1, ConstructGen, ConstructPacerGen, BeginGen, TestGen, FillGen, PaceGen DEF GenStep
  <2>2. CASE SendBench(g) \/ SendQuery(g) \/ SendRing(g)
    BY <2>2, SendGen
  <2>3. CASE Insert(g)
    BY <2>3, InsertGen, ThreadKinds
  <2>4. QED
    BY <1>1, <2>1, <2>2, <2>3 DEF GenNext
<1>2. ASSUME NEW w \in Writers, WriterNext(w)
      PROVE  GenInv'
  <2>1. CASE Recv(w)
    <3>1. UNCHANGED <<gen, clock>>
      BY <2>1 DEF Recv, genVars
    <3>2. \A g \in Gens : act'[g] = act[g]
      <4>1. act = [u \in Threads |-> act[u]]
        BY DEF ActInv
      <4>2. PICK a : act' = [act EXCEPT ![w] = a]
        BY <2>1 DEF Recv
      <4>3. QED
        BY <4>1, <4>2, ThreadKinds
    <3>3. QED
      BY <3>1, <3>2, GenStays
  <2>2. CASE Insert(w)
    BY <2>2, InsertGen, ThreadKinds
  <2>3. QED
    BY <1>2, <2>1, <2>2 DEF WriterNext
<1>3. ASSUME NEW d \in Daemons, DaemonNext(d) \/ Exit(d)
      PROVE  GenInv'
  <2>1. UNCHANGED <<gen, clock>>
    BY <1>3 DEF DaemonNext, Exit, StartMonitor, Monitor, genVars
  <2>2. \A g \in Gens : act'[g] = act[g]
    BY <1>3, ThreadKinds DEF DaemonNext, Exit, StartMonitor, Monitor
  <2>3. QED
    BY <2>1, <2>2, GenStays
<1>4. ASSUME Environment
      PROVE  GenInv'
  <2>1. CASE Tick
    BY <1>4, <2>1, TickGen DEF Environment
  <2>2. CASE Join
    <3>1. UNCHANGED <<gen, clock, act>>
      BY <1>4, <2>2 DEF Environment, Join
    <3>2. QED
      BY <3>1, GenStays
  <2>3. QED
    BY <1>4, <2>1, <2>2 DEF Environment
<1>5. ASSUME UNCHANGED vars
      PROVE  GenInv'
  BY <1>5, GenStays DEF vars, genVars
<1>6. QED
  BY <1>1, <1>2, <1>3, <1>4, <1>5 DEF Next

-----------------------------------------------------------------------------
(* Buffers and packets                                                     *)

\* What a step does to buffers and to the packets in them: nothing; or a generator
\* gets its buffers; or it fills them.
MemoryStays ==
  /\ UNCHANGED <<pool, data>>
  /\ \A g \in Gens : gen'[g].bufs = gen[g].bufs /\ gen'[g].pos = gen[g].pos

Takes(g) ==
  /\ gen[g].bufs = <<>> /\ gen'[g].pos = 0
  /\ gen'[g].bufs \in Seq(pool) /\ Len(gen'[g].bufs) = Burst
  /\ \A i, j \in 1..Burst : gen'[g].bufs[i] = gen'[g].bufs[j] => i = j
  /\ pool' = pool \ Range(gen'[g].bufs) /\ data' = data
  /\ \A h \in Gens \ {g} : gen'[h].bufs = gen[h].bufs /\ gen'[h].pos = gen[h].pos

Fills(g) ==
  /\ gen[g].bufs # <<>> /\ gen'[g].bufs = gen[g].bufs /\ gen'[g].pos = gen[g].pos + Burst
  /\ pool' = pool /\ data' = generate_batch(g)
  /\ \A h \in Gens \ {g} : gen'[h].bufs = gen[h].bufs /\ gen'[h].pos = gen[h].pos

\* The end of a turn of the loop changes neither.
LEMMA SentMemory ==
  ASSUME GenInv, NEW g \in Gens, NEW n, gen' = Sent(g, n)
  PROVE  \A h \in Gens : /\ gen'[h].bufs = gen[h].bufs /\ gen'[h].pos = gen[h].pos
                         /\ gen'[h].job = gen[h].job
<1> DEFINE total == gen[g].sent + n
           pc == IF gen[g].job.min_batch > 0 /\ gen[g].job.batch > 0 /\ total % gen[g].job.batch = 0
                   THEN "pace" ELSE "test"
           r == [gen[g] EXCEPT !.sent = total, !.pc = pc]
<1>1. gen \in [Gens -> GenRecords] /\ gen[g] \in GenRecords
  BY GenType, GenOf
<1>2. gen' = [gen EXCEPT ![g] = r]
  BY <1>1 DEF Sent
<1> HIDE DEF total, pc
<1>3. r.bufs = gen[g].bufs /\ r.pos = gen[g].pos /\ r.job = gen[g].job
  BY <1>1 DEF GenRecords
<1> HIDE DEF r
<1>4. QED
  BY <1>1, <1>2, <1>3

LEMMA GenStepMemory ==
  ASSUME GenInv, BufferInv, NEW g \in Gens, GenStep(g)
  PROVE  /\ MemoryStays \/ Takes(g) \/ Fills(g)
         /\ \A h \in Gens : gen'[h].job = gen[h].job
<1>1. gen \in [Gens -> GenRecords] /\ gen[g] \in GenRecords /\ ControlOf(g)
  BY GenType, GenOf
<1>2. CASE Construct(g)
  <2>1. CASE Cardinality(pool) < Burst
    BY <1>2, <2>1 DEF Construct, MemoryStays
  <2>2. CASE ~(Cardinality(pool) < Burst)
    <3> DEFINE bs == mbuf_alloc_bulk(Burst)
               r == [gen[g] EXCEPT !.pc = "ready", !.bufs = bs, !.tokens = Capacity,
                                   !.fill = clock, !.born = clock]
    <3>1. gen' = [gen EXCEPT ![g] = r] /\ pool' = pool \ Range(bs) /\ data' = data /\ gen[g].pc = "new"
      BY <1>1, <1>2, <2>2 DEF Construct, At
    <3>2. Burst <= Cardinality(pool) /\ pool \subseteq Buffers
      <4>1. pool \subseteq Buffers
        BY DEF BufferInv
      <4>2. IsFiniteSet(1..PoolSize)
        BY GeneratorAssumption, FS_Interval
      <4>3. Cardinality(pool) \in Nat
        BY <4>1, <4>2, FS_Subset, FS_CardinalityType DEF Buffers
      <4>4. QED
        BY <2>2, <4>1, <4>3, GeneratorAssumption
    <3>3. bs \in Seq(pool) /\ Len(bs) = Burst /\ \A i, j \in 1..Burst : bs[i] = bs[j] => i = j
      BY <3>2, AllocBulk
    <3> HIDE DEF bs
    <3>4. r.bufs = bs /\ r.pos = gen[g].pos /\ r.job = gen[g].job
      BY <1>1 DEF GenRecords
    <3> HIDE DEF r
    <3>5. gen'[g] = r /\ \A h \in Gens \ {g} : gen'[h] = gen[h]
      BY <1>1, <3>1
    <3>6. gen[g].bufs = <<>> /\ gen[g].pos = 0
      BY <1>1, <3>1 DEF ControlOf
    <3>7. Takes(g)
      BY <3>1, <3>3, <3>4, <3>5, <3>6 DEF Takes
    <3>8. QED
      BY <3>4, <3>5, <3>7
  <2>3. QED
    BY <2>1, <2>2
<1>3. CASE ConstructPacer(g) \/ Begin(g) \/ Test(g) \/ Pace(g) \/ Wake(g)
  <2>1. UNCHANGED <<pool, data>>
    BY <1>3 DEF ConstructPacer, Begin, Test, Pace, Wake
  <2>2. \A h \in Gens : gen'[h].bufs = gen[h].bufs /\ gen'[h].pos = gen[h].pos /\ gen'[h].job = gen[h].job
    <3>1. CASE gen' = gen
      BY <3>1
    <3>2. CASE ConstructPacer(g) /\ gen' # gen
      <4> DEFINE l == gen[g].job.batch * (Span \div gen[g].job.min_batch)
                 r == [gen[g] EXCEPT !.pc = "ready", !.start = clock, !.epoch = clock, !.limit = l]
      <4>1. gen' = [gen EXCEPT ![g] = r]
        BY <1>1, <3>2 DEF ConstructPacer
      <4> HIDE DEF l
      <4>2. r.bufs = gen[g].bufs /\ r.pos = gen[g].pos /\ r.job = gen[g].job
        BY <1>1 DEF GenRecords
      <4> HIDE DEF r
      <4>3. QED
        BY <1>1, <4>1, <4>2
    <3>3. CASE Begin(g)
      BY <1>1, <3>3 DEF Begin, GenRecords
    <3>4. CASE Test(g)
      <4>1. PICK pc : gen' = [gen EXCEPT ![g].pc = pc]
        BY <3>4 DEF Test
      <4>2. QED
        BY <1>1, <4>1 DEF GenRecords
    <3>5. CASE Pace(g)
      <4> DEFINE wake == clock + (gen[g].job.min_batch - (clock - gen[g].epoch))
                 r1 == [gen[g] EXCEPT !.pc = "sleep", !.wake = wake]
                 r2 == [gen[g] EXCEPT !.pc = "test", !.epoch = clock]
      <4>1. gen' = [gen EXCEPT ![g] = r1] \/ gen' = [gen EXCEPT ![g] = r2]
        BY <1>1, <3>5 DEF Pace
      <4> HIDE DEF wake
      <4>2. /\ r1.bufs = gen[g].bufs /\ r1.pos = gen[g].pos /\ r1.job = gen[g].job
            /\ r2.bufs = gen[g].bufs /\ r2.pos = gen[g].pos /\ r2.job = gen[g].job
        BY <1>1 DEF GenRecords
      <4> HIDE DEF r1, r2
      <4>3. CASE gen' = [gen EXCEPT ![g] = r1]
        BY <1>1, <4>2, <4>3
      <4>4. CASE gen' = [gen EXCEPT ![g] = r2]
        BY <1>1, <4>2, <4>4
      <4>5. QED
        BY <4>1, <4>3, <4>4
    <3>6. CASE Wake(g)
      BY <1>1, <3>6 DEF Wake, GenRecords
    <3>7. QED
      BY <1>3, <3>1, <3>2, <3>3, <3>4, <3>5, <3>6
  <2>3. QED
    BY <2>1, <2>2 DEF MemoryStays
<1>4. CASE Fill(g)
  <2> DEFINE c == IF gen[g].job.rate = 0 THEN [ok |-> TRUE, r |-> gen[g]] ELSE consume(gen[g])
  <2>1. /\ gen' = [gen EXCEPT ![g] = IF c.ok THEN [c.r EXCEPT !.pc = "send", !.pos = gen[g].pos + Burst]
                                             ELSE [c.r EXCEPT !.pc = "test"]]
        /\ pool' = pool /\ data' = IF c.ok THEN generate_batch(g) ELSE data
        /\ gen[g].pc = "fill" /\ Sends(g)
    BY <1>4 DEF Fill, At
  <2>2. gen[g].bufs # <<>>
    BY <1>1, <2>1 DEF ControlOf
  <2>3. c.r \in GenRecords /\ c.r.job = gen[g].job /\ c.r.bufs = gen[g].bufs /\ c.r.pos = gen[g].pos
    <3>1. CASE gen[g].job.rate = 0
      BY <1>1, <3>1
    <3>2. CASE gen[g].job.rate # 0
      <4> DEFINE k == consume(gen[g])
      <4>1. k.r \in GenRecords /\ k.r = [gen[g] EXCEPT !.tokens = k.r.tokens, !.fill = clock]
        BY <2>2, Consumed
      <4>2. c = k
        BY <3>2
      <4> HIDE DEF c, k
      <4>3. k.r.job = gen[g].job /\ k.r.bufs = gen[g].bufs /\ k.r.pos = gen[g].pos
        BY <1>1, <4>1 DEF GenRecords
      <4>4. QED
        BY <4>1, <4>2, <4>3
    <3>3. QED
      BY <3>1, <3>2
  <2> HIDE DEF c
  <2>4. \A h \in Gens \ {g} : gen'[h] = gen[h]
    BY <1>1, <2>1
  <2>5. CASE c.ok
    <3> DEFINE p == gen[g].pos + Burst
               r == [c.r EXCEPT !.pc = "send", !.pos = p]
    <3>1. gen'[g] = r
      BY <1>1, <2>1, <2>5
    <3> HIDE DEF p
    <3>2. r.job = gen[g].job /\ r.bufs = gen[g].bufs /\ r.pos = p
      BY <2>3 DEF GenRecords
    <3> HIDE DEF r
    <3>3. Fills(g)
      BY <2>1, <2>2, <2>4, <2>5, <3>1, <3>2 DEF Fills, p
    <3>4. QED
      BY <2>4, <3>1, <3>2, <3>3
  <2>6. CASE ~c.ok
    <3> DEFINE r == [c.r EXCEPT !.pc = "test"]
    <3>1. gen'[g] = r
      BY <1>1, <2>1, <2>6
    <3>2. r.job = gen[g].job /\ r.bufs = gen[g].bufs /\ r.pos = gen[g].pos
      BY <2>3 DEF GenRecords
    <3> HIDE DEF r
    <3>3. MemoryStays
      BY <2>1, <2>4, <2>6, <3>1, <3>2 DEF MemoryStays
    <3>4. QED
      BY <2>4, <3>1, <3>2, <3>3
  <2>7. QED
    BY <2>5, <2>6
<1>5. QED
  BY <1>2, <1>3, <1>4 DEF GenStep

\* Every step does one of the three, and gives no generator another job.
LEMMA MemorySteps ==
  ASSUME GenInv, BufferInv, ActInv, [Next]_vars
  PROVE  /\ MemoryStays \/ \E g \in Gens : Takes(g) \/ Fills(g)
         /\ \A h \in Gens : gen'[h].job = gen[h].job
<1>1. ASSUME UNCHANGED <<pool, data, gen>>
      PROVE  MemoryStays /\ \A h \in Gens : gen'[h].job = gen[h].job
  BY <1>1 DEF MemoryStays
<1>2. ASSUME NEW t \in Threads, Insert(t)
      PROVE  MemoryStays /\ \A h \in Gens : gen'[h].job = gen[h].job
  <2>1. CASE Claim(t) \/ Copy(t)
    BY <1>1, <2>1 DEF Claim, Copy, genVars
  <2>2. CASE Publish(t)
    <3>1. UNCHANGED <<pool, data>>
      BY <2>2 DEF Publish
    <3>2. CASE t \in Gens
      BY <2>2, <3>1, <3>2, SentMemory DEF Publish, MemoryStays
    <3>3. CASE t \notin Gens
      BY <1>1, <2>2, <3>1, <3>3 DEF Publish
    <3>4. QED
      BY <3>2, <3>3
  <2>3. QED
    BY <1>2, <2>1, <2>2 DEF Insert
<1>3. ASSUME NEW g \in Gens, SendBench(g) \/ SendQuery(g) \/ SendRing(g)
      PROVE  MemoryStays /\ \A h \in Gens : gen'[h].job = gen[h].job
  <2>1. UNCHANGED <<pool, data>>
    BY <1>3 DEF SendBench, SendQuery, SendRing
  <2>2. CASE SendBench(g)
    <3>1. gen \in [Gens -> GenRecords]
      BY GenType
    <3>2. gen' = [gen EXCEPT ![g].pc = "insert"]
      BY <2>2 DEF SendBench
    <3>3. QED
      BY <2>1, <3>1, <3>2 DEF MemoryStays, GenRecords
  <2>3. CASE SendQuery(g)
    BY <2>1, <2>3, SentMemory DEF SendQuery, MemoryStays
  <2>4. CASE SendRing(g)
    BY <2>1, <2>4, SentMemory DEF SendRing, MemoryStays
  <2>5. QED
    BY <1>3, <2>2, <2>3, <2>4
<1>4. ASSUME NEW g \in Gens, GenNext(g)
      PROVE  /\ MemoryStays \/ Takes(g) \/ Fills(g)
             /\ \A h \in Gens : gen'[h].job = gen[h].job
  BY <1>2, <1>3, <1>4, GenStepMemory, ThreadKinds DEF GenNext
<1>5. ASSUME NEW w \in Writers, WriterNext(w)
      PROVE  MemoryStays /\ \A h \in Gens : gen'[h].job = gen[h].job
  <2>1. CASE Recv(w)
    BY <1>1, <2>1 DEF Recv, genVars
  <2>2. CASE Insert(w)
    BY <1>2, <2>2, ThreadKinds
  <2>3. QED
    BY <1>5, <2>1, <2>2 DEF WriterNext
<1>6. ASSUME NEW d \in Daemons, DaemonNext(d) \/ Exit(d)
      PROVE  UNCHANGED <<pool, data, gen>>
  BY <1>6 DEF DaemonNext, StartMonitor, Monitor, Exit, genVars
<1>7. ASSUME Environment
      PROVE  UNCHANGED <<pool, data, gen>>
  BY <1>7 DEF Environment, Tick, Join
<1>8. ASSUME UNCHANGED vars
      PROVE  UNCHANGED <<pool, data, gen>>
  BY <1>8 DEF vars, genVars
<1>9. QED
  BY <1>1, <1>4, <1>5, <1>6, <1>7, <1>8 DEF Next

LEMMA BufferPreserved ==
  ASSUME GenInv, BufferInv, ActInv, [Next]_vars
  PROVE  BufferInv'
<1>0. /\ pool \subseteq Buffers /\ Burst \in Nat \ {0}
      /\ data = [b \in Buffers |-> data[b]]
      /\ \A g \in Gens : gen[g].bufs # <<>> =>
           Len(gen[g].bufs) = Burst /\ \A i \in 1..Burst : gen[g].bufs[i] \notin pool
      /\ \A g, h \in Gens : \A i \in 1..Len(gen[g].bufs), j \in 1..Len(gen[h].bufs) :
           gen[g].bufs[i] = gen[h].bufs[j] => g = h /\ i = j
  BY GeneratorAssumption DEF BufferInv
<1>1. CASE MemoryStays
  BY <1>0, <1>1 DEF MemoryStays, BufferInv
<1>2. ASSUME NEW g \in Gens, Takes(g)
      PROVE  BufferInv'
  <2> DEFINE bs == gen'[g].bufs
  <2>1. bs \in Seq(pool) /\ Len(bs) = Burst /\ pool' = pool \ Range(bs) /\ data' = data
    BY <1>2 DEF Takes
  <2>2. \A i \in 1..Burst : bs[i] \in pool /\ bs[i] \in Range(bs)
    BY <2>1 DEF Range
  <2>3. \A h \in Gens \ {g} : gen'[h].bufs = gen[h].bufs
    BY <1>2 DEF Takes
  <2>4. \A i, j \in 1..Burst : bs[i] = bs[j] => i = j
    BY <1>2 DEF Takes
  <2> HIDE DEF bs
  <2>5. ASSUME NEW h \in Gens, gen'[h].bufs # <<>>
        PROVE  Len(gen'[h].bufs) = Burst /\ \A i \in 1..Burst : gen'[h].bufs[i] \notin pool'
    <3>1. CASE h = g
      BY <2>1, <2>2, <3>1 DEF bs
    <3>2. CASE h # g
      BY <1>0, <2>1, <2>3, <2>5, <3>2
    <3>3. QED
      BY <3>1, <3>2
  <2>6. ASSUME NEW h \in Gens, NEW k \in Gens,
               NEW i \in 1..Len(gen'[h].bufs), NEW j \in 1..Len(gen'[k].bufs),
               gen'[h].bufs[i] = gen'[k].bufs[j]
        PROVE  h = k /\ i = j
    <3>1. \A e \in Gens \ {g} : \A n \in 1..Len(gen[e].bufs) : gen[e].bufs[n] \notin pool
      <4>1. SUFFICES ASSUME NEW e \in Gens \ {g}, NEW n \in 1..Len(gen[e].bufs)
                     PROVE  gen[e].bufs[n] \notin pool
        OBVIOUS
      <4>2. gen[e].bufs # <<>>
        BY <4>1
      <4>3. QED
        BY <1>0, <4>1, <4>2
    <3>2. CASE h = g /\ k = g
      BY <2>1, <2>4, <2>6, <3>2 DEF bs
    <3>3. CASE h = g /\ k # g
      BY <2>1, <2>2, <2>3, <2>6, <3>1, <3>3 DEF bs
    <3>4. CASE h # g /\ k = g
      BY <2>1, <2>2, <2>3, <2>6, <3>1, <3>4 DEF bs
    <3>5. CASE h # g /\ k # g
      BY <1>0, <2>3, <2>6, <3>5
    <3>6. QED
      BY <3>2, <3>3, <3>4, <3>5
  <2>7. QED
    BY <1>0, <2>1, <2>5, <2>6 DEF BufferInv
<1>3. ASSUME NEW g \in Gens, Fills(g)
      PROVE  BufferInv'
  <2>1. \A h \in Gens : gen'[h].bufs = gen[h].bufs
    BY <1>3 DEF Fills
  <2>2. pool' = pool /\ data' = [b \in Buffers |-> data'[b]]
    BY <1>3 DEF Fills, generate_batch
  <2>3. QED
    BY <1>0, <2>1, <2>2 DEF BufferInv
<1>4. QED
  BY <1>1, <1>2, <1>3, MemorySteps

\* What a batch writes into each of the generator's buffers.
LEMMA BatchData ==
  ASSUME GenInv, BufferInv, NEW g \in Gens, gen[g].bufs # <<>>
  PROVE  /\ \A i \in 1..Burst : generate_batch(g)[gen[g].bufs[i]] = [gen |-> g, n |-> gen[g].pos + i]
         /\ \A h \in Gens \ {g} : \A i \in 1..Len(gen[h].bufs) :
              generate_batch(g)[gen[h].bufs[i]] = data[gen[h].bufs[i]]
<1>1. Len(gen[g].bufs) = Burst /\ \A h \in Gens : gen[h].bufs \in Seq(Buffers)
  BY GenType DEF BufferInv
<1>2. \A h \in Gens : \A i \in 1..Len(gen[h].bufs) : gen[h].bufs[i] \in Buffers
  BY <1>1
<1>3. ASSUME NEW i \in 1..Burst
      PROVE  generate_batch(g)[gen[g].bufs[i]] = [gen |-> g, n |-> gen[g].pos + i]
  <2> DEFINE b == gen[g].bufs[i]
             j == CHOOSE k \in 1..Burst : gen[g].bufs[k] = b
  <2>1. \A k \in 1..Burst : gen[g].bufs[k] = b => k = i
    BY <1>1 DEF BufferInv
  <2>2. j = i
    BY <2>1
  <2>3. b \in Buffers
    BY <1>1, <1>2
  <2>4. generate_batch(g)[b] = [gen |-> g, n |-> gen[g].pos + j]
    BY <2>3 DEF generate_batch
  <2>5. QED
    BY <2>2, <2>4
<1>4. ASSUME NEW h \in Gens \ {g}, NEW i \in 1..Len(gen[h].bufs)
      PROVE  generate_batch(g)[gen[h].bufs[i]] = data[gen[h].bufs[i]]
  <2> DEFINE b == gen[h].bufs[i]
  <2>1. b \in Buffers
    BY <1>2
  <2>2. ~\E k \in 1..Burst : gen[g].bufs[k] = b
    BY <1>1 DEF BufferInv
  <2>3. QED
    BY <2>1, <2>2 DEF generate_batch
<1>5. QED
  BY <1>3, <1>4

LEMMA DataPreserved ==
  ASSUME GenInv, BufferInv, DataInv, ActInv, [Next]_vars
  PROVE  DataInv'
<1>1. CASE MemoryStays
  BY <1>1 DEF MemoryStays, DataInv, Latest
<1>2. ASSUME NEW g \in Gens, Takes(g)
      PROVE  DataInv'
  <2>1. gen'[g].pos = 0 /\ data' = data /\ \A h \in Gens \ {g} : gen'[h].bufs = gen[h].bufs /\ gen'[h].pos = gen[h].pos
    BY <1>2 DEF Takes
  <2>2. QED
    BY <2>1 DEF DataInv, Latest
<1>3. ASSUME NEW g \in Gens, Fills(g)
      PROVE  DataInv'
  <2>1. /\ data' = generate_batch(g) /\ gen[g].bufs # <<>>
        /\ gen'[g].bufs = gen[g].bufs /\ gen'[g].pos = gen[g].pos + Burst
        /\ \A h \in Gens \ {g} : gen'[h].bufs = gen[h].bufs /\ gen'[h].pos = gen[h].pos
    BY <1>3 DEF Fills
  <2>2. gen[g].pos \in Nat /\ Burst \in Nat \ {0}
    BY GenType
  <2>3. gen'[g].pos >= Burst /\ \A i \in 1..Burst : Latest(g, i)' = gen[g].pos + i
    BY <2>1, <2>2 DEF Latest
  <2>4. \A i \in 1..Burst : data'[gen'[g].bufs[i]] = [gen |-> g, n |-> Latest(g, i)']
    BY <2>1, <2>3, BatchData
  <2>5. ASSUME NEW h \in Gens \ {g}, gen'[h].bufs # <<>>, gen'[h].pos > 0
        PROVE  /\ gen'[h].pos >= Burst
               /\ \A i \in 1..Burst : data'[gen'[h].bufs[i]] = [gen |-> h, n |-> Latest(h, i)']
    <3>1. gen'[h].bufs = gen[h].bufs /\ gen'[h].pos = gen[h].pos /\ Len(gen[h].bufs) = Burst
      BY <2>1, <2>5 DEF BufferInv
    <3>2. \A i \in 1..Burst : data'[gen[h].bufs[i]] = data[gen[h].bufs[i]]
      BY <2>1, <3>1, BatchData
    <3>3. \A i \in 1..Burst : Latest(h, i)' = Latest(h, i)
      BY <3>1 DEF Latest
    <3>4. QED
      BY <2>5, <3>1, <3>2, <3>3 DEF DataInv
  <2>6. QED
    BY <2>3, <2>4, <2>5 DEF DataInv
<1>4. QED
  BY <1>1, <1>2, <1>3, MemorySteps

\* What points keeps pointing: a buffer is filled again with a later packet.
LEMMA PointsStay ==
  ASSUME GenInv, BufferInv, ActInv, [Next]_vars, NEW e, Points(e, gen)
  PROVE  Points(e, gen')
<1>1. PICK h \in Gens, i \in 1..Burst :
        /\ gen[h].bufs # <<>> /\ gen[h].pos > 0 /\ e.buf = gen[h].bufs[i]
        /\ e.pkt.gen = h /\ e.pkt.n \in Nat
        /\ e.pkt.n <= gen[h].pos - Burst + i
        /\ ((gen[h].pos - Burst + i) - e.pkt.n) % Burst = 0
  BY DEF Points
<1>2. CASE gen'[h].bufs = gen[h].bufs /\ gen'[h].pos = gen[h].pos
  BY <1>1, <1>2 DEF Points
<1>3. CASE gen'[h].bufs = gen[h].bufs /\ gen'[h].pos = gen[h].pos + Burst
  <2> DEFINE p == gen[h].pos
             n == e.pkt.n
             m == (p - Burst + i) - n
  <2>1. p \in Nat /\ n \in Nat /\ Burst \in Nat \ {0} /\ i \in Nat /\ m \in Nat /\ p > 0
    BY <1>1, GenType
  <2>2. n <= p - Burst + i /\ m % Burst = 0
    BY <1>1
  <2>3. m = (p - Burst + i) - n
    OBVIOUS
  <2> HIDE DEF m, n, p
  <2> DEFINE q == p + Burst
             k == (q - Burst + i) - n
  <2>4. q > 0 /\ n <= q - Burst + i /\ k = m + Burst
    BY <2>1, <2>2, <2>3
  <2>5. (m + Burst) % Burst = 0
    BY <2>1, <2>2, AddBurst
  <2>6. k % Burst = 0
    BY <2>4, <2>5
  <2>7. gen'[h].pos = q
    BY <1>3 DEF p
  <2> HIDE DEF q
  <2>8. /\ gen'[h].bufs # <<>> /\ gen'[h].pos > 0 /\ e.buf = gen'[h].bufs[i]
        /\ e.pkt.gen = h /\ e.pkt.n \in Nat
    BY <1>1, <1>3, <2>4, <2>7
  <2>9. /\ e.pkt.n <= gen'[h].pos - Burst + i
        /\ ((gen'[h].pos - Burst + i) - e.pkt.n) % Burst = 0
    BY <2>4, <2>6, <2>7 DEF n
  <2>10. QED
    BY <2>8, <2>9 DEF Points
<1>4. CASE MemoryStays
  BY <1>2, <1>4 DEF MemoryStays
<1>5. ASSUME NEW g \in Gens, Takes(g)
      PROVE  gen'[h].bufs = gen[h].bufs /\ gen'[h].pos = gen[h].pos
  BY <1>1, <1>5 DEF Takes
<1>6. ASSUME NEW g \in Gens, Fills(g)
      PROVE  /\ gen'[h].bufs = gen[h].bufs
             /\ gen'[h].pos = gen[h].pos \/ gen'[h].pos = gen[h].pos + Burst
  BY <1>6 DEF Fills
<1>7. QED
  BY <1>2, <1>3, <1>4, <1>5, <1>6, MemorySteps

-----------------------------------------------------------------------------
(* Sequences of whatever elements                                          *)

LEMMA SeqIs ==
  ASSUME NEW T, NEW s \in Seq(T)
  PROVE  IsSeq(s) /\ Len(s) \in Nat /\ DOMAIN s = 1..Len(s)
<1>1. Len(s) \in Nat /\ DOMAIN s = 1..Len(s) /\ s = [i \in 1..Len(s) |-> s[i]]
  OBVIOUS
<1> DEFINE R == {s[i] : i \in DOMAIN s}
<1>2. \A i \in 1..Len(s) : s[i] \in R
  BY <1>1
<1> HIDE DEF R
<1>3. s \in Seq(R)
  BY <1>1, <1>2
<1>4. QED
  BY <1>1, <1>3 DEF R, IsSeq

LEMMA SeqDomain ==
  ASSUME NEW s, IsSeq(s)
  PROVE  Len(s) \in Nat /\ DOMAIN s = 1..Len(s) /\ s = [i \in 1..Len(s) |-> s[i]]
<1> DEFINE R == {s[i] : i \in DOMAIN s}
<1>1. s \in Seq(R)
  BY DEF IsSeq
<1> HIDE DEF R
<1>2. s = [i \in 1..Len(s) |-> s[i]]
  BY <1>1
<1>3. QED
  BY <1>1, <1>2, SeqIs

LEMMA FunctionIs ==
  ASSUME NEW n \in Nat, NEW f, f = [i \in 1..n |-> f[i]]
  PROVE  IsSeq(f) /\ Len(f) = n
<1> DEFINE R == {f[i] : i \in 1..n}
<1>1. \A i \in 1..n : f[i] \in R
  OBVIOUS
<1> HIDE DEF R
<1>2. f \in Seq(R) /\ Len(f) = n
  BY <1>1
<1>3. QED
  BY <1>2, SeqIs

LEMMA ConcatIs ==
  ASSUME NEW s, IsSeq(s), NEW t, IsSeq(t)
  PROVE  /\ IsSeq(s \o t) /\ Len(s \o t) = Len(s) + Len(t)
         /\ \A i \in 1..Len(s) : (s \o t)[i] = s[i]
         /\ \A i \in 1..Len(t) : (s \o t)[Len(s) + i] = t[i]
<1> DEFINE R == {s[i] : i \in DOMAIN s} \cup {t[i] : i \in DOMAIN t}
<1>1. Len(s) \in Nat /\ DOMAIN s = 1..Len(s) /\ s = [i \in 1..Len(s) |-> s[i]]
  BY SeqDomain
<1>2. Len(t) \in Nat /\ DOMAIN t = 1..Len(t) /\ t = [i \in 1..Len(t) |-> t[i]]
  BY SeqDomain
<1>3. (\A i \in 1..Len(s) : s[i] \in R) /\ (\A i \in 1..Len(t) : t[i] \in R)
  BY <1>1, <1>2
<1> HIDE DEF R
<1>4. s \in Seq(R) /\ t \in Seq(R)
  BY <1>1, <1>2, <1>3
<1>5. s \o t \in Seq(R) /\ Len(s \o t) = Len(s) + Len(t)
  BY <1>4
<1>6. \A i \in 1..Len(s) : (s \o t)[i] = s[i]
  BY <1>4
<1>7. \A i \in 1..Len(t) : (s \o t)[Len(s) + i] = t[i]
  BY <1>4
<1>8. QED
  BY <1>5, <1>6, <1>7, SeqIs

LEMMA SubSeqIs ==
  ASSUME NEW s, IsSeq(s), NEW n \in 0..Len(s)
  PROVE  /\ IsSeq(SubSeq(s, 1, n)) /\ Len(SubSeq(s, 1, n)) = n
         /\ \A i \in 1..n : SubSeq(s, 1, n)[i] = s[i]
         /\ IsSeq(SubSeq(s, n + 1, Len(s))) /\ Len(SubSeq(s, n + 1, Len(s))) = Len(s) - n
         /\ \A i \in 1..(Len(s) - n) : SubSeq(s, n + 1, Len(s))[i] = s[n + i]
<1> DEFINE R == {s[i] : i \in DOMAIN s}
<1>1. Len(s) \in Nat /\ s \in Seq(R)
  BY SeqDomain DEF IsSeq
<1> HIDE DEF R
<1>2. SubSeq(s, 1, n) \in Seq(R) /\ Len(SubSeq(s, 1, n)) = n /\ \A i \in 1..n : SubSeq(s, 1, n)[i] = s[i]
  BY <1>1
<1> DEFINE t == SubSeq(s, n + 1, Len(s))
           m == Len(s)
<1>3. m \in Nat /\ n \in Nat /\ n <= m
  BY <1>1
<1>4. t = [i \in 1..(m - n) |-> s[i + n]]
  BY <1>1, <1>3
<1>5. \A i \in 1..(m - n) : t[i] = s[n + i]
  BY <1>3, <1>4
<1>6. t = [i \in 1..(m - n) |-> t[i]] /\ m - n \in Nat
  BY <1>3, <1>4
<1> HIDE DEF t, m
<1>7. IsSeq(t) /\ Len(t) = m - n
  BY <1>6, FunctionIs
<1>8. QED
  BY <1>2, <1>5, <1>7, SeqIs DEF t, m

-----------------------------------------------------------------------------
(* The ring                                                                *)

LEMMA PointersPoint ==
  ASSUME GenInv, DataInv, NEW g \in Gens, gen[g].bufs # <<>>, gen[g].pos > 0, NEW n \in 0..Burst
  PROVE  /\ IsSeq(Pointers(g, n)) /\ Len(Pointers(g, n)) = n
         /\ \A i \in 1..n : /\ Pointers(g, n)[i] = [buf |-> gen[g].bufs[i], pkt |-> data[gen[g].bufs[i]]]
                            /\ Points(Pointers(g, n)[i], gen)
<1>1. n \in Nat /\ Burst \in Nat \ {0} /\ gen[g].pos \in Nat
  BY GenType
<1>2. IsSeq(Pointers(g, n)) /\ Len(Pointers(g, n)) = n
  <2>1. Pointers(g, n) = [i \in 1..n |-> Pointers(g, n)[i]]
    BY DEF Pointers
  <2>2. QED
    BY <1>1, <2>1, FunctionIs
<1>3. ASSUME NEW i \in 1..n
      PROVE  /\ Pointers(g, n)[i] = [buf |-> gen[g].bufs[i], pkt |-> data[gen[g].bufs[i]]]
             /\ Points(Pointers(g, n)[i], gen)
  <2> DEFINE e == Pointers(g, n)[i]
             k == gen[g].pos - Burst + i
  <2>1. e = [buf |-> gen[g].bufs[i], pkt |-> data[gen[g].bufs[i]]]
    BY DEF Pointers
  <2>2. i \in 1..Burst /\ data[gen[g].bufs[i]] = [gen |-> g, n |-> k] /\ gen[g].pos >= Burst
    BY <1>1 DEF DataInv, Latest
  <2>3. e.buf = gen[g].bufs[i] /\ e.pkt.gen = g /\ e.pkt.n = k
    BY <2>1, <2>2
  <2>4. k \in Nat
    BY <1>1, <2>2
  <2> HIDE DEF e
  <2>5. (k - e.pkt.n) % Burst = 0
    <3>1. k - e.pkt.n = 0
      BY <2>3, <2>4
    <3>2. 0 % Burst = 0
      BY <1>1
    <3>3. QED
      BY <3>1, <3>2
  <2>6. e.pkt.n <= k /\ e.pkt.n \in Nat
    BY <2>3, <2>4
  <2>7. Points(e, gen)
    BY <2>2, <2>3, <2>5, <2>6 DEF Points
  <2>8. QED
    BY <2>1, <2>7 DEF e
<1>4. QED
  BY <1>2, <1>3

LEMMA RingPreserved ==
  ASSUME GenInv, BufferInv, DataInv, RingInv, ActInv, [Next]_vars
  PROVE  RingInv'
<1>0. /\ IsSeq(ring) /\ Len(ring) \in Nat /\ Len(ring) <= RingSize /\ RingSize \in Nat
      /\ Burst \in Nat \ {0}
      /\ \A i \in 1..Len(ring) : Points(ring[i], gen)
  BY SeqDomain, PipelineAssumption, GeneratorAssumption DEF RingInv
<1>1. \A i \in 1..Len(ring) : Points(ring[i], gen')
  BY <1>0, PointsStay
<1>2. CASE UNCHANGED ring
  BY <1>0, <1>1, <1>2 DEF RingInv
<1>3. ASSUME NEW g \in Gens, SendRing(g)
      PROVE  RingInv'
  <2> DEFINE n == Min({Burst, RingSize - Len(ring)})
             p == Pointers(g, n)
  <2>1. ring' = ring \o p /\ gen[g].pc = "send"
    BY <1>3 DEF SendRing, At
  <2>2. n \in 0..Burst /\ Len(ring) + n <= RingSize
    <3>1. n = IF Burst <= RingSize - Len(ring) THEN Burst ELSE RingSize - Len(ring)
      BY <1>0, MinPair
    <3>2. QED
      BY <1>0, <3>1
  <2>3. gen[g].bufs # <<>> /\ gen[g].pos > 0
    BY <2>1, GenOf DEF ControlOf
  <2> HIDE DEF n
  <2>4. IsSeq(p) /\ Len(p) = n /\ \A i \in 1..n : Points(p[i], gen)
    BY <2>2, <2>3, PointersPoint
  <2>5. \A i \in 1..n : Points(p[i], gen')
    BY <2>4, PointsStay
  <2> HIDE DEF p
  <2>6. /\ IsSeq(ring') /\ Len(ring') = Len(ring) + n
        /\ \A i \in 1..Len(ring) : ring'[i] = ring[i]
        /\ \A i \in 1..n : ring'[Len(ring) + i] = p[i]
    <3> DEFINE q == ring \o p
    <3>1. /\ IsSeq(q) /\ Len(q) = Len(ring) + Len(p)
          /\ \A i \in 1..Len(ring) : q[i] = ring[i]
          /\ \A i \in 1..Len(p) : q[Len(ring) + i] = p[i]
      <4>1. IsSeq(ring) /\ IsSeq(p)
        BY <1>0, <2>4
      <4>2. QED
        BY <4>1, ConcatIs
    <3> HIDE DEF q
    <3>2. ring' = q
      BY <2>1 DEF q
    <3>3. QED
      BY <2>4, <3>1, <3>2
  <2>7. ASSUME NEW i \in 1..Len(ring')
        PROVE  Points(ring'[i], gen')
    <3>1. CASE i <= Len(ring)
      BY <1>0, <1>1, <2>6, <3>1
    <3>2. CASE i > Len(ring)
      <4> DEFINE j == i - Len(ring)
      <4>1. j \in 1..n /\ i = Len(ring) + j
        BY <1>0, <2>2, <2>6, <3>2
      <4> HIDE DEF j
      <4>2. QED
        BY <2>5, <2>6, <4>1
    <3>3. QED
      BY <1>0, <2>2, <2>6, <3>1, <3>2
  <2>8. QED
    BY <2>2, <2>6, <2>7 DEF RingInv
<1>4. ASSUME NEW w \in Writers, Recv(w)
      PROVE  RingInv'
  <2> DEFINE n == Min({Burst, Len(ring)})
  <2>1. ring' = SubSeq(ring, n + 1, Len(ring))
    BY <1>4 DEF Recv
  <2>2. n \in 0..Len(ring)
    <3>1. n = IF Burst <= Len(ring) THEN Burst ELSE Len(ring)
      BY <1>0, MinPair
    <3>2. QED
      BY <1>0, <3>1
  <2> HIDE DEF n
  <2>3. /\ IsSeq(ring') /\ Len(ring') = Len(ring) - n
        /\ \A i \in 1..(Len(ring) - n) : ring'[i] = ring[n + i]
    BY <1>0, <2>1, <2>2, SubSeqIs
  <2>4. ASSUME NEW i \in 1..Len(ring')
        PROVE  Points(ring'[i], gen')
    <3>1. n + i \in 1..Len(ring) /\ i \in 1..(Len(ring) - n)
      BY <1>0, <2>2, <2>3
    <3>2. QED
      BY <1>1, <2>3, <3>1
  <2>5. QED
    BY <1>0, <2>2, <2>3, <2>4 DEF RingInv
<1>5. ASSUME NEW g \in Gens, GenNext(g), ~SendRing(g)
      PROVE  UNCHANGED ring
  BY <1>5 DEF GenNext, SendBench, SendQuery, Insert, Claim, Copy, Publish
<1>6. ASSUME NEW w \in Writers, WriterNext(w), ~Recv(w)
      PROVE  UNCHANGED ring
  BY <1>6 DEF WriterNext, Insert, Claim, Copy, Publish
<1>7. ASSUME NEW d \in Daemons, DaemonNext(d) \/ Exit(d)
      PROVE  UNCHANGED ring
  BY <1>7 DEF DaemonNext, StartMonitor, Monitor, Exit
<1>8. Environment \/ UNCHANGED vars => UNCHANGED ring
  BY DEF Environment, vars
<1>9. QED
  BY <1>2, <1>3, <1>4, <1>5, <1>6, <1>7, <1>8 DEF Next

-----------------------------------------------------------------------------
(* Inserts                                                                 *)

LEMMA StoreKinds ==
  /\ \A t \in Threads : StoreOf(t) \in Stores
  /\ \A g \in Gens : StoreOf(g) = Bench
  /\ \A w \in Writers : StoreOf(w) \in Daemons /\ StoreOf(w) = w[1] /\ StoreOf(w) # Bench
  /\ \A d \in Daemons : d \in Stores /\ d # Bench
  /\ Bench \in Stores
<1>1. \A g \in Gens : StoreOf(g) = Bench
  BY DEF StoreOf
<1>2. \A w \in Writers : StoreOf(w) \in Daemons /\ StoreOf(w) = w[1]
  BY ThreadKinds DEF StoreOf, Writers
<1>3. QED
  BY <1>1, <1>2, PipelineAssumption DEF Stores, Threads

\* The stores keep the places they have, with their packets.
Grows ==
  /\ claimed' = [s \in Stores |-> claimed'[s]]
  /\ \A s \in Stores :
       /\ IsSeq(claimed'[s]) /\ Len(claimed[s]) <= Len(claimed'[s])
       /\ \A i \in 1..Len(claimed[s]) : claimed'[s][i].pkt = claimed[s][i].pkt
       /\ \A i \in 1..Len(claimed'[s]) : DOMAIN claimed'[s][i] = {"pkt", "got"}

LEMMA GrowsNot ==
  ASSUME ActInv, claimed' = claimed
  PROVE  Grows /\ \A d \in Daemons : \A i \in 1..Len(claimed'[d]) : Later(claimed'[d][i])
<1>1. \A s \in Stores : Len(claimed[s]) \in Nat
  BY SeqDomain DEF ActInv
<1>2. QED
  BY <1>1 DEF Grows, ActInv

\* A step of one thread's insert: the others' part of the invariant stays.
LEMMA ActOthers ==
  ASSUME GenInv, BufferInv, ActInv, [Next]_vars, NEW t \in Threads, NEW a,
         act' = [act EXCEPT ![t] = a], Grows,
         \A d \in Daemons : \A i \in 1..Len(claimed'[d]) : Later(claimed'[d][i]),
         ActRecord(t)', PlacesOf(t)',
         t \in Writers => \A i \in 1..Len(a.pkts) : Points(a.pkts[i], gen)
  PROVE  ActInv'
<1>1. act = [u \in Threads |-> act[u]]
  BY DEF ActInv
<1>2. act'[t] = a /\ (\A u \in Threads \ {t} : act'[u] = act[u]) /\ act' = [u \in Threads |-> act'[u]]
  BY <1>1
<1>3. ASSUME NEW u \in Threads
      PROVE  ActRecord(u)' /\ PlacesOf(u)'
  <2>1. CASE u = t
    BY <2>1
  <2>2. CASE u # t
    <3>1. ActRecord(u) /\ PlacesOf(u) /\ act'[u] = act[u]
      BY <1>2, <2>2, ActOf
    <3>2. ActRecord(u)'
      BY <3>1 DEF ActRecord
    <3>3. /\ StoreOf(u) \in Stores
          /\ Len(claimed[StoreOf(u)]) \in Nat /\ Len(claimed'[StoreOf(u)]) \in Nat
      BY StoreKinds, SeqDomain DEF ActInv, Grows
    <3>4. Len(act[u].pkts) \in Nat /\ act[u].first \in Nat
      BY <3>1, SeqDomain DEF ActRecord
    <3> DEFINE s == StoreOf(u)
    <3>5. /\ Len(claimed[s]) <= Len(claimed'[s])
          /\ \A i \in 1..Len(claimed[s]) : claimed'[s][i].pkt = claimed[s][i].pkt
      BY <3>3 DEF Grows
    <3> HIDE DEF s
    <3>6. PlacesOf(u)'
      <4>1. ASSUME act[u].pc \in {"copy", "end"}
            PROVE  /\ act[u].first + Len(act[u].pkts) <= Len(claimed'[s])
                   /\ \A i \in 1..Len(act[u].pkts) :
                        claimed'[s][act[u].first + i].pkt = act[u].pkts[i].pkt
        <5>1. /\ act[u].first + Len(act[u].pkts) <= Len(claimed[s])
              /\ \A i \in 1..Len(act[u].pkts) :
                   claimed[s][act[u].first + i].pkt = act[u].pkts[i].pkt
          BY <3>1, <4>1 DEF PlacesOf, s
        <5>2. ASSUME NEW i \in 1..Len(act[u].pkts)
              PROVE  act[u].first + i \in 1..Len(claimed[s])
          BY <3>3, <3>4, <5>1 DEF s
        <5>3. act[u].first + Len(act[u].pkts) <= Len(claimed'[s])
          BY <3>3, <3>4, <3>5, <5>1 DEF s
        <5>4. ASSUME NEW i \in 1..Len(act[u].pkts)
              PROVE  claimed'[s][act[u].first + i].pkt = act[u].pkts[i].pkt
          BY <3>5, <5>1, <5>2
        <5>5. QED
          BY <5>3, <5>4
      <4>2. act[u].pc = "copy" => act[u].next \in 1..Len(act[u].pkts)
        BY <3>1 DEF PlacesOf
      <4>3. QED
        BY <3>1, <4>1, <4>2 DEF PlacesOf, s, StoreOf
    <3>7. QED
      BY <3>2, <3>6
  <2>3. QED
    BY <2>1, <2>2
<1>4. ASSUME NEW w \in Writers, NEW i \in 1..Len(act'[w].pkts)
      PROVE  Points(act'[w].pkts[i], gen')
  <2>1. Points(act'[w].pkts[i], gen)
    BY <1>2, <1>4, ThreadKinds DEF ActInv
  <2> DEFINE e == act'[w].pkts[i]
  <2> HIDE DEF e
  <2>2. Points(e, gen')
    BY <2>1, PointsStay DEF e
  <2>3. QED
    BY <2>2 DEF e
<1>5. QED
  BY <1>2, <1>3, <1>4 DEF ActInv, Grows

\* A step that changes neither inserts nor stores.
LEMMA ActStays ==
  ASSUME GenInv, BufferInv, ActInv, [Next]_vars, UNCHANGED <<act, claimed>>
  PROVE  ActInv'
<1>1. ASSUME NEW w \in Writers, NEW i \in 1..Len(act[w].pkts)
      PROVE  Points(act[w].pkts[i], gen')
  <2>1. Points(act[w].pkts[i], gen)
    BY DEF ActInv
  <2>2. QED
    BY <2>1, PointsStay
<1>2. \A t \in Threads : ActRecord(t)' /\ PlacesOf(t)'
  BY ActOf DEF ActRecord, PlacesOf, StoreOf
<1>3. QED
  BY <1>1, <1>2 DEF ActInv

LEMMA SendBenchAct ==
  ASSUME GenInv, BufferInv, DataInv, ActInv, [Next]_vars, NEW g \in Gens, SendBench(g)
  PROVE  ActInv'
<1> DEFINE p == Pointers(g, Burst)
           a == [pc |-> "claim", pkts |-> p, first |-> 0, next |-> 0]
<1>0. act' = [act EXCEPT ![g] = [Idle EXCEPT !.pc = "claim", !.pkts = p]]
  BY DEF SendBench
<1> HIDE DEF p
<1>1. act' = [act EXCEPT ![g] = a] /\ claimed' = claimed /\ gen[g].pc = "send"
  <2>1. [Idle EXCEPT !.pc = "claim", !.pkts = p] = a
    BY FirstRecord
  <2> HIDE DEF a
  <2>2. QED
    BY <1>0, <2>1 DEF SendBench, At, storeVars
<1>2. gen[g].bufs # <<>> /\ gen[g].pos > 0
  BY <1>1, GenOf DEF ControlOf
<1>3. IsSeq(p)
  BY <1>2, GeneratorAssumption, PointersPoint DEF p
<1>4. act'[g] = a /\ g \in Threads /\ g \notin Writers
  BY <1>1, ThreadKinds DEF ActInv
<1>5. ActRecord(g)'
  BY <1>3, <1>4 DEF ActRecord
<1>6. PlacesOf(g)'
  BY <1>4 DEF PlacesOf
<1> HIDE DEF a
<1>7. QED
  BY <1>1, <1>4, <1>5, <1>6, GrowsNot, ActOthers

LEMMA RecvAct ==
  ASSUME GenInv, BufferInv, RingInv, ActInv, [Next]_vars, NEW w \in Writers, Recv(w)
  PROVE  ActInv'
<1> DEFINE n == Min({Burst, Len(ring)})
           p == SubSeq(ring, 1, n)
           a == [pc |-> "claim", pkts |-> p, first |-> 0, next |-> 0]
<1>0. act' = [act EXCEPT ![w] = [Idle EXCEPT !.pc = "claim", !.pkts = p]]
  BY DEF Recv
<1> HIDE DEF p
<1>1. act' = [act EXCEPT ![w] = a] /\ claimed' = claimed
  <2>1. [Idle EXCEPT !.pc = "claim", !.pkts = p] = a
    BY FirstRecord
  <2> HIDE DEF a
  <2>2. QED
    BY <1>0, <2>1 DEF Recv, storeVars
<1>2. IsSeq(ring) /\ Len(ring) \in Nat /\ Burst \in Nat /\ \A i \in 1..Len(ring) : Points(ring[i], gen)
  BY SeqDomain, GeneratorAssumption DEF RingInv
<1>3. n \in 0..Len(ring)
  <2>1. n = IF Burst <= Len(ring) THEN Burst ELSE Len(ring)
    BY <1>2, MinPair
  <2>2. QED
    BY <1>2, <2>1
<1> HIDE DEF n
<1>4. IsSeq(p) /\ Len(p) = n /\ \A i \in 1..n : p[i] = ring[i]
  BY <1>2, <1>3, SubSeqIs DEF p
<1>5. \A i \in 1..Len(p) : Points(p[i], gen)
  BY <1>2, <1>3, <1>4
<1>6. act'[w] = a /\ w \in Threads
  BY <1>1, ThreadKinds DEF ActInv
<1>7. ActRecord(w)'
  BY <1>4, <1>6 DEF ActRecord
<1>8. PlacesOf(w)'
  BY <1>6 DEF PlacesOf
<1>9. a.pkts = p
  OBVIOUS
<1> HIDE DEF a
<1>10. QED
  BY <1>1, <1>5, <1>6, <1>7, <1>8, <1>9, GrowsNot, ActOthers

LEMMA PublishAct ==
  ASSUME GenInv, BufferInv, ActInv, [Next]_vars, NEW t \in Threads, Publish(t)
  PROVE  ActInv'
<1>1. act' = [act EXCEPT ![t] = Idle] /\ claimed' = claimed
  BY DEF Publish
<1>2. act'[t] = Idle
  BY <1>1 DEF ActInv
<1>3. IsSeq(<<>>) /\ Len(<<>>) = 0
  <2>1. <<>> \in Seq({})
    OBVIOUS
  <2>2. QED
    BY <2>1, SeqIs
<1>4. ActRecord(t)'
  BY <1>2, <1>3 DEF ActRecord, Idle
<1>5. PlacesOf(t)'
  BY <1>2 DEF PlacesOf, Idle
<1>6. \A i \in 1..Len(Idle.pkts) : Points(Idle.pkts[i], gen)
  BY <1>3 DEF Idle
<1>7. QED
  BY <1>1, <1>4, <1>5, <1>6, GrowsNot, ActOthers

\* What claiming makes of a store.
LEMMA ClaimPlaces ==
  ASSUME ActInv, NEW t \in Threads, Claim(t)
  PROVE  LET s == StoreOf(t)
             n == Len(act[t].pkts)
             first == Len(claimed[s])
         IN  /\ s \in Stores /\ n \in Nat /\ first \in Nat
             /\ claimed' = [x \in Stores |-> claimed'[x]]
             /\ \A x \in Stores \ {s} : claimed'[x] = claimed[x]
             /\ IsSeq(claimed'[s]) /\ Len(claimed'[s]) = first + n
             /\ \A i \in 1..first : claimed'[s][i] = claimed[s][i]
             /\ \A i \in 1..n : claimed'[s][first + i] = [pkt |-> act[t].pkts[i].pkt, got |-> NoPacket]
<1> DEFINE s == StoreOf(t)
           n == Len(act[t].pkts)
           first == Len(claimed[s])
           places == [i \in 1..n |-> [pkt |-> act[t].pkts[i].pkt, got |-> NoPacket]]
           q == claimed[s] \o places
<1>1. claimed' = [claimed EXCEPT ![s] = q]
  BY DEF Claim
<1>2. s \in Stores /\ IsSeq(claimed[s]) /\ first \in Nat
  BY StoreKinds, SeqDomain DEF ActInv
<1>3. n \in Nat
  BY ActOf, SeqDomain DEF ActRecord
<1>4. places = [i \in 1..n |-> places[i]]
  OBVIOUS
<1>5. \A i \in 1..n : places[i] = [pkt |-> act[t].pkts[i].pkt, got |-> NoPacket]
  OBVIOUS
<1> HIDE DEF places
<1>6. IsSeq(places) /\ Len(places) = n
  BY <1>3, <1>4, FunctionIs
<1>7. /\ IsSeq(q) /\ Len(q) = first + n
      /\ \A i \in 1..first : q[i] = claimed[s][i]
      /\ \A i \in 1..n : q[first + i] = places[i]
  <2> DEFINE c == claimed[s]
  <2>1. IsSeq(c) /\ IsSeq(places)
    BY <1>2, <1>6
  <2> HIDE DEF c
  <2>2. /\ IsSeq(c \o places) /\ Len(c \o places) = Len(c) + Len(places)
        /\ \A i \in 1..Len(c) : (c \o places)[i] = c[i]
        /\ \A i \in 1..Len(places) : (c \o places)[Len(c) + i] = places[i]
    BY <2>1, ConcatIs
  <2>3. QED
    BY <1>6, <2>2 DEF c
<1> HIDE DEF q
<1>8. claimed = [x \in Stores |-> claimed[x]]
  BY DEF ActInv
<1>9. claimed'[s] = q /\ (\A x \in Stores \ {s} : claimed'[x] = claimed[x]) /\ claimed' = [x \in Stores |-> claimed'[x]]
  BY <1>1, <1>2, <1>8
<1> HIDE DEF s, n
<1>10. QED
  BY <1>2, <1>3, <1>5, <1>7, <1>9 DEF s, n

LEMMA ClaimActInv ==
  ASSUME GenInv, BufferInv, ActInv, [Next]_vars, NEW t \in Threads, Claim(t)
  PROVE  ActInv'
<1> DEFINE s == StoreOf(t)
           n == Len(act[t].pkts)
           first == Len(claimed[s])
           pc == IF n = 0 THEN "end" ELSE "copy"
           a == [pc |-> pc, pkts |-> act[t].pkts, first |-> first, next |-> 1]
<1>1. act' = [act EXCEPT ![t] = a]
  BY ClaimAct
<1>2. /\ s \in Stores /\ n \in Nat /\ first \in Nat
      /\ claimed' = [x \in Stores |-> claimed'[x]]
      /\ \A x \in Stores \ {s} : claimed'[x] = claimed[x]
      /\ IsSeq(claimed'[s]) /\ Len(claimed'[s]) = first + n
      /\ \A i \in 1..first : claimed'[s][i] = claimed[s][i]
      /\ \A i \in 1..n : claimed'[s][first + i] = [pkt |-> act[t].pkts[i].pkt, got |-> NoPacket]
  BY ClaimPlaces
<1>3. ActRecord(t)
  BY ActOf
<1>4. act'[t] = a
  BY <1>1 DEF ActInv
<1>5. \A i \in 1..Len(claimed'[s]) : i \in 1..first \/ \E j \in 1..n : i = first + j
  <2>1. SUFFICES ASSUME NEW i \in 1..Len(claimed'[s]), i \notin 1..first
                 PROVE  \E j \in 1..n : i = first + j
    OBVIOUS
  <2> HIDE DEF n, first
  <2>2. i - first \in 1..n /\ i = first + (i - first)
    BY <1>2, <2>1
  <2>3. QED
    BY <2>2
<1>6. Grows
  <2>1. ASSUME NEW x \in Stores
        PROVE  /\ IsSeq(claimed'[x]) /\ Len(claimed[x]) <= Len(claimed'[x])
               /\ \A i \in 1..Len(claimed[x]) : claimed'[x][i].pkt = claimed[x][i].pkt
               /\ \A i \in 1..Len(claimed'[x]) : DOMAIN claimed'[x][i] = {"pkt", "got"}
    <3>1. CASE x = s
      <4>1. \A i \in 1..first : DOMAIN claimed[s][i] = {"pkt", "got"}
        BY <1>2 DEF ActInv
      <4>2. \A i \in 1..n : DOMAIN claimed'[s][first + i] = {"pkt", "got"}
        <5>1. \A i \in 1..n : claimed'[s][first + i] = [pkt |-> act[t].pkts[i].pkt, got |-> NoPacket]
          BY <1>2
        <5>2. ASSUME NEW i \in 1..n
              PROVE  DOMAIN claimed'[s][first + i] = {"pkt", "got"}
          <6> DEFINE q == claimed'[s][first + i]
          <6>1. q = [pkt |-> act[t].pkts[i].pkt, got |-> NoPacket]
            BY <5>1
          <6> HIDE DEF q
          <6>2. DOMAIN q = {"pkt", "got"}
            BY <6>1
          <6>3. QED
            BY <6>2 DEF q
        <5>3. QED
          BY <5>2
      <4>3. \A i \in 1..Len(claimed'[s]) : DOMAIN claimed'[s][i] = {"pkt", "got"}
        <5> HIDE DEF n, first, s
        <5> QED
          BY <1>2, <1>5, <4>1, <4>2
      <4>4. first <= first + n
        <5>1. n \in Nat /\ first \in Nat
          BY <1>2
        <5> HIDE DEF n, first
        <5>2. QED
          BY <5>1
      <4>5. QED
        BY <1>2, <3>1, <4>3, <4>4
    <3>2. CASE x # s
      <4>1. claimed'[x] = claimed[x] /\ Len(claimed[x]) \in Nat
        BY <1>2, <3>2, SeqDomain DEF ActInv
      <4>2. QED
        BY <4>1 DEF ActInv
    <3>3. QED
      BY <3>1, <3>2
  <2>2. QED
    BY <1>2, <2>1 DEF Grows
<1>7. ASSUME NEW d \in Daemons, NEW i \in 1..Len(claimed'[d])
      PROVE  Later(claimed'[d][i])
  <2>0. \A k \in 1..Len(claimed[d]) : Later(claimed[d][k])
    BY DEF ActInv
  <2>1. CASE d = s
    <3> DEFINE p == claimed'[s][i]
    <3>1. CASE i \in 1..first
      BY <1>2, <2>0, <2>1, <3>1
    <3>2. CASE \E j \in 1..n : i = first + j
      <4>1. PICK j \in 1..n : i = first + j
        BY <3>2
      <4>2. p = [pkt |-> act[t].pkts[j].pkt, got |-> NoPacket]
        BY <1>2, <4>1
      <4>3. p.got = NoPacket
        BY <4>2
      <4>4. QED
        BY <2>1, <4>3 DEF Later
    <3>3. QED
      BY <1>5, <1>7, <2>1, <3>1, <3>2
  <2>2. CASE d # s
    BY <1>2, <1>7, <2>0, <2>2, StoreKinds
  <2>3. QED
    BY <2>1, <2>2
<1>8. pc \in {"end", "copy"} /\ (pc = "copy" => 1 \in 1..n)
  BY <1>2
<1>9. /\ a.pc = pc /\ a.pkts = act[t].pkts /\ a.first = first /\ a.next = 1
      /\ DOMAIN a = {"pc", "pkts", "first", "next"}
  OBVIOUS
<1> HIDE DEF a, pc
<1>10. ActRecord(t)'
  BY <1>2, <1>3, <1>4, <1>8, <1>9 DEF ActRecord
<1>11. PlacesOf(t)'
  <2>1. \A i \in 1..n : claimed'[s][first + i].pkt = act[t].pkts[i].pkt
    <3>1. \A i \in 1..n : claimed'[s][first + i] = [pkt |-> act[t].pkts[i].pkt, got |-> NoPacket]
      BY <1>2
    <3>2. ASSUME NEW i \in 1..n
          PROVE  claimed'[s][first + i].pkt = act[t].pkts[i].pkt
      <4> DEFINE q == claimed'[s][first + i]
      <4>1. q = [pkt |-> act[t].pkts[i].pkt, got |-> NoPacket]
        BY <3>1
      <4> HIDE DEF q
      <4>2. q.pkt = act[t].pkts[i].pkt
        BY <4>1
      <4>3. QED
        BY <4>2 DEF q
    <3>3. QED
      BY <3>2
  <2>2. first + n <= Len(claimed'[s])
    BY <1>2
  <2>3. StoreOf(t)' = s
    BY DEF StoreOf
  <2> HIDE DEF s
  <2>4. QED
    BY <1>4, <1>8, <1>9, <2>1, <2>2, <2>3 DEF PlacesOf
<1>12. t \in Writers => \A i \in 1..Len(a.pkts) : Points(a.pkts[i], gen)
  BY <1>9 DEF ActInv
<1>13. QED
  BY <1>1, <1>6, <1>7, <1>10, <1>11, <1>12, ActOthers

\* What copying makes of a store.
LEMMA CopyPlaces ==
  ASSUME ActInv, NEW t \in Threads, Copy(t)
  PROVE  LET s == StoreOf(t)
             k == act[t].first + act[t].next
         IN  /\ s \in Stores /\ k \in 1..Len(claimed[s]) /\ act[t].next \in 1..Len(act[t].pkts)
             /\ claimed[s][k].pkt = act[t].pkts[act[t].next].pkt
             /\ claimed' = [x \in Stores |-> claimed'[x]]
             /\ \A x \in Stores \ {s} : claimed'[x] = claimed[x]
             /\ IsSeq(claimed'[s]) /\ Len(claimed'[s]) = Len(claimed[s])
             /\ \A i \in 1..Len(claimed[s]) : i # k => claimed'[s][i] = claimed[s][i]
             /\ claimed'[s][k].pkt = claimed[s][k].pkt
             /\ claimed'[s][k].got = data[act[t].pkts[act[t].next].buf]
             /\ DOMAIN claimed'[s][k] = {"pkt", "got"}
<1> DEFINE s == StoreOf(t)
           next == act[t].next
           n == Len(act[t].pkts)
           first == act[t].first
           k == first + next
           v == data[act[t].pkts[next].buf]
           p == [claimed[s][k] EXCEPT !.got = v]
           q == [claimed[s] EXCEPT ![k] = p]
<1>1. claimed' = [claimed EXCEPT ![s][k].got = v] /\ act[t].pc = "copy"
  BY DEF Copy
<1>2. s \in Stores /\ IsSeq(claimed[s]) /\ Len(claimed[s]) \in Nat
  BY StoreKinds, SeqDomain DEF ActInv
<1>3. ActRecord(t) /\ PlacesOf(t)
  BY ActOf
<1>4. n \in Nat /\ first \in Nat /\ next \in 1..n
  BY <1>1, <1>3, SeqDomain DEF ActRecord, PlacesOf
<1>5. /\ first + n <= Len(claimed[s])
      /\ \A i \in 1..n : claimed[s][first + i].pkt = act[t].pkts[i].pkt
  BY <1>1, <1>3 DEF PlacesOf
<1>6. k \in 1..Len(claimed[s]) /\ claimed[s][k].pkt = act[t].pkts[next].pkt
  <2>1. claimed[s][first + next].pkt = act[t].pkts[next].pkt
    BY <1>4, <1>5
  <2>2. first + next \in 1..Len(claimed[s])
    <3> DEFINE l == Len(claimed[s])
    <3>1. l \in Nat /\ first + n <= l
      BY <1>2, <1>5
    <3> HIDE DEF l, n, first, next
    <3>2. first + next \in 1..l
      BY <1>4, <3>1
    <3>3. QED
      BY <3>2 DEF l
  <2>3. QED
    BY <2>1, <2>2
<1>7. DOMAIN claimed[s][k] = {"pkt", "got"}
  BY <1>2, <1>6 DEF ActInv
<1>8. claimed = [x \in Stores |-> claimed[x]]
  BY DEF ActInv
<1> HIDE DEF v, k
<1>9. claimed' = [claimed EXCEPT ![s] = q]
  BY <1>1, <1>2, <1>8
<1>10. p.pkt = claimed[s][k].pkt /\ p.got = v /\ DOMAIN p = {"pkt", "got"}
  BY <1>7
<1> HIDE DEF p
<1>11. DOMAIN claimed[s] = 1..Len(claimed[s])
  BY <1>2, SeqDomain
<1>12. /\ q = [i \in 1..Len(claimed[s]) |-> q[i]] /\ q[k] = p
       /\ \A i \in 1..Len(claimed[s]) : i # k => q[i] = claimed[s][i]
  BY <1>6, <1>11
<1> HIDE DEF q
<1>13. IsSeq(q) /\ Len(q) = Len(claimed[s])
  <2> DEFINE l == Len(claimed[s])
  <2>1. l \in Nat /\ q = [i \in 1..l |-> q[i]]
    BY <1>2, <1>12
  <2> HIDE DEF l
  <2>2. IsSeq(q) /\ Len(q) = l
    BY <2>1, FunctionIs
  <2>3. QED
    BY <2>2 DEF l
<1> HIDE DEF s
<1>14. claimed'[s] = q /\ (\A x \in Stores \ {s} : claimed'[x] = claimed[x]) /\ claimed' = [x \in Stores |-> claimed'[x]]
  BY <1>2, <1>8, <1>9
<1> HIDE DEF n, first, next
<1>15. QED
  BY <1>2, <1>4, <1>6, <1>10, <1>12, <1>13, <1>14 DEF s, n, first, next, k, v

LEMMA CopyActInv ==
  ASSUME GenInv, BufferInv, DataInv, ActInv, [Next]_vars, NEW t \in Threads, Copy(t)
  PROVE  ActInv'
<1> DEFINE s == StoreOf(t)
           k == act[t].first + act[t].next
           m == act[t].next
           v == data[act[t].pkts[m].buf]
           pc == IF act[t].next = Len(act[t].pkts) THEN "end" ELSE "copy"
           a == [pc |-> pc, pkts |-> act[t].pkts, first |-> act[t].first, next |-> act[t].next + 1]
<1>1. act' = [act EXCEPT ![t] = a] /\ act'[t] = a
  BY CopyAct DEF ActInv
<1>2. /\ s \in Stores /\ k \in 1..Len(claimed[s]) /\ m \in 1..Len(act[t].pkts)
      /\ claimed[s][k].pkt = act[t].pkts[m].pkt
      /\ claimed' = [x \in Stores |-> claimed'[x]]
      /\ \A x \in Stores \ {s} : claimed'[x] = claimed[x]
      /\ IsSeq(claimed'[s]) /\ Len(claimed'[s]) = Len(claimed[s])
      /\ \A i \in 1..Len(claimed[s]) : i # k => claimed'[s][i] = claimed[s][i]
      /\ claimed'[s][k].pkt = claimed[s][k].pkt
      /\ claimed'[s][k].got = v
      /\ DOMAIN claimed'[s][k] = {"pkt", "got"}
  BY CopyPlaces
<1>3. ActRecord(t) /\ PlacesOf(t) /\ act[t].pc = "copy"
  BY ActOf DEF Copy
<1> HIDE DEF k, v
<1>4. Grows
  <2>1. ASSUME NEW x \in Stores
        PROVE  /\ IsSeq(claimed'[x]) /\ Len(claimed[x]) <= Len(claimed'[x])
               /\ \A i \in 1..Len(claimed[x]) : claimed'[x][i].pkt = claimed[x][i].pkt
               /\ \A i \in 1..Len(claimed'[x]) : DOMAIN claimed'[x][i] = {"pkt", "got"}
    <3>1. /\ Len(claimed[x]) \in Nat /\ IsSeq(claimed[x])
          /\ \A i \in 1..Len(claimed[x]) : DOMAIN claimed[x][i] = {"pkt", "got"}
      BY SeqDomain DEF ActInv
    <3>2. CASE x = s
      BY <1>2, <3>1, <3>2
    <3>3. CASE x # s
      BY <1>2, <3>1, <3>3
    <3>4. QED
      BY <3>2, <3>3
  <2>2. QED
    BY <1>2, <2>1 DEF Grows
<1>5. ASSUME NEW d \in Daemons, NEW i \in 1..Len(claimed'[d])
      PROVE  Later(claimed'[d][i])
  <2>0. \A j \in 1..Len(claimed[d]) : Later(claimed[d][j])
    BY DEF ActInv
  <2>1. CASE ~(d = s /\ i = k)
    BY <1>2, <1>5, <2>0, <2>1, StoreKinds
  <2>2. CASE d = s /\ i = k
    <3> DEFINE e == act[t].pkts[m]
    <3>1. t \in Writers
      BY <2>2, StoreKinds DEF Threads
    <3>2. Points(e, gen)
      BY <1>2, <3>1 DEF ActInv
    <3>3. PICK g \in Gens, j \in 1..Burst :
            /\ gen[g].bufs # <<>> /\ gen[g].pos > 0
            /\ e.buf = gen[g].bufs[j]
            /\ e.pkt.gen = g /\ e.pkt.n \in Nat
            /\ e.pkt.n <= gen[g].pos - Burst + j /\ ((gen[g].pos - Burst + j) - e.pkt.n) % Burst = 0
      BY <3>2 DEF Points
    <3>4. data[e.buf] = [gen |-> g, n |-> gen[g].pos - Burst + j]
      BY <3>3 DEF DataInv, Latest
    <3>5. v.gen = g /\ v.n = gen[g].pos - Burst + j
      BY <3>4 DEF v
    <3>6. claimed'[s][k].pkt = e.pkt
      BY <1>2
    <3> HIDE DEF e
    <3> DEFINE p == claimed'[s][k]
    <3>7. p.pkt = e.pkt /\ p.got = v
      BY <1>2, <3>6
    <3> HIDE DEF p
    <3>8. gen[g].pos - Burst + j \in Int
      BY GenType
    <3>9. p.got.gen = p.pkt.gen /\ p.got.n >= p.pkt.n /\ (p.got.n - p.pkt.n) % Burst = 0
      <4> DEFINE l == gen[g].pos - Burst + j
      <4>1. l \in Int /\ v.n = l /\ e.pkt.n <= l /\ (l - e.pkt.n) % Burst = 0
        BY <3>3, <3>5, <3>8
      <4> HIDE DEF l
      <4>2. QED
        BY <3>3, <3>5, <3>7, <4>1
    <3>10. Later(p)
      BY <3>9 DEF Later
    <3>11. QED
      BY <2>2, <3>10 DEF p
  <2>3. QED
    BY <2>1, <2>2
<1>6. a.pc = pc /\ a.pkts = act[t].pkts /\ a.first = act[t].first /\ a.next = m + 1 /\ DOMAIN a = {"pc", "pkts", "first", "next"}
  OBVIOUS
<1> DEFINE n == Len(act[t].pkts)
<1>7. n \in Nat /\ m \in 1..n /\ pc \in {"end", "copy"} /\ (pc = "copy" => m # n)
  BY <1>2, <1>3, SeqDomain DEF ActRecord
<1> HIDE DEF a, pc
<1>8. ActRecord(t)'
  BY <1>1, <1>3, <1>6, <1>7 DEF ActRecord
<1>9. PlacesOf(t)'
  <2>1. /\ act[t].first + n <= Len(claimed[s])
        /\ \A i \in 1..n : claimed[s][act[t].first + i].pkt = act[t].pkts[i].pkt
    BY <1>3 DEF PlacesOf
  <2>2. /\ Len(claimed'[s]) = Len(claimed[s])
        /\ \A i \in 1..Len(claimed[s]) : claimed'[s][i].pkt = claimed[s][i].pkt
    BY <1>2
  <2>3. \A i \in 1..n : act[t].first + i \in 1..Len(claimed[s])
    <3> DEFINE l == Len(claimed[s])
               f == act[t].first
    <3>1. l \in Nat /\ f \in Nat /\ f + n <= l
      BY <1>2, <1>3, <2>1, SeqDomain DEF ActInv, ActRecord
    <3> HIDE DEF l, f, n
    <3>2. \A i \in 1..n : f + i \in 1..l
      BY <1>7, <3>1
    <3>3. QED
      BY <3>2 DEF l, f
  <2>4. act[t].first + n <= Len(claimed'[s])
    BY <2>1, <2>2
  <2>5. ASSUME NEW i \in 1..n
        PROVE  claimed'[s][act[t].first + i].pkt = act[t].pkts[i].pkt
    BY <2>1, <2>2, <2>3
  <2>6. pc = "copy" => m + 1 \in 1..n
    <3> HIDE DEF n, m
    <3> QED
      BY <1>7
  <2>7. StoreOf(t)' = s
    BY DEF StoreOf
  <2> HIDE DEF s
  <2>8. QED
    BY <1>1, <1>6, <2>4, <2>5, <2>6, <2>7 DEF PlacesOf
<1>10. t \in Writers => \A i \in 1..Len(a.pkts) : Points(a.pkts[i], gen)
  BY <1>6 DEF ActInv
<1>11. QED
  BY <1>1, <1>4, <1>5, <1>8, <1>9, <1>10, ActOthers

LEMMA ExitAct ==
  ASSUME GenInv, BufferInv, ActInv, [Next]_vars, NEW d \in Daemons, Exit(d)
  PROVE  ActInv'
<1>1. /\ claimed' = [claimed EXCEPT ![d] = <<>>]
      /\ act' = [t \in Threads |-> IF t \in Gens \/ t[1] # d THEN act[t] ELSE Idle]
  BY DEF Exit
<1>2. /\ claimed'[d] = <<>> /\ (\A s \in Stores \ {d} : claimed'[s] = claimed[s])
      /\ claimed' = [s \in Stores |-> claimed'[s]]
  BY <1>1, StoreKinds DEF ActInv
<1>3. IsSeq(<<>>) /\ Len(<<>>) = 0
  <2>1. <<>> \in Seq({})
    OBVIOUS
  <2>2. QED
    BY <2>1, SeqIs
<1>4. ASSUME NEW t \in Threads
      PROVE  ActRecord(t)' /\ PlacesOf(t)'
  <2>1. CASE t \in Gens \/ t[1] # d
    <3>1. act'[t] = act[t] /\ ActRecord(t) /\ PlacesOf(t)
      BY <1>1, <2>1, ActOf
    <3>2. claimed'[StoreOf(t)] = claimed[StoreOf(t)]
      BY <1>2, <2>1, StoreKinds DEF Threads
    <3>3. QED
      BY <3>1, <3>2 DEF ActRecord, PlacesOf, StoreOf
  <2>2. CASE ~(t \in Gens \/ t[1] # d)
    <3>1. act'[t] = Idle
      BY <1>1, <2>2
    <3>2. QED
      BY <1>3, <3>1 DEF ActRecord, PlacesOf, Idle
  <2>3. QED
    BY <2>1, <2>2
<1>5. ASSUME NEW w \in Writers, NEW i \in 1..Len(act'[w].pkts)
      PROVE  Points(act'[w].pkts[i], gen')
  <2>1. CASE w[1] # d
    <3>1. act'[w] = act[w]
      BY <1>1, <2>1, ThreadKinds
    <3> DEFINE e == act[w].pkts[i]
    <3>2. Points(e, gen)
      BY <1>5, <3>1 DEF ActInv
    <3>3. Points(e, gen')
      BY <3>2, PointsStay
    <3>4. QED
      BY <3>1, <3>3
  <2>2. CASE w[1] = d
    <3>1. act'[w] = Idle
      BY <1>1, <2>2, ThreadKinds
    <3>2. QED
      BY <1>3, <1>5, <3>1 DEF Idle
  <2>3. QED
    BY <2>1, <2>2
<1>6. ASSUME NEW e \in Daemons, NEW i \in 1..Len(claimed'[e])
      PROVE  Later(claimed'[e][i])
  <2>1. CASE e = d
    BY <1>2, <1>3, <1>6, <2>1
  <2>2. CASE e # d
    <3>1. claimed'[e] = claimed[e]
      BY <1>2, <2>2, StoreKinds
    <3>2. QED
      BY <1>6, <3>1 DEF ActInv
  <2>3. QED
    BY <2>1, <2>2
<1>7. ASSUME NEW s \in Stores
      PROVE  IsSeq(claimed'[s]) /\ \A i \in 1..Len(claimed'[s]) : DOMAIN claimed'[s][i] = {"pkt", "got"}
  BY <1>2, <1>3 DEF ActInv
<1>8. act' = [t \in Threads |-> act'[t]]
  BY <1>1
<1>9. QED
  BY <1>2, <1>4, <1>5, <1>6, <1>7, <1>8 DEF ActInv

LEMMA ActPreserved ==
  ASSUME GenInv, BufferInv, DataInv, RingInv, ActInv, [Next]_vars
  PROVE  ActInv'
<1>1. ASSUME NEW t \in Threads, Insert(t)
      PROVE  ActInv'
  BY <1>1, ClaimActInv, CopyActInv, PublishAct DEF Insert
<1>2. ASSUME NEW g \in Gens, GenNext(g)
      PROVE  ActInv'
  <2>1. CASE Insert(g)
    BY <1>1, <2>1, ThreadKinds
  <2>2. CASE SendBench(g)
    BY <2>2, SendBenchAct
  <2>3. CASE ~Insert(g) /\ ~SendBench(g)
    <3>1. UNCHANGED <<act, claimed>>
      BY <1>2, <2>3 DEF GenNext, SendQuery, SendRing, storeVars
    <3>2. QED
      BY <3>1, ActStays
  <2>4. QED
    BY <2>1, <2>2, <2>3
<1>3. ASSUME NEW w \in Writers, WriterNext(w)
      PROVE  ActInv'
  BY <1>1, <1>3, RecvAct, ThreadKinds DEF WriterNext
<1>4. ASSUME NEW d \in Daemons, DaemonNext(d)
      PROVE  UNCHANGED <<act, claimed>>
  BY <1>4 DEF DaemonNext, StartMonitor, Monitor, storeVars
<1>5. Environment \/ UNCHANGED vars => UNCHANGED <<act, claimed>>
  BY DEF Environment, vars, storeVars
<1>6. QED
  BY <1>2, <1>3, <1>4, <1>5, ActStays, ExitAct DEF Next

-----------------------------------------------------------------------------
(* The store of a benchmark                                                *)

LEMMA PlacesCount ==
  ASSUME NEW g, NEW c, NEW i \in Nat
  PROVE  /\ IsFiniteSet(PlacesUpTo(g, c, i)) /\ Cardinality(PlacesUpTo(g, c, i)) \in Nat
         /\ PlacesUpTo(g, c, 0) = {} /\ Cardinality(PlacesUpTo(g, c, 0)) = 0
<1>1. IsFiniteSet(1..i)
  BY FS_Interval
<1>2. PlacesUpTo(g, c, i) \in SUBSET (1..i)
  BY DEF PlacesUpTo
<1>3. PlacesUpTo(g, c, 0) = {}
  BY DEF PlacesUpTo
<1>4. QED
  BY <1>1, <1>2, <1>3, FS_Subset, FS_CardinalityType, FS_EmptySet

\* A store that is the same up to a place, and one with more places from there on,
\* all of the generator's or none.
LEMMA SamePlaces ==
  ASSUME NEW g, NEW c, NEW d, NEW i \in Nat, \A j \in 1..i : d[j].pkt = c[j].pkt
  PROVE  PlacesUpTo(g, d, i) = PlacesUpTo(g, c, i)
BY DEF PlacesUpTo

LEMMA OtherPlaces ==
  ASSUME NEW g, NEW c, NEW d, NEW l \in Nat, NEW k \in Nat, l <= k,
         \A j \in 1..l : d[j].pkt = c[j].pkt,
         \A j \in (l + 1)..k : d[j].pkt.gen # g
  PROVE  PlacesUpTo(g, d, k) = PlacesUpTo(g, c, l)
<1>1. 1..k = (1..l) \cup ((l + 1)..k) /\ (1..l) \cap ((l + 1)..k) = {}
  OBVIOUS
<1>2. PlacesUpTo(g, d, k) = {j \in 1..k : d[j].pkt.gen = g} /\ PlacesUpTo(g, c, l) = {j \in 1..l : c[j].pkt.gen = g}
  BY DEF PlacesUpTo
<1>3. QED
  BY <1>1, <1>2

LEMMA OwnPlaces ==
  ASSUME NEW g, NEW c, NEW d, NEW l \in Nat, NEW k \in Nat, l <= k,
         \A j \in 1..l : d[j].pkt = c[j].pkt,
         \A j \in (l + 1)..k : d[j].pkt.gen = g
  PROVE  Cardinality(PlacesUpTo(g, d, k)) = Cardinality(PlacesUpTo(g, c, l)) + (k - l)
<1> DEFINE old == PlacesUpTo(g, c, l)
           new == PlacesUpTo(g, d, k)
           more == (l + 1)..k
<1>1. IsFiniteSet(old) /\ Cardinality(old) \in Nat
  BY PlacesCount
<1>2. new = {j \in 1..k : d[j].pkt.gen = g} /\ old = {j \in 1..l : c[j].pkt.gen = g}
  BY DEF PlacesUpTo
<1>3. 1..k = (1..l) \cup more /\ (1..l) \cap more = {}
  OBVIOUS
<1>4. IsFiniteSet(more) /\ Cardinality(more) = k - l
  <2> DEFINE a == l + 1
             q == Cardinality(a..k)
  <2>1. a \in Int /\ k \in Int /\ a = l + 1
    OBVIOUS
  <2> HIDE DEF a
  <2>2. IsFiniteSet(a..k) /\ q = IF a > k THEN 0 ELSE k - a + 1
    BY <2>1, FS_Interval
  <2> HIDE DEF q
  <2>3. q = k - l
    BY <2>1, <2>2
  <2>4. QED
    BY <2>2, <2>3 DEF q, a
<1>5. old \subseteq 1..l
  BY DEF PlacesUpTo
<1> HIDE DEF old, new, more
<1>6. new = old \cup more
  <2>1. \A j \in more : d[j].pkt.gen = g
    BY DEF more
  <2>2. \A j \in 1..l : d[j].pkt.gen = g <=> c[j].pkt.gen = g
    OBVIOUS
  <2>3. QED
    BY <1>2, <1>3, <2>1, <2>2
<1>7. Cardinality(old \cup more) = Cardinality(old) + Cardinality(more) - Cardinality(old \cap more)
  BY <1>1, <1>4, FS_Union
<1>8. old \cap more = {} /\ Cardinality({}) = 0
  BY <1>3, <1>5, FS_EmptySet
<1>9. Cardinality(new) = Cardinality(old) + (k - l)
  <2> DEFINE a == Cardinality(old)
             b == Cardinality(more)
             s == Cardinality(new)
  <2>1. s = a + b - 0 /\ b = k - l /\ a \in Nat
    BY <1>1, <1>4, <1>6, <1>7, <1>8
  <2> HIDE DEF a, b, s
  <2>2. s = a + (k - l)
    BY <2>1
  <2>3. QED
    BY <2>2 DEF a, s
<1>10. QED
  BY <1>9 DEF new, old

\* The same of the order of its packets: those of others do not disturb it, and
\* its own go on with it.
LEMMA OthersInOrder ==
  ASSUME NEW g, NEW c, NEW d, NEW total \in Nat, NEW n \in Nat, Len(c) \in Nat,
         Len(d) = Len(c) + n, InOrder(g, c, total),
         \A i \in 1..Len(c) : d[i] = c[i],
         \A i \in 1..n : d[Len(c) + i].pkt.gen # g
  PROVE  InOrder(g, d, total)
<1> DEFINE l == Len(c)
<1>1. /\ l \in Nat /\ Len(d) = l + n /\ \A i \in 1..l : d[i] = c[i]
      /\ \A i \in 1..n : d[l + i].pkt.gen # g
  OBVIOUS
<1>2. /\ Cardinality(PlacesUpTo(g, c, l)) = total
      /\ \A i \in 1..l : c[i].pkt.gen = g => /\ c[i].pkt.n = Cardinality(PlacesUpTo(g, c, i))
                                             /\ c[i].got \in {c[i].pkt, NoPacket}
  BY DEF InOrder
<1> HIDE DEF l
<1>3. \A i \in 0..l : PlacesUpTo(g, d, i) = PlacesUpTo(g, c, i)
  <2>1. TAKE i \in 0..l
  <2>2. i \in Nat /\ \A j \in 1..i : d[j].pkt = c[j].pkt
    BY <1>1
  <2>3. QED
    BY <2>2, SamePlaces
<1>4. Cardinality(PlacesUpTo(g, d, l + n)) = total
  <2> DEFINE k == l + n
  <2>1. k \in Nat /\ l <= k /\ \A j \in 1..l : d[j].pkt = c[j].pkt
    BY <1>1
  <2>2. \A j \in (l + 1)..k : j - l \in 1..n /\ j = l + (j - l)
    BY <1>1
  <2>3. \A j \in (l + 1)..k : d[j].pkt.gen # g
    BY <1>1, <2>2
  <2> HIDE DEF k
  <2>4. PlacesUpTo(g, d, k) = PlacesUpTo(g, c, l)
    BY <1>1, <2>1, <2>3, OtherPlaces
  <2>5. QED
    BY <1>2, <2>4 DEF k
<1>5. ASSUME NEW i \in 1..(l + n), d[i].pkt.gen = g
      PROVE  d[i].pkt.n = Cardinality(PlacesUpTo(g, d, i)) /\ d[i].got \in {d[i].pkt, NoPacket}
  <2>1. i \in 1..l
    <3>1. SUFFICES ASSUME i \notin 1..l
                   PROVE  FALSE
      OBVIOUS
    <3>2. i - l \in 1..n /\ i = l + (i - l)
      BY <1>1, <3>1
    <3>3. QED
      BY <1>1, <1>5, <3>2
  <2>2. d[i] = c[i] /\ PlacesUpTo(g, d, i) = PlacesUpTo(g, c, i)
    BY <1>1, <1>3, <2>1
  <2>3. QED
    BY <1>2, <1>5, <2>1, <2>2
<1>6. QED
  BY <1>1, <1>4, <1>5 DEF InOrder

LEMMA OwnInOrder ==
  ASSUME NEW g, NEW c, NEW d, NEW total \in Nat, NEW n \in Nat, Len(c) \in Nat,
         Len(d) = Len(c) + n, InOrder(g, c, total),
         \A i \in 1..Len(c) : d[i] = c[i],
         \A i \in 1..n : d[Len(c) + i] = [pkt |-> [gen |-> g, n |-> total + i], got |-> NoPacket]
  PROVE  InOrder(g, d, total + n)
<1> DEFINE l == Len(c)
<1>1. /\ l \in Nat /\ Len(d) = l + n /\ \A i \in 1..l : d[i] = c[i]
      /\ \A i \in 1..n : d[l + i] = [pkt |-> [gen |-> g, n |-> total + i], got |-> NoPacket]
  OBVIOUS
<1>2. /\ Cardinality(PlacesUpTo(g, c, l)) = total
      /\ \A i \in 1..l : c[i].pkt.gen = g => /\ c[i].pkt.n = Cardinality(PlacesUpTo(g, c, i))
                                             /\ c[i].got \in {c[i].pkt, NoPacket}
  BY DEF InOrder
<1> HIDE DEF l
<1>3. ASSUME NEW i \in 1..n
      PROVE  d[l + i].pkt.gen = g /\ d[l + i].pkt.n = total + i /\ d[l + i].got = NoPacket
  <2> DEFINE q == d[l + i]
  <2>1. q = [pkt |-> [gen |-> g, n |-> total + i], got |-> NoPacket]
    BY <1>1
  <2> HIDE DEF q
  <2>2. q.pkt.gen = g /\ q.pkt.n = total + i /\ q.got = NoPacket
    BY <2>1
  <2>3. QED
    BY <2>2 DEF q
<1>4. \A i \in 0..l : PlacesUpTo(g, d, i) = PlacesUpTo(g, c, i)
  <2>1. TAKE i \in 0..l
  <2>2. i \in Nat /\ \A j \in 1..i : d[j].pkt = c[j].pkt
    BY <1>1
  <2>3. QED
    BY <2>2, SamePlaces
<1>5. ASSUME NEW i \in 0..n
      PROVE  Cardinality(PlacesUpTo(g, d, l + i)) = total + i
  <2> DEFINE k == l + i
  <2>1. k \in Nat /\ l <= k /\ k - l = i /\ \A j \in 1..l : d[j].pkt = c[j].pkt
    BY <1>1
  <2>2. \A j \in (l + 1)..k : j - l \in 1..n /\ j = l + (j - l)
    BY <1>1
  <2>3. \A j \in (l + 1)..k : d[j].pkt.gen = g
    BY <1>3, <2>2
  <2> HIDE DEF k
  <2>4. Cardinality(PlacesUpTo(g, d, k)) = Cardinality(PlacesUpTo(g, c, l)) + (k - l)
    BY <1>1, <2>1, <2>3, OwnPlaces
  <2>5. QED
    BY <1>2, <2>1, <2>4 DEF k
<1>6. ASSUME NEW i \in 1..(l + n), d[i].pkt.gen = g
      PROVE  d[i].pkt.n = Cardinality(PlacesUpTo(g, d, i)) /\ d[i].got \in {d[i].pkt, NoPacket}
  <2>1. CASE i \in 1..l
    <3>1. d[i] = c[i] /\ PlacesUpTo(g, d, i) = PlacesUpTo(g, c, i)
      BY <1>1, <1>4, <2>1
    <3>2. QED
      BY <1>2, <1>6, <2>1, <3>1
  <2>2. CASE i \notin 1..l
    <3> DEFINE j == i - l
    <3>1. j \in 1..n /\ i = l + j
      BY <1>1, <2>2
    <3> HIDE DEF j
    <3>2. QED
      BY <1>3, <1>5, <3>1
  <2>3. QED
    BY <2>1, <2>2
<1>7. Cardinality(PlacesUpTo(g, d, l + n)) = total + n
  BY <1>5
<1>8. QED
  BY <1>1, <1>6, <1>7 DEF InOrder

\* A packet that is copied is the one its place was claimed for.
LEMMA CopiedInOrder ==
  ASSUME NEW g, NEW c, NEW d, NEW total, NEW k, Len(c) \in Nat, Len(d) = Len(c), InOrder(g, c, total),
         \A i \in 1..Len(c) : i # k => d[i] = c[i],
         d[k].pkt = c[k].pkt, d[k].got = c[k].pkt
  PROVE  InOrder(g, d, total)
<1> DEFINE l == Len(c)
<1>1. l \in Nat /\ Len(d) = l /\ \A i \in 1..l : i # k => d[i] = c[i]
  OBVIOUS
<1>2. /\ Cardinality(PlacesUpTo(g, c, l)) = total
      /\ \A i \in 1..l : c[i].pkt.gen = g => /\ c[i].pkt.n = Cardinality(PlacesUpTo(g, c, i))
                                             /\ c[i].got \in {c[i].pkt, NoPacket}
  BY DEF InOrder
<1> HIDE DEF l
<1>3. \A i \in 1..l : d[i].pkt = c[i].pkt
  BY <1>1
<1>4. ASSUME NEW i \in 0..l
      PROVE  PlacesUpTo(g, d, i) = PlacesUpTo(g, c, i)
  <2>1. \A j \in 1..i : d[j].pkt = c[j].pkt
    BY <1>1, <1>3
  <2>2. QED
    BY <2>1 DEF PlacesUpTo
<1>5. ASSUME NEW i \in 1..l, d[i].pkt.gen = g
      PROVE  d[i].pkt.n = Cardinality(PlacesUpTo(g, d, i)) /\ d[i].got \in {d[i].pkt, NoPacket}
  <2>1. d[i].pkt = c[i].pkt /\ PlacesUpTo(g, d, i) = PlacesUpTo(g, c, i)
    BY <1>1, <1>3, <1>4
  <2>2. c[i].pkt.n = Cardinality(PlacesUpTo(g, c, i)) /\ c[i].got \in {c[i].pkt, NoPacket}
    BY <1>2, <1>5, <2>1
  <2>3. d[i].got = c[i].got \/ d[i].got = c[i].pkt
    BY <1>1
  <2>4. QED
    BY <2>1, <2>2, <2>3
<1>6. PlacesUpTo(g, d, l) = PlacesUpTo(g, c, l)
  BY <1>1, <1>4
<1>7. QED
  BY <1>1, <1>2, <1>5, <1>6 DEF InOrder

\* A step that leaves the store and the generator's insert alone.
LEMMA BenchStays ==
  ASSUME NEW g \in Gens, BenchOf(g),
         claimed'[Bench] = claimed[Bench], act'[g] = act[g], gen'[g].sent = gen[g].sent,
         gen'[g].pc = "insert" => gen[g].pc = "insert" /\ gen'[g].bufs = gen[g].bufs
  PROVE  BenchOf(g)'
<1>1. gen'[g].pc = "insert" =>
        act'[g].pkts = [i \in 1..Burst |->
                          [buf |-> gen'[g].bufs[i], pkt |-> [gen |-> g, n |-> gen'[g].sent + i]]]
  BY DEF BenchOf
<1> DEFINE total == IF act[g].pc \in {"copy", "end"} THEN gen[g].sent + Burst ELSE gen[g].sent
<1>2. InOrder(g, claimed'[Bench], total)
  BY DEF BenchOf
<1>3. total = IF act'[g].pc \in {"copy", "end"} THEN gen'[g].sent + Burst ELSE gen'[g].sent
  OBVIOUS
<1> HIDE DEF total
<1>4. QED
  BY <1>1, <1>2, <1>3 DEF BenchOf

\* What a generator's insert holds while it is under way.
LEMMA BenchInsert ==
  ASSUME GenInv, BufferInv, DataInv, ActInv, BenchInv, NEW g \in Gens, act[g].pc # "idle"
  PROVE  /\ IsBench(g) /\ BenchOf(g) /\ IsSeq(act[g].pkts) /\ Len(act[g].pkts) = Burst
         /\ \A i \in 1..Burst :
              /\ act[g].pkts[i].pkt = [gen |-> g, n |-> gen[g].sent + i]
              /\ data[act[g].pkts[i].buf] = act[g].pkts[i].pkt
<1>1. /\ ControlOf(g) /\ SliceOf(g) /\ Burst \in Nat \ {0}
      /\ gen[g].sent \in Nat /\ gen[g].pos \in Nat
  BY GenOf, GenType
<1>2. gen[g].pc = "insert" /\ IsBench(g)
  BY <1>1 DEF ControlOf
<1>3. gen[g].pos = gen[g].sent + Burst /\ gen[g].bufs # <<>> /\ gen[g].pos > 0
  <2>1. gen[g].pos = gen[g].sent + Burst
    BY <1>1, <1>2 DEF SliceOf
  <2>2. gen[g].bufs # <<>>
    BY <1>1, <1>2 DEF ControlOf, Sends, IsBench
  <2>3. QED
    BY <1>1, <2>1, <2>2
<1>4. BenchOf(g)
  BY <1>2 DEF BenchInv
<1> DEFINE f == [i \in 1..Burst |-> [buf |-> gen[g].bufs[i], pkt |-> [gen |-> g, n |-> gen[g].sent + i]]]
<1>5. act[g].pkts = f
  BY <1>2, <1>4 DEF BenchOf
<1>6. f = [i \in 1..Burst |-> f[i]]
  OBVIOUS
<1>7. IsSeq(f) /\ Len(f) = Burst
  <2> HIDE DEF f
  <2> QED
    BY <1>1, <1>6, FunctionIs
<1>8. ASSUME NEW i \in 1..Burst
      PROVE  /\ f[i].pkt = [gen |-> g, n |-> gen[g].sent + i]
             /\ data[f[i].buf] = f[i].pkt
  <2>1. f[i].pkt = [gen |-> g, n |-> gen[g].sent + i] /\ f[i].buf = gen[g].bufs[i]
    OBVIOUS
  <2>2. data[gen[g].bufs[i]] = [gen |-> g, n |-> gen[g].pos - Burst + i]
    BY <1>3 DEF DataInv, Latest
  <2>3. gen[g].pos - Burst + i = gen[g].sent + i
    BY <1>1, <1>3
  <2>4. QED
    BY <2>1, <2>2, <2>3
<1> HIDE DEF f
<1>9. QED
  BY <1>2, <1>4, <1>5, <1>7, <1>8

\* The places of the benchmark's store after a claim, for each generator.
LEMMA BenchClaim ==
  ASSUME GenInv, BufferInv, DataInv, ActInv, BenchInv, NEW h \in Gens, Claim(h),
         NEW g \in Gens, BenchOf(g)
  PROVE  BenchOf(g)'
<1> DEFINE c == claimed[Bench]
           d == claimed'[Bench]
           sent == gen[g].sent
           q == act[h].pkts
<1>0. h \in Threads /\ g \in Threads /\ StoreOf(h) = Bench
  BY ThreadKinds, StoreKinds
<1>1. /\ Len(c) \in Nat /\ Len(d) = Len(c) + Len(q)
      /\ \A i \in 1..Len(c) : d[i] = c[i]
      /\ \A i \in 1..Len(q) : d[Len(c) + i] = [pkt |-> q[i].pkt, got |-> NoPacket]
  <2> DEFINE s == StoreOf(h)
  <2>1. /\ Len(claimed[s]) \in Nat /\ Len(claimed'[s]) = Len(claimed[s]) + Len(q)
        /\ \A i \in 1..Len(claimed[s]) : claimed'[s][i] = claimed[s][i]
        /\ \A i \in 1..Len(q) : claimed'[s][Len(claimed[s]) + i] = [pkt |-> q[i].pkt, got |-> NoPacket]
    BY <1>0, ClaimPlaces
  <2>2. s = Bench
    BY <1>0
  <2> HIDE DEF s
  <2>3. QED
    BY <2>1, <2>2
<1>2. act[h].pc = "claim" /\ gen' = gen
  BY DEF Claim, genVars
<1>3. Len(q) = Burst /\ \A i \in 1..Burst : q[i].pkt = [gen |-> h, n |-> gen[h].sent + i]
  BY <1>2, BenchInsert
<1>4. Burst \in Nat \ {0} /\ sent \in Nat
  BY GenType
<1>5. /\ act'[h].pc = "copy" /\ act'[h].pkts = q
      /\ \A u \in Threads \ {h} : act'[u] = act[u]
  <2> DEFINE a == [pc |-> IF Len(q) = 0 THEN "end" ELSE "copy", pkts |-> q,
                   first |-> Len(claimed[StoreOf(h)]), next |-> 1]
  <2>1. act' = [act EXCEPT ![h] = a]
    BY <1>0, ClaimAct
  <2>2. a.pc = "copy" /\ a.pkts = q
    BY <1>3, <1>4
  <2>3. act = [u \in Threads |-> act[u]]
    BY DEF ActInv
  <2> HIDE DEF a
  <2>4. QED
    BY <1>0, <2>1, <2>2, <2>3
<1> DEFINE total == IF act[g].pc \in {"copy", "end"} THEN sent + Burst ELSE sent
<1>6. InOrder(g, c, total) /\ total \in Nat
  BY <1>4 DEF BenchOf
<1>7. (h = g => total = sent)
  BY <1>2
<1>8. Len(d) = Len(c) + Burst
  BY <1>1, <1>3
<1>9. ASSUME NEW i \in 1..Burst
      PROVE  d[Len(c) + i] = [pkt |-> [gen |-> h, n |-> gen[h].sent + i], got |-> NoPacket]
  BY <1>1, <1>3
<1>10. InOrder(g, d, IF act'[g].pc \in {"copy", "end"} THEN sent + Burst ELSE sent)
  <2>1. CASE h = g
    <3>1. \A i \in 1..Burst : d[Len(c) + i] = [pkt |-> [gen |-> g, n |-> total + i], got |-> NoPacket]
      BY <1>7, <1>9, <2>1
    <3> HIDE DEF c, d, total
    <3>2. InOrder(g, d, total + Burst)
      BY <1>1, <1>4, <1>6, <1>8, <3>1, OwnInOrder
    <3>3. QED
      BY <1>5, <1>7, <2>1, <3>2
  <2>2. CASE h # g
    <3>1. \A i \in 1..Burst : d[Len(c) + i].pkt.gen # g
      <4>1. TAKE i \in 1..Burst
      <4> DEFINE p == d[Len(c) + i]
      <4>2. p = [pkt |-> [gen |-> h, n |-> gen[h].sent + i], got |-> NoPacket]
        BY <1>9
      <4> HIDE DEF p
      <4>3. p.pkt.gen = h
        BY <4>2
      <4>4. QED
        BY <2>2, <4>3 DEF p
    <3>2. act'[g] = act[g]
      BY <1>0, <1>5, <2>2
    <3>3. InOrder(g, d, total)
      <4> HIDE DEF c, d, total
      <4> QED
        BY <1>1, <1>4, <1>6, <1>8, <3>1, OthersInOrder
    <3>4. QED
      BY <3>2, <3>3
  <2>3. QED
    BY <2>1, <2>2
<1>11. gen'[g].pc = "insert" =>
         act'[g].pkts = [i \in 1..Burst |->
                           [buf |-> gen'[g].bufs[i], pkt |-> [gen |-> g, n |-> gen'[g].sent + i]]]
  <2>1. act'[g].pkts = act[g].pkts
    BY <1>0, <1>5
  <2>2. QED
    BY <1>2, <2>1 DEF BenchOf
<1>12. QED
  BY <1>2, <1>10, <1>11 DEF BenchOf

\* The packet that is copied is the one its place was claimed for, as the buffers
\* of a generator hold its last burst until that is inserted.
LEMMA BenchCopy ==
  ASSUME GenInv, BufferInv, DataInv, ActInv, BenchInv, NEW h \in Gens, Copy(h),
         NEW g \in Gens, BenchOf(g)
  PROVE  BenchOf(g)'
<1> DEFINE c == claimed[Bench]
           d == claimed'[Bench]
           sent == gen[g].sent
           q == act[h].pkts
           m == act[h].next
           k == act[h].first + act[h].next
<1>0. h \in Threads /\ g \in Threads /\ StoreOf(h) = Bench /\ IsSeq(c)
  BY ThreadKinds, StoreKinds DEF ActInv
<1>1. /\ k \in 1..Len(c) /\ m \in 1..Len(q) /\ c[k].pkt = q[m].pkt
      /\ Len(d) = Len(c) /\ \A i \in 1..Len(c) : i # k => d[i] = c[i]
      /\ d[k].pkt = c[k].pkt /\ d[k].got = data[q[m].buf]
  <2> DEFINE s == StoreOf(h)
  <2>1. /\ k \in 1..Len(claimed[s]) /\ m \in 1..Len(q) /\ claimed[s][k].pkt = q[m].pkt
        /\ Len(claimed'[s]) = Len(claimed[s])
        /\ \A i \in 1..Len(claimed[s]) : i # k => claimed'[s][i] = claimed[s][i]
        /\ claimed'[s][k].pkt = claimed[s][k].pkt /\ claimed'[s][k].got = data[q[m].buf]
    BY <1>0, CopyPlaces
  <2>2. s = Bench
    BY <1>0
  <2> HIDE DEF s
  <2>3. QED
    BY <2>1, <2>2
<1>2. act[h].pc = "copy" /\ gen' = gen
  BY DEF Copy, genVars
<1>3. Len(q) = Burst /\ \A i \in 1..Burst : data[q[i].buf] = q[i].pkt
  BY <1>2, BenchInsert
<1>4. /\ act'[h].pc \in {"copy", "end"} /\ act'[h].pkts = q
      /\ \A u \in Threads \ {h} : act'[u] = act[u]
  <2> DEFINE a == [pc |-> IF m = Len(q) THEN "end" ELSE "copy", pkts |-> q,
                   first |-> act[h].first, next |-> m + 1]
  <2>1. act' = [act EXCEPT ![h] = a]
    BY <1>0, CopyAct
  <2>2. a.pc \in {"copy", "end"} /\ a.pkts = q
    OBVIOUS
  <2>3. act = [u \in Threads |-> act[u]]
    BY DEF ActInv
  <2> HIDE DEF a
  <2>4. QED
    BY <1>0, <2>1, <2>2, <2>3
<1> DEFINE total == IF act[g].pc \in {"copy", "end"} THEN sent + Burst ELSE sent
<1>5. InOrder(g, c, total) /\ Len(c) \in Nat
  BY <1>0, SeqDomain DEF BenchOf
<1>6. d[k].got = c[k].pkt
  BY <1>1, <1>3
<1>7. InOrder(g, d, total)
  <2> HIDE DEF c, d, total, k
  <2> QED
    BY <1>1, <1>5, <1>6, CopiedInOrder
<1>8. act[g].pc \in {"copy", "end"} <=> act'[g].pc \in {"copy", "end"}
  BY <1>0, <1>2, <1>4
<1>9. InOrder(g, d, IF act'[g].pc \in {"copy", "end"} THEN sent + Burst ELSE sent)
  BY <1>7, <1>8
<1>10. gen'[g].pc = "insert" =>
         act'[g].pkts = [i \in 1..Burst |->
                           [buf |-> gen'[g].bufs[i], pkt |-> [gen |-> g, n |-> gen'[g].sent + i]]]
  <2>1. act'[g].pkts = act[g].pkts
    BY <1>0, <1>4
  <2>2. QED
    BY <1>2, <2>1 DEF BenchOf
<1>11. QED
  BY <1>2, <1>9, <1>10 DEF BenchOf

\* Only the end of a send counts packets as sent.
LEMMA SentSent ==
  ASSUME GenInv, NEW g \in Gens, NEW n, gen' = Sent(g, n)
  PROVE  gen'[g].sent = gen[g].sent + n /\ \A h \in Gens \ {g} : gen'[h] = gen[h]
<1> DEFINE total == gen[g].sent + n
           pc == IF gen[g].job.min_batch > 0 /\ gen[g].job.batch > 0 /\ total % gen[g].job.batch = 0
                   THEN "pace" ELSE "test"
           r == [gen[g] EXCEPT !.sent = total, !.pc = pc]
<1>1. gen \in [Gens -> GenRecords] /\ gen[g] \in GenRecords
  BY GenType, GenOf
<1>2. gen' = [gen EXCEPT ![g] = r]
  BY <1>1 DEF Sent
<1> HIDE DEF total, pc
<1>3. r.sent = total
  BY <1>1 DEF GenRecords
<1> HIDE DEF r
<1>4. QED
  BY <1>1, <1>2, <1>3 DEF total

LEMMA GenStepSent ==
  ASSUME GenInv, NEW g \in Gens, GenStep(g)
  PROVE  \A h \in Gens : gen'[h].sent = gen[h].sent
<1>1. gen \in [Gens -> GenRecords] /\ gen[g] \in GenRecords /\ ControlOf(g)
  BY GenType, GenOf
<1>2. CASE Construct(g) /\ gen' # gen
  <2> DEFINE bs == mbuf_alloc_bulk(Burst)
             r == [gen[g] EXCEPT !.pc = "ready", !.bufs = bs, !.tokens = Capacity,
                                 !.fill = clock, !.born = clock]
  <2>1. gen' = [gen EXCEPT ![g] = r]
    BY <1>1, <1>2 DEF Construct
  <2> HIDE DEF bs
  <2>2. r.sent = gen[g].sent
    BY <1>1 DEF GenRecords
  <2> HIDE DEF r
  <2>3. QED
    BY <1>1, <2>1, <2>2
<1>3. CASE ConstructPacer(g) /\ gen' # gen
  <2> DEFINE l == gen[g].job.batch * (Span \div gen[g].job.min_batch)
             r == [gen[g] EXCEPT !.pc = "ready", !.start = clock, !.epoch = clock, !.limit = l]
  <2>1. gen' = [gen EXCEPT ![g] = r]
    BY <1>1, <1>3 DEF ConstructPacer
  <2> HIDE DEF l
  <2>2. r.sent = gen[g].sent
    BY <1>1 DEF GenRecords
  <2> HIDE DEF r
  <2>3. QED
    BY <1>1, <2>1, <2>2
<1>4. CASE Begin(g)
  BY <1>1, <1>4 DEF Begin, GenRecords
<1>5. CASE Test(g)
  <2>1. PICK pc : gen' = [gen EXCEPT ![g].pc = pc]
    BY <1>5 DEF Test
  <2>2. QED
    BY <1>1, <2>1 DEF GenRecords
<1>6. CASE Pace(g)
  <2> DEFINE wake == clock + (gen[g].job.min_batch - (clock - gen[g].epoch))
             r1 == [gen[g] EXCEPT !.pc = "sleep", !.wake = wake]
             r2 == [gen[g] EXCEPT !.pc = "test", !.epoch = clock]
  <2>1. gen' = [gen EXCEPT ![g] = r1] \/ gen' = [gen EXCEPT ![g] = r2]
    BY <1>1, <1>6 DEF Pace
  <2> HIDE DEF wake
  <2>2. r1.sent = gen[g].sent /\ r2.sent = gen[g].sent
    BY <1>1 DEF GenRecords
  <2> HIDE DEF r1, r2
  <2>3. CASE gen' = [gen EXCEPT ![g] = r1]
    BY <1>1, <2>2, <2>3
  <2>4. CASE gen' = [gen EXCEPT ![g] = r2]
    BY <1>1, <2>2, <2>4
  <2>5. QED
    BY <2>1, <2>3, <2>4
<1>7. CASE Wake(g)
  BY <1>1, <1>7 DEF Wake, GenRecords
<1>8. CASE Fill(g)
  <2> DEFINE c == IF gen[g].job.rate = 0 THEN [ok |-> TRUE, r |-> gen[g]] ELSE consume(gen[g])
             p == gen[g].pos + Burst
             r1 == [c.r EXCEPT !.pc = "send", !.pos = p]
             r2 == [c.r EXCEPT !.pc = "test"]
  <2>1. gen' = [gen EXCEPT ![g] = IF c.ok THEN r1 ELSE r2] /\ gen[g].pc = "fill" /\ Sends(g)
    BY <1>8 DEF Fill, At
  <2>2. gen[g].bufs # <<>>
    BY <1>1, <2>1 DEF ControlOf
  <2>3. c.r \in GenRecords /\ c.r.sent = gen[g].sent
    <3>1. CASE gen[g].job.rate = 0
      BY <1>1, <3>1
    <3>2. CASE gen[g].job.rate # 0
      <4> DEFINE k == consume(gen[g])
      <4>1. k.r \in GenRecords /\ k.r = [gen[g] EXCEPT !.tokens = k.r.tokens, !.fill = clock]
        BY <2>2, Consumed
      <4>2. c = k
        BY <3>2
      <4> HIDE DEF c, k
      <4>3. k.r.sent = gen[g].sent
        BY <1>1, <4>1 DEF GenRecords
      <4>4. QED
        BY <4>1, <4>2, <4>3
    <3>3. QED
      BY <3>1, <3>2
  <2> HIDE DEF c, p
  <2>4. r1.sent = gen[g].sent /\ r2.sent = gen[g].sent
    BY <2>3 DEF GenRecords
  <2> HIDE DEF r1, r2
  <2>5. QED
    BY <1>1, <2>1, <2>4
<1>9. gen' = gen => \A h \in Gens : gen'[h].sent = gen[h].sent
  OBVIOUS
<1>10. QED
  BY <1>2, <1>3, <1>4, <1>5, <1>6, <1>7, <1>8, <1>9 DEF GenStep

\* An insert leaves the other threads' inserts and the other stores alone.
LEMMA InsertOthers ==
  ASSUME ActInv, NEW t \in Threads, Insert(t)
  PROVE  /\ \A u \in Threads \ {t} : act'[u] = act[u]
         /\ \A s \in Stores \ {StoreOf(t)} : claimed'[s] = claimed[s]
<1>1. act = [u \in Threads |-> act[u]]
  BY DEF ActInv
<1>2. PICK a : act' = [act EXCEPT ![t] = a]
  <2>1. CASE Claim(t)
    BY <2>1, ClaimAct
  <2>2. CASE Copy(t)
    BY <2>2, CopyAct
  <2>3. CASE Publish(t)
    BY <2>3 DEF Publish
  <2>4. QED
    BY <2>1, <2>2, <2>3 DEF Insert
<1>3. \A s \in Stores \ {StoreOf(t)} : claimed'[s] = claimed[s]
  <2>1. CASE Claim(t)
    BY <2>1, ClaimPlaces
  <2>2. CASE Copy(t)
    BY <2>2, CopyPlaces
  <2>3. CASE Publish(t)
    BY <2>3 DEF Publish
  <2>4. QED
    BY <2>1, <2>2, <2>3 DEF Insert
<1>4. QED
  BY <1>1, <1>2, <1>3

\* While a generator inserts, it keeps its buffers: BenchStays for any step.
LEMMA BenchFrame ==
  ASSUME GenInv, GenInv', BufferInv, ActInv, [Next]_vars, NEW g \in Gens, BenchOf(g),
         claimed'[Bench] = claimed[Bench], act'[g] = act[g], gen'[g].sent = gen[g].sent
  PROVE  BenchOf(g)'
<1>1. ControlOf(g) /\ ControlOf(g)'
  BY DEF GenInv
<1>2. ASSUME gen'[g].pc = "insert"
      PROVE  gen[g].pc = "insert" /\ gen'[g].bufs = gen[g].bufs
  <2>1. gen[g].pc = "insert" /\ IsBench(g)
    BY <1>1, <1>2 DEF ControlOf
  <2>2. gen[g].bufs # <<>>
    BY <1>1, <2>1 DEF ControlOf, IsBench, Sends
  <2>3. gen'[g].bufs = gen[g].bufs
    BY <2>2, MemorySteps DEF MemoryStays, Takes, Fills
  <2>4. QED
    BY <2>1, <2>3
<1>3. QED
  BY <1>2, BenchStays

\* The first step of an insert: the burst is the next packets of the generator.
LEMMA BenchSend ==
  ASSUME GenInv, GenInv', BufferInv, DataInv, ActInv, NEW g \in Gens, BenchOf(g), SendBench(g)
  PROVE  BenchOf(g)'
<1> DEFINE p == Pointers(g, Burst)
           a == [pc |-> "claim", pkts |-> p, first |-> 0, next |-> 0]
           sent == gen[g].sent
           f == [i \in 1..Burst |-> [buf |-> gen[g].bufs[i], pkt |-> [gen |-> g, n |-> sent + i]]]
<1>0. g \in Threads /\ ControlOf(g) /\ SliceOf(g) /\ gen[g].pos \in Nat /\ sent \in Nat
      /\ Burst \in Nat \ {0} /\ gen \in [Gens -> GenRecords]
  BY ThreadKinds, GenOf, GenType
<1>1. act' = [act EXCEPT ![g] = a]
  <2>1. act' = [act EXCEPT ![g] = [Idle EXCEPT !.pc = "claim", !.pkts = p]]
    BY DEF SendBench
  <2> HIDE DEF p
  <2>2. [Idle EXCEPT !.pc = "claim", !.pkts = p] = a
    BY FirstRecord
  <2> HIDE DEF a
  <2>3. QED
    BY <2>1, <2>2
<1>2. /\ gen[g].pc = "send" /\ IsBench(g) /\ gen' = [gen EXCEPT ![g].pc = "insert"]
      /\ claimed' = claimed
  BY DEF SendBench, At, IsBench, storeVars
<1>3. gen[g].bufs # <<>> /\ gen[g].pos > 0 /\ act[g].pc = "idle"
  BY <1>0, <1>2 DEF ControlOf, Sends, IsBench
<1>4. gen[g].pos = sent + Burst
  BY <1>0, <1>2 DEF SliceOf
<1>5. ASSUME NEW i \in 1..Burst
      PROVE  data[gen[g].bufs[i]] = [gen |-> g, n |-> sent + i]
  <2>1. data[gen[g].bufs[i]] = [gen |-> g, n |-> gen[g].pos - Burst + i]
    BY <1>3 DEF DataInv, Latest
  <2>2. gen[g].pos - Burst + i = sent + i
    BY <1>0, <1>4
  <2>3. QED
    BY <2>1, <2>2
<1>6. p = f
  BY <1>5 DEF Pointers
<1>7. act'[g].pc = "claim" /\ act'[g].pkts = p
  <2>1. act = [u \in Threads |-> act[u]] /\ a.pc = "claim" /\ a.pkts = p
    BY DEF ActInv
  <2> HIDE DEF a, p
  <2>2. QED
    BY <1>0, <1>1, <2>1
<1>8. gen'[g].sent = sent /\ gen'[g].bufs = gen[g].bufs
  BY <1>0, <1>2 DEF GenRecords
<1>9. InOrder(g, claimed[Bench], sent)
  BY <1>3 DEF BenchOf
<1> HIDE DEF p
<1>10. QED
  BY <1>2, <1>6, <1>7, <1>8, <1>9 DEF BenchOf

\* The last one: the burst counts as sent.
LEMMA BenchPublish ==
  ASSUME GenInv, GenInv', ActInv, NEW g \in Gens, BenchOf(g), Publish(g)
  PROVE  BenchOf(g)'
<1>1. /\ act[g].pc = "end" /\ act' = [act EXCEPT ![g] = Idle] /\ claimed' = claimed
      /\ gen' = Sent(g, Burst)
  BY DEF Publish
<1>2. act'[g].pc = "idle"
  BY <1>1, ThreadKinds DEF ActInv, Idle
<1>3. gen'[g].sent = gen[g].sent + Burst
  BY <1>1, SentSent
<1>4. gen'[g].pc # "insert"
  BY <1>2 DEF GenInv, ControlOf
<1>5. InOrder(g, claimed[Bench], gen[g].sent + Burst)
  BY <1>1 DEF BenchOf
<1>6. QED
  BY <1>1, <1>2, <1>3, <1>4, <1>5 DEF BenchOf

LEMMA BenchPreserved ==
  ASSUME GenInv, GenInv', BufferInv, DataInv, ActInv, BenchInv, [Next]_vars
  PROVE  BenchInv'
<1> SUFFICES ASSUME NEW g \in Gens, IsBench(g)'
             PROVE  BenchOf(g)'
  BY DEF BenchInv
<1>0. IsBench(g) /\ BenchOf(g) /\ g \in Threads
  BY MemorySteps, ThreadKinds DEF IsBench, BenchInv
<1>1. ASSUME claimed'[Bench] = claimed[Bench], act'[g] = act[g], gen'[g].sent = gen[g].sent
      PROVE  BenchOf(g)'
  BY <1>0, <1>1, BenchFrame
<1>2. act = [u \in Threads |-> act[u]]
  BY DEF ActInv
<1>3. ASSUME NEW h \in Gens, GenNext(h)
      PROVE  BenchOf(g)'
  <2>1. CASE GenStep(h) /\ UNCHANGED <<daemonVars, ring, storeVars, act, lost>>
    BY <1>1, <2>1, GenStepSent DEF storeVars
  <2>2. CASE SendBench(h)
    <3>1. CASE h = g
      BY <1>0, <2>2, <3>1, BenchSend
    <3>2. CASE h # g
      <4>1. /\ gen' = [gen EXCEPT ![h].pc = "insert"] /\ claimed' = claimed
            /\ act' = [act EXCEPT ![h] = [Idle EXCEPT !.pc = "claim", !.pkts = Pointers(h, Burst)]]
        BY <2>2 DEF SendBench, storeVars
      <4>2. gen'[g] = gen[g] /\ act'[g] = act[g]
        BY <1>0, <1>2, <3>2, <4>1, GenType
      <4>3. QED
        BY <1>1, <4>1, <4>2
    <3>3. QED
      BY <3>1, <3>2
  <2>3. CASE SendQuery(h) \/ SendRing(h)
    <3>1. h # g
      BY <1>0, <2>3 DEF SendQuery, SendRing, Sends, IsBench
    <3>2. UNCHANGED <<act, claimed>> /\ \E n : gen' = Sent(h, n)
      BY <2>3 DEF SendQuery, SendRing, storeVars
    <3>3. gen'[g] = gen[g]
      BY <3>1, <3>2, SentSent
    <3>4. QED
      BY <1>1, <3>2, <3>3
  <2>4. CASE Claim(h)
    BY <1>0, <2>4, BenchClaim
  <2>5. CASE Copy(h)
    BY <1>0, <2>5, BenchCopy
  <2>6. CASE Publish(h)
    <3>1. CASE h = g
      BY <1>0, <2>6, <3>1, BenchPublish
    <3>2. CASE h # g
      <4>1. gen' = Sent(h, Burst) /\ claimed' = claimed /\ act' = [act EXCEPT ![h] = Idle]
        BY <2>6 DEF Publish
      <4>2. gen'[g] = gen[g] /\ act'[g] = act[g]
        BY <1>0, <1>2, <3>2, <4>1, SentSent
      <4>3. QED
        BY <1>1, <4>1, <4>2
    <3>3. QED
      BY <3>1, <3>2
  <2>7. QED
    BY <1>3, <2>1, <2>2, <2>3, <2>4, <2>5, <2>6 DEF GenNext, Insert
<1>4. ASSUME NEW w \in Writers, WriterNext(w)
      PROVE  BenchOf(g)'
  <2>0. w # g /\ w \in Threads /\ w \notin Gens /\ StoreOf(w) # Bench /\ Bench \in Stores
    BY ThreadKinds, StoreKinds
  <2>1. CASE Recv(w)
    <3>1. PICK a : act' = [act EXCEPT ![w] = a]
      BY <2>1 DEF Recv
    <3>2. UNCHANGED <<gen, claimed>>
      BY <2>1 DEF Recv, genVars, storeVars
    <3>3. act'[g] = act[g]
      BY <1>0, <1>2, <2>0, <3>1
    <3>4. QED
      BY <1>1, <3>2, <3>3
  <2>2. CASE Insert(w)
    <3>1. act'[g] = act[g] /\ claimed'[Bench] = claimed[Bench]
      BY <1>0, <2>0, <2>2, InsertOthers
    <3>2. gen' = gen
      BY <2>0, <2>2 DEF Insert, Claim, Copy, Publish, genVars
    <3>3. QED
      BY <1>1, <3>1, <3>2
  <2>3. QED
    BY <1>4, <2>1, <2>2 DEF WriterNext
<1>5. ASSUME NEW d \in Daemons, DaemonNext(d)
      PROVE  BenchOf(g)'
  <2>1. UNCHANGED <<gen, act, claimed>>
    BY <1>5 DEF DaemonNext, StartMonitor, Monitor, genVars, storeVars
  <2>2. QED
    BY <1>1, <2>1
<1>6. ASSUME NEW d \in Daemons, Exit(d)
      PROVE  BenchOf(g)'
  <2>1. gen' = gen /\ act'[g] = act[g]
    BY <1>0, <1>6 DEF Exit, genVars
  <2>2. claimed'[Bench] = claimed[Bench]
    BY <1>6, StoreKinds DEF Exit, ActInv
  <2>3. QED
    BY <1>1, <2>1, <2>2
<1>7. ASSUME Environment \/ UNCHANGED vars
      PROVE  BenchOf(g)'
  <2>1. UNCHANGED <<gen, act, claimed>>
    BY <1>7 DEF Environment, Tick, Join, vars, genVars, storeVars
  <2>2. QED
    BY <1>1, <2>1
<1>8. QED
  BY <1>3, <1>4, <1>5, <1>6, <1>7 DEF Next

-----------------------------------------------------------------------------
(* The invariant                                                           *)

LEMMA EmptyIs ==
  ASSUME NEW s, s = <<>>
  PROVE  IsSeq(s) /\ Len(s) = 0 /\ \A i \in 1..Len(s) : FALSE
<1>1. s \in Seq({}) /\ Len(s) = 0
  OBVIOUS
<1>2. IsSeq(s)
  BY <1>1, SeqIs
<1>3. QED
  BY <1>1, <1>2

LEMMA GenInitial ==
  ASSUME Init
  PROVE  GenInv /\ BufferInv /\ DataInv /\ \A g \in Gens : gen[g].sent = 0
<1>1. PICK s \in Scenarios : GenInit(s.jobs)
  BY DEF Init
<1> DEFINE jobs == s.jobs
<1>2. jobs \in [Gens -> Jobs] /\ GenInit(jobs)
  BY <1>1, PipelineAssumption
<1>3. \A g \in Gens : /\ jobs[g].kind \in {"pktgen", "filter_bench", "none"} => jobs[g].min_batch = 0
                      /\ jobs[g].kind = "load_bench" => jobs[g].batch % Burst = 0
  BY BatchAssumption
<1> HIDE DEF jobs
<1>4. /\ clock = 0 /\ pool = Buffers /\ data = [b \in Buffers |-> NoPacket]
      /\ gen = [g \in Gens |-> Made(jobs[g])]
  BY <1>2 DEF GenInit
<1>5. /\ Burst \in Nat \ {0} /\ MaxTime \in Nat
      /\ act = [t \in Threads |-> Idle] /\ Gens \subseteq Threads
  BY GeneratorAssumption DEF Init, Threads
<1>6. ASSUME NEW g \in Gens
      PROVE  /\ gen[g] \in GenRecords /\ gen[g].job = jobs[g] /\ gen[g].bufs = <<>>
             /\ gen[g].pc = IF jobs[g].kind = "none" THEN "done" ELSE "new"
             /\ gen[g].pos = 0 /\ gen[g].sent = 0 /\ gen[g].born = 0 /\ gen[g].fill = 0
             /\ gen[g].start = 0 /\ gen[g].epoch = 0 /\ gen[g].limit \in Nat
  <2> DEFINE j == jobs[g]
             pc == IF j.kind = "none" THEN "done" ELSE "new"
  <2>1. j \in Jobs /\ j.limit \in Nat
    BY <1>2 DEF Jobs
  <2> DEFINE r == [job |-> j, pc |-> pc, limit |-> j.limit, bufs |-> <<>>, pos |-> 0, sent |-> 0,
                   tokens |-> 0, fill |-> 0, born |-> 0, start |-> 0, epoch |-> 0, wake |-> 0]
  <2>2. gen[g] = r
    BY <1>4 DEF Made
  <2>3. pc \in GenPcs
    BY DEF GenPcs
  <2> DEFINE l == j.limit
  <2> HIDE DEF j, pc
  <2>4. <<>> \in Seq(Buffers)
    OBVIOUS
  <2>5. r \in GenRecords
    BY <2>1, <2>3, <2>4 DEF GenRecords
  <2>6. /\ r.job = j /\ r.bufs = <<>> /\ r.pc = pc /\ r.pos = 0 /\ r.sent = 0 /\ r.born = 0
        /\ r.fill = 0 /\ r.start = 0 /\ r.epoch = 0 /\ r.limit = l
    OBVIOUS
  <2> HIDE DEF r
  <2>7. QED
    BY <2>1, <2>2, <2>5, <2>6 DEF j, pc
<1>7. ASSUME NEW g \in Gens
      PROVE  /\ JobOf(g) /\ ControlOf(g) /\ TimeOf(g)
             /\ RateOf(g) /\ SliceOf(g) /\ PaceOf(g)
  <2>1. JobOf(g)
    BY <1>3, <1>6 DEF JobOf
  <2>2. ControlOf(g)
    <3>1. act[g].pc = "idle"
      BY <1>5 DEF Idle
    <3>2. QED
      BY <1>6, <3>1 DEF ControlOf, Sends, IsBench
  <2>3. TimeOf(g) /\ RateOf(g)
    BY <1>4, <1>6 DEF TimeOf, RateOf
  <2>4. SliceOf(g)
    <3>1. 0 % Burst = 0
      BY <1>5
    <3>2. QED
      BY <1>5, <1>6, <3>1 DEF SliceOf
  <2>5. PaceOf(g)
    BY <1>6, <2>1 DEF PaceOf, JobOf
  <2>6. QED
    BY <2>1, <2>2, <2>3, <2>4, <2>5
<1>8. gen \in [Gens -> GenRecords]
  BY <1>4, <1>6
<1>9. GenInv
  BY <1>4, <1>5, <1>7, <1>8 DEF GenInv
<1>10. BufferInv
  <2>1. \A g \in Gens : \A i \in 1..Len(gen[g].bufs) : FALSE
    BY <1>6, EmptyIs
  <2>2. QED
    BY <1>4, <1>6, <2>1 DEF BufferInv
<1>11. DataInv
  BY <1>6 DEF DataInv
<1>12. QED
  BY <1>6, <1>9, <1>10, <1>11

LEMMA PipeInitial ==
  ASSUME Init
  PROVE  PipeInv
<1>1. DaemonInv /\ GenInv /\ BufferInv /\ DataInv
  BY DaemonInitial, GenInitial
<1>2. /\ ring = <<>> /\ claimed = [s \in Stores |-> <<>>] /\ act = [t \in Threads |-> Idle]
  BY DEF Init
<1>3. RingInv
  <2>1. IsSeq(ring) /\ Len(ring) = 0 /\ RingSize \in Nat
    BY <1>2, EmptyIs, PipelineAssumption
  <2>2. 1..Len(ring) = {}
    BY <2>1
  <2>3. QED
    BY <2>1, <2>2 DEF RingInv
<1>4. ActInv
  <2>1. \A t \in Threads : act[t] = Idle
    BY <1>2
  <2>2. ASSUME NEW t \in Threads
        PROVE  ActRecord(t) /\ PlacesOf(t)
    <3>1. /\ DOMAIN Idle = {"pc", "pkts", "first", "next"} /\ Idle.pc = "idle"
          /\ Idle.pkts = <<>> /\ Idle.first = 0 /\ Idle.next = 0
      BY DEF Idle
    <3>2. act[t] = Idle
      BY <2>1
    <3>3. ActRecord(t)
      BY <3>1, <3>2, EmptyIs DEF ActRecord
    <3>4. PlacesOf(t)
      BY <3>1, <3>2 DEF PlacesOf
    <3>5. QED
      BY <3>3, <3>4
  <2>3. \A w \in Writers : \A i \in 1..Len(act[w].pkts) : FALSE
    BY <2>1, ThreadKinds, EmptyIs DEF Idle
  <2>4. \A s \in Stores : claimed[s] = <<>>
    BY <1>2
  <2>5. \A s \in Stores : IsSeq(claimed[s]) /\ \A i \in 1..Len(claimed[s]) : FALSE
    BY <2>4, EmptyIs
  <2>6. \A d \in Daemons : \A i \in 1..Len(claimed[d]) : Later(claimed[d][i])
    BY <2>5, StoreKinds
  <2>7. act = [t \in Threads |-> act[t]] /\ claimed = [s \in Stores |-> claimed[s]]
    BY <1>2
  <2>8. QED
    BY <2>2, <2>3, <2>5, <2>6, <2>7 DEF ActInv
<1>5. ASSUME NEW g \in Gens
      PROVE  BenchOf(g)
  <2>1. claimed[Bench] = <<>> /\ act[g].pc = "idle"
    BY <1>2, StoreKinds, ThreadKinds DEF Idle
  <2>2. gen[g].sent = 0 /\ gen[g].pc # "insert"
    BY <1>1, <2>1, GenInitial, GenOf DEF ControlOf
  <2>3. InOrder(g, <<>>, 0)
    <3>1. Cardinality(PlacesUpTo(g, <<>>, 0)) = 0
      BY PlacesCount
    <3>2. QED
      BY <3>1, EmptyIs DEF InOrder
  <2>4. QED
    BY <2>1, <2>2, <2>3 DEF BenchOf
<1>6. QED
  BY <1>1, <1>3, <1>4, <1>5 DEF PipeInv, BenchInv

LEMMA PipeStep ==
  ASSUME PipeInv, [Next]_vars
  PROVE  PipeInv'
<1>1. DaemonInv'
  BY DaemonStep DEF PipeInv
<1>2. GenInv'
  BY GenPreserved DEF PipeInv
<1>3. BufferInv' /\ DataInv'
  BY BufferPreserved, DataPreserved DEF PipeInv
<1>4. RingInv' /\ ActInv'
  BY RingPreserved, ActPreserved DEF PipeInv
<1>5. BenchInv'
  BY <1>2, BenchPreserved DEF PipeInv
<1>6. QED
  BY <1>1, <1>2, <1>3, <1>4, <1>5 DEF PipeInv

THEOREM PipeInductive == Spec => []PipeInv
<1>1. Init => PipeInv
  BY PipeInitial
<1>2. PipeInv /\ [Next]_vars => PipeInv'
  BY PipeStep
<1>3. QED
  BY <1>1, <1>2, PTL DEF Spec

-----------------------------------------------------------------------------
(* What follows from it                                                    *)

\* token_bucket::consume never lets a generator send more than its capacity and
\* what its rate allows since it was made, wherever the calls fall in time.
THEOREM RateKeptHolds == Spec => []RateKept
<1>1. ASSUME PipeInv
      PROVE  RateKept
  <2>1. SUFFICES ASSUME NEW g \in Gens, gen[g].job.rate > 0, gen[g].bufs # <<>>, clock < MaxTime
                 PROVE  gen[g].pos < Capacity + gen[g].job.rate * (clock - gen[g].born)
    BY DEF RateKept
  <2>2. GenInv
    BY <1>1 DEF PipeInv
  <2>3. /\ gen[g].born \in Nat /\ gen[g].fill \in Nat /\ clock \in Nat /\ gen[g].job.rate \in Nat
        /\ gen[g].pos \in Nat /\ gen[g].tokens \in Nat /\ Capacity \in Nat
    BY <2>2, GenType
  <2>4. gen[g].born <= gen[g].fill /\ gen[g].fill <= clock
    BY <2>2, GenOf DEF TimeOf
  <2> DEFINE n == gen[g].job.rate
             x == n * (gen[g].fill - gen[g].born)
             y == n * (clock - gen[g].fill)
             z == n * (clock - gen[g].born)
  <2>5. gen[g].tokens >= 1 /\ gen[g].pos + gen[g].tokens <= Capacity + x
    BY <2>1, <2>2, GenOf DEF RateOf
  <2>6. x \in Nat /\ y \in Nat /\ z = x + y
    <3> DEFINE a == gen[g].born
               b == gen[g].fill
    <3>1. n \in Nat /\ a \in Nat /\ b \in Nat /\ clock \in Nat /\ a <= b /\ b <= clock
      BY <2>3, <2>4
    <3> HIDE DEF n, a, b
    <3>2. /\ n * (b - a) \in Nat /\ n * (clock - b) \in Nat
          /\ n * (clock - a) = n * (b - a) + n * (clock - b)
      BY <3>1, RateSplit
    <3>3. QED
      BY <3>2 DEF a, b
  <2> HIDE DEF n, x, y, z
  <2>7. gen[g].pos < Capacity + z
    BY <2>3, <2>5, <2>6
  <2>8. QED
    BY <2>7 DEF z, n
<1>2. QED
  BY <1>1, PipeInductive, PTL

\* generate() of the benchmarks reads no more than its part of pkt_data, short of
\* the burst under way when the limit is not a multiple of BURST_SIZE.
THEOREM WithinSliceHolds == Spec => []WithinSlice
<1>1. ASSUME PipeInv
      PROVE  WithinSlice
  <2>1. SUFFICES ASSUME NEW g \in Gens
                 PROVE  /\ gen[g].sent < gen[g].limit + Burst
                        /\ IsBench(g) =>
                             /\ gen[g].pos < gen[g].limit + Burst
                             /\ gen[g].limit % Burst = 0 => gen[g].pos <= gen[g].limit
    BY DEF WithinSlice, IsBench
  <2> DEFINE s == gen[g].sent
             m == gen[g].limit
             p == gen[g].pos
  <2>2. GenInv
    BY <1>1 DEF PipeInv
  <2>3. SliceOf(g) /\ s \in Nat /\ m \in Nat /\ p \in Nat /\ Burst \in Nat \ {0}
    BY <2>2, GenOf, GenType
  <2>4. s < m + Burst
    BY <2>3 DEF SliceOf
  <2>5. ASSUME IsBench(g)
        PROVE  p < m + Burst /\ p % Burst = 0
    <3>1. s % Burst = 0 /\ ((s < m /\ p = s + Burst) \/ p = s)
      BY <2>3, <2>5 DEF SliceOf
    <3> HIDE DEF s, m, p
    <3>2. (s + Burst) % Burst = s % Burst
      BY <2>3, AddBurst
    <3>3. QED
      BY <2>3, <2>4, <3>1, <3>2
  <2> HIDE DEF s, m, p
  <2>6. ASSUME IsBench(g), m % Burst = 0
        PROVE  p <= m
    BY <2>3, <2>5, <2>6, MultipleBelow
  <2>7. QED
    BY <2>4, <2>5, <2>6 DEF s, m, p
<1>2. QED
  BY <1>1, PipeInductive, PTL

\* rate_limiter and pacer::pace take at least min_batch for each batch, as long as
\* nanosleep accepts the time that is left.
THEOREM PacedHolds == Spec => []Paced
<1>1. ASSUME PipeInv
      PROVE  Paced
  <2> DEFINE r(g) == gen[g]
  <2>1. SUFFICES ASSUME NEW g \in Gens, r(g).job.min_batch > 0, r(g).job.min_batch < Second,
                        r(g).pc \in {"test", "fill", "done"}, r(g).job.batch # 0, clock # MaxTime
                 PROVE  clock - r(g).start >= (r(g).sent \div r(g).job.batch) * r(g).job.min_batch
    BY DEF Paced
  <2>2. GenInv
    BY <1>1 DEF PipeInv
  <2>3. /\ clock \in Nat /\ gen[g].start \in Nat /\ gen[g].epoch \in Nat /\ gen[g].epoch <= clock
        /\ gen[g].sent \in Nat /\ gen[g].job.batch \in Nat /\ gen[g].job.min_batch \in Nat
    BY <2>2, GenOf, GenType DEF TimeOf
  <2> DEFINE b == gen[g].sent \div gen[g].job.batch
             n == b * gen[g].job.min_batch
  <2>4. gen[g].epoch - gen[g].start >= n
    BY <2>1, <2>2, <2>3, GenOf DEF PaceOf
  <2>5. b \in Nat
    BY <2>1, <2>3
  <2> HIDE DEF b
  <2>6. n \in Nat
    BY <2>3, <2>5
  <2> HIDE DEF n
  <2>7. clock - gen[g].start >= n
    BY <2>3, <2>4, <2>6
  <2>8. QED
    BY <2>7 DEF n, b
<1>2. QED
  BY <1>1, PipeInductive, PTL

\* insert_pktburst stores a benchmark's packets once each, in order and as they
\* were made, though the generator's buffers are used again; a daemon stores what
\* pktgen sent or a later packet of the same buffer.
THEOREM StoredAsSentHolds == Spec => []StoredAsSent
<1>1. ASSUME PipeInv
      PROVE  StoredAsSent
  <2>1. ASSUME NEW g \in Gens, IsBench(g), NEW i \in 1..Len(claimed[Bench]),
               claimed[Bench][i].pkt.gen = g
        PROVE  /\ claimed[Bench][i].pkt.n = Cardinality({j \in 1..i : claimed[Bench][j].pkt.gen = g})
               /\ claimed[Bench][i].got \in {claimed[Bench][i].pkt, NoPacket}
    <3> DEFINE c == claimed[Bench]
    <3>1. PICK total : InOrder(g, c, total)
      BY <1>1, <2>1 DEF PipeInv, BenchInv, BenchOf
    <3>2. QED
      BY <2>1, <3>1 DEF InOrder, PlacesUpTo
  <2>2. \A d \in Daemons : \A i \in 1..Len(claimed[d]) : Later(claimed[d][i])
    BY <1>1 DEF PipeInv, ActInv
  <2>3. QED
    BY <2>1, <2>2 DEF StoredAsSent, IsBench, Later
<1>2. QED
  BY <1>1, PipeInductive, PTL

\* Of the daemons started with a pid file one at most gets past flock() and the
\* writing of its pid, and the file names that one until it ends.
THEOREM PidfileNamesHolds == Spec => []PidfileNames
<1>1. PipeInv => PidfileNames
  BY DEF PipeInv, DaemonInv, PidOf, PidfileNames
<1>2. QED
  BY <1>1, PipeInductive, PTL

\* netplay_daemon::start creates a writer's thread after all the calls that make
\* its port, and makes no port again.
THEOREM PolledReadyHolds == Spec => []PolledReady
<1>1. PipeInv => PolledReady
  BY DEF PipeInv, DaemonInv, PortOf, PolledReady
<1>2. QED
  BY <1>1, PipeInductive, PTL

-----------------------------------------------------------------------------
(* Packets sent and packets accounted for                                  *)

Pktgens == {g \in Gens : gen[g].job.kind = "pktgen"}
Sents == [g \in Pktgens |-> gen[g].sent]
Helds == [w \in Writers |-> Held(w)]
HeldBy(d) == [c \in Cores |-> Held(<<d, c>>)]
Storeds == [d \in Daemons |-> Len(claimed[d])]

\* Conserved, by the totals of the four functions.
AccountInv ==
  /\ lost \in Nat
  /\ Total(Sents, Pktgens) = lost + Len(ring) + Total(Helds, Writers) + Total(Storeds, Daemons)

LEMMA Finite ==
  /\ IsFiniteSet(Pktgens) /\ IsFiniteSet(Writers) /\ IsFiniteSet(Daemons) /\ IsFiniteSet(Cores)
<1>1. IsFiniteSet(Gens) /\ IsFiniteSet(Daemons) /\ IsFiniteSet(Cores)
  BY GeneratorAssumption, DaemonAssumption
<1>2. Pktgens \subseteq Gens
  BY DEF Pktgens
<1>3. QED
  BY <1>1, <1>2, FS_Subset, FS_Product DEF Writers

\* The sums that the model folds are totals.
LEMMA SentTotal ==
  MapThenSumSet(LAMBDA g : gen[g].sent, {g \in Gens : gen[g].job.kind = "pktgen"})
    = Total(Sents, Pktgens)
<1> DEFINE P(k) == k = [s \in SUBSET Pktgens |->
                         IF s = {} THEN 0
                         ELSE gen[Chosen(s)].sent + k[s \ {Chosen(s)}]]
           it == CHOOSE k : P(k)
<1>1. MapThenSumSet(LAMBDA g : gen[g].sent, {g \in Gens : gen[g].job.kind = "pktgen"}) = it[Pktgens]
  BY DEF MapThenSumSet, MapThenFoldSet, Chosen, Pktgens
<1>2. \A s \in SUBSET Pktgens : s # {} => Sents[Chosen(s)] = gen[Chosen(s)].sent
  BY DEF Sents, Chosen
<1>3. \A k : P(k) <=> IsSum(k, Sents, Pktgens)
  <2>1. TAKE k
  <2>2. QED
    BY <1>2, SumEquations DEF IsSum, Chosen
<1>4. \E k : P(k)
  BY <1>3, SumExists, Finite
<1>5. P(it)
  <2> HIDE DEF P
  <2> QED
    BY <1>4
<1>6. IsSum(it, Sents, Pktgens)
  BY <1>3, <1>5
<1> HIDE DEF it
<1>7. QED
  BY <1>1, <1>6, TotalIs, Finite

LEMMA HeldTotal == MapThenSumSet(Held, Writers) = Total(Helds, Writers)
<1> DEFINE P(k) == k = [s \in SUBSET Writers |->
                         IF s = {} THEN 0
                         ELSE Held(Chosen(s)) + k[s \ {Chosen(s)}]]
           it == CHOOSE k : P(k)
<1>1. MapThenSumSet(Held, Writers) = it[Writers]
  BY DEF MapThenSumSet, MapThenFoldSet, Chosen
<1>2. \A s \in SUBSET Writers : s # {} => Helds[Chosen(s)] = Held(Chosen(s))
  BY DEF Helds, Chosen
<1>3. \A k : P(k) <=> IsSum(k, Helds, Writers)
  <2>1. TAKE k
  <2>2. QED
    BY <1>2, SumEquations DEF IsSum, Chosen
<1>4. \E k : P(k)
  BY <1>3, SumExists, Finite
<1>5. P(it)
  <2> HIDE DEF P
  <2> QED
    BY <1>4
<1>6. IsSum(it, Helds, Writers)
  BY <1>3, <1>5
<1> HIDE DEF it
<1>7. QED
  BY <1>1, <1>6, TotalIs, Finite

LEMMA HeldByTotal ==
  ASSUME NEW d
  PROVE  MapThenSumSet(LAMBDA c : Held(<<d, c>>), Cores) = Total(HeldBy(d), Cores)
<1> DEFINE P(k) == k = [s \in SUBSET Cores |->
                         IF s = {} THEN 0
                         ELSE Held(<<d, Chosen(s)>>) + k[s \ {Chosen(s)}]]
           it == CHOOSE k : P(k)
<1>1. MapThenSumSet(LAMBDA c : Held(<<d, c>>), Cores) = it[Cores]
  BY DEF MapThenSumSet, MapThenFoldSet, Chosen
<1>2. \A s \in SUBSET Cores : s # {} => HeldBy(d)[Chosen(s)] = Held(<<d, Chosen(s)>>)
  BY DEF HeldBy, Chosen
<1>3. \A k : P(k) <=> IsSum(k, HeldBy(d), Cores)
  <2>1. TAKE k
  <2>2. QED
    BY <1>2, SumEquations DEF IsSum, Chosen
<1>4. \E k : P(k)
  BY <1>3, SumExists, Finite
<1>5. P(it)
  <2> HIDE DEF P
  <2> QED
    BY <1>4
<1>6. IsSum(it, HeldBy(d), Cores)
  BY <1>3, <1>5
<1> HIDE DEF it
<1>7. QED
  BY <1>1, <1>6, TotalIs, Finite

LEMMA StoredTotal ==
  MapThenSumSet(LAMBDA d : Len(claimed[d]), Daemons) = Total(Storeds, Daemons)
<1> DEFINE P(k) == k = [s \in SUBSET Daemons |->
                         IF s = {} THEN 0
                         ELSE Len(claimed[Chosen(s)]) + k[s \ {Chosen(s)}]]
           it == CHOOSE k : P(k)
<1>1. MapThenSumSet(LAMBDA d : Len(claimed[d]), Daemons) = it[Daemons]
  BY DEF MapThenSumSet, MapThenFoldSet, Chosen
<1>2. \A s \in SUBSET Daemons : s # {} => Storeds[Chosen(s)] = Len(claimed[Chosen(s)])
  BY DEF Storeds, Chosen
<1>3. \A k : P(k) <=> IsSum(k, Storeds, Daemons)
  <2>1. TAKE k
  <2>2. QED
    BY <1>2, SumEquations DEF IsSum, Chosen
<1>4. \E k : P(k)
  BY <1>3, SumExists, Finite
<1>5. P(it)
  <2> HIDE DEF P
  <2> QED
    BY <1>4
<1>6. IsSum(it, Storeds, Daemons)
  BY <1>3, <1>5
<1> HIDE DEF it
<1>7. QED
  BY <1>1, <1>6, TotalIs, Finite

\* What is counted are natural numbers.
LEMMA CountTypes ==
  ASSUME GenInv, RingInv, ActInv
  PROVE  /\ Sents \in [Pktgens -> Nat] /\ Helds \in [Writers -> Nat] /\ Storeds \in [Daemons -> Nat]
         /\ \A d \in Daemons : HeldBy(d) \in [Cores -> Nat]
         /\ \A w \in Writers : Held(w) \in Nat /\ Len(act[w].pkts) \in Nat
         /\ \A d \in Daemons : Len(claimed[d]) \in Nat
         /\ Len(ring) \in Nat
         /\ Total(Sents, Pktgens) \in Nat /\ Total(Helds, Writers) \in Nat
         /\ Total(Storeds, Daemons) \in Nat
<1>1. Sents \in [Pktgens -> Nat]
  BY GenType DEF Sents, Pktgens
<1>2. \A w \in Writers : Len(act[w].pkts) \in Nat
  BY ActOf, ThreadKinds, SeqDomain DEF ActRecord
<1>3. \A w \in Writers : Held(w) \in Nat
  BY <1>2 DEF Held
<1>4. \A d \in Daemons : Len(claimed[d]) \in Nat
  BY StoreKinds, SeqDomain DEF ActInv
<1>5. Len(ring) \in Nat
  BY SeqDomain DEF RingInv
<1>6. Helds \in [Writers -> Nat]
  BY <1>3 DEF Helds
<1>7. Storeds \in [Daemons -> Nat]
  BY <1>4 DEF Storeds
<1>8. \A d \in Daemons : HeldBy(d) \in [Cores -> Nat]
  BY <1>3 DEF HeldBy, Writers
<1>9. /\ Total(Sents, Pktgens) \in Nat /\ Total(Helds, Writers) \in Nat
      /\ Total(Storeds, Daemons) \in Nat
  BY <1>1, <1>6, <1>7, Finite, TotalType
<1>10. QED
  BY <1>1, <1>2, <1>3, <1>4, <1>5, <1>6, <1>7, <1>8, <1>9

\* ... and stay so.
LEMMA CountImplied ==
  GenInv /\ RingInv /\ ActInv =>
    Sents \in [Pktgens -> Nat] /\ Helds \in [Writers -> Nat] /\ Storeds \in [Daemons -> Nat]
BY CountTypes

LEMMA CountNext ==
  ASSUME GenInv', RingInv', ActInv'
  PROVE  Sents' \in [Pktgens' -> Nat] /\ Helds' \in [Writers -> Nat]
           /\ Storeds' \in [Daemons -> Nat]
<1>1. (GenInv /\ RingInv /\ ActInv =>
        Sents \in [Pktgens -> Nat] /\ Helds \in [Writers -> Nat] /\ Storeds \in [Daemons -> Nat])'
  BY CountImplied, PTL
<1>2. Writers' = Writers
  BY DEF Writers
<1>3. QED
  BY <1>1, <1>2

\* A step that moves no packet of pktgen.
LEMMA AccountStays ==
  ASSUME AccountInv, Pktgens' = Pktgens,
         \A g \in Pktgens : gen'[g].sent = gen[g].sent,
         \A w \in Writers : Held(w)' = Held(w),
         \A d \in Daemons : Len(claimed'[d]) = Len(claimed[d]),
         ring' = ring, lost' = lost
  PROVE  AccountInv'
<1>1. Sents' = Sents
  BY DEF Sents
<1>2. Helds' = Helds
  BY DEF Helds
<1>3. Storeds' = Storeds
  BY DEF Storeds
<1>4. QED
  BY <1>1, <1>2, <1>3 DEF AccountInv

LEMMA PktgensStay ==
  ASSUME GenInv, BufferInv, ActInv, [Next]_vars
  PROVE  Pktgens' = Pktgens
BY MemorySteps DEF Pktgens

\* What the ring takes counts as sent, and no more.
LEMMA AccountSend ==
  ASSUME GenInv, BufferInv, DataInv, RingInv, ActInv, [Next]_vars, AccountInv,
         RingInv', GenInv', ActInv', NEW h \in Gens, SendRing(h)
  PROVE  AccountInv'
<1> DEFINE n == Min({Burst, RingSize - Len(ring)})
           p == Pointers(h, n)
<1>1. /\ Len(ring) \in Nat /\ Len(ring) <= RingSize /\ RingSize \in Nat /\ Burst \in Nat \ {0}
      /\ IsSeq(ring)
  BY SeqDomain, PipelineAssumption, GeneratorAssumption DEF RingInv
<1>2. n \in 0..Burst
  <2>1. n = IF Burst <= RingSize - Len(ring) THEN Burst ELSE RingSize - Len(ring)
    BY <1>1, MinPair
  <2>2. QED
    BY <1>1, <2>1
<1>3. /\ ring' = ring \o p /\ gen' = Sent(h, n) /\ gen[h].pc = "send" /\ h \in Pktgens
      /\ UNCHANGED <<act, claimed, lost>>
  BY DEF SendRing, At, storeVars, Pktgens
<1> HIDE DEF n
<1>4. IsSeq(p) /\ Len(p) = n
  <2>1. gen[h].bufs # <<>> /\ gen[h].pos > 0
    BY <1>3, GenOf DEF ControlOf
  <2>2. QED
    BY <1>2, <2>1, PointersPoint
<1> HIDE DEF p
<1>5. Len(ring') = Len(ring) + n
  BY <1>1, <1>3, <1>4, ConcatIs
<1>6. /\ gen'[h].sent = gen[h].sent + n /\ Pktgens' = Pktgens
      /\ \A g \in Gens \ {h} : gen'[g] = gen[g]
  BY <1>3, SentSent, PktgensStay
<1>7. Total(Sents', Pktgens) = Total(Sents, Pktgens) + n
  <2>1. Sents \in [Pktgens -> Nat] /\ Sents' \in [Pktgens -> Nat]
    BY <1>6, CountTypes, CountNext
  <2>2. \A g \in Pktgens \ {h} : Sents'[g] = Sents[g]
    BY <1>6 DEF Sents, Pktgens
  <2>3. Sents'[h] = gen[h].sent + n /\ Sents[h] = gen[h].sent /\ gen[h].sent \in Nat
    BY <1>3, <1>6, GenType DEF Sents
  <2>4. Total(Sents', Pktgens) = Total(Sents, Pktgens) - Sents[h] + Sents'[h]
    BY <1>3, <2>1, <2>2, Finite, TotalUpdate
  <2>5. Total(Sents, Pktgens) \in Nat
    BY CountTypes
  <2>6. QED
    BY <1>2, <2>3, <2>4, <2>5
<1>8. Helds' = Helds /\ Storeds' = Storeds
  BY <1>3 DEF Helds, Held, Storeds
<1>9. /\ Total(Sents, Pktgens) \in Nat /\ Total(Helds, Writers) \in Nat
      /\ Total(Storeds, Daemons) \in Nat
  BY CountTypes
<1>10. (Total(Sents, Pktgens))' = Total(Sents', Pktgens)
  BY <1>6
<1>11. QED
  BY <1>1, <1>2, <1>3, <1>5, <1>7, <1>8, <1>9, <1>10 DEF AccountInv

\* What a writer receives is no longer in the ring.
LEMMA AccountRecv ==
  ASSUME GenInv, BufferInv, RingInv, ActInv, [Next]_vars, AccountInv,
         RingInv', GenInv', ActInv', NEW w \in Writers, Recv(w)
  PROVE  AccountInv'
<1> DEFINE n == Min({Burst, Len(ring)})
           p == SubSeq(ring, 1, n)
           a == [pc |-> "claim", pkts |-> p, first |-> 0, next |-> 0]
<1>1. Len(ring) \in Nat /\ Burst \in Nat /\ IsSeq(ring)
  BY SeqDomain, GeneratorAssumption DEF RingInv
<1>2. n \in 0..Len(ring)
  <2>1. n = IF Burst <= Len(ring) THEN Burst ELSE Len(ring)
    BY <1>1, MinPair
  <2>2. QED
    BY <1>1, <2>1
<1>3. /\ ring' = SubSeq(ring, n + 1, Len(ring)) /\ act[w].pc = "idle"
      /\ act' = [act EXCEPT ![w] = [Idle EXCEPT !.pc = "claim", !.pkts = p]]
      /\ UNCHANGED <<gen, claimed, lost>>
  BY DEF Recv, genVars, storeVars
<1> HIDE DEF n
<1>4. Len(ring') = Len(ring) - n
  BY <1>1, <1>2, <1>3, SubSeqIs
<1>5. Len(p) = n
  BY <1>1, <1>2, SubSeqIs
<1> HIDE DEF p
<1>6. act' = [act EXCEPT ![w] = a]
  <2>1. [Idle EXCEPT !.pc = "claim", !.pkts = p] = a
    BY FirstRecord
  <2> HIDE DEF a
  <2>2. QED
    BY <1>3, <2>1
<1>7. act'[w].pc = "claim" /\ act'[w].pkts = p /\ \A u \in Threads \ {w} : act'[u] = act[u]
  <2>1. act = [u \in Threads |-> act[u]] /\ w \in Threads /\ a.pc = "claim" /\ a.pkts = p
    BY ThreadKinds DEF ActInv
  <2> HIDE DEF a
  <2>2. QED
    BY <1>6, <2>1
<1>8. Total(Helds', Writers) = Total(Helds, Writers) + n
  <2>1. Helds \in [Writers -> Nat] /\ Helds' \in [Writers -> Nat]
    BY CountTypes, CountNext
  <2>2. \A u \in Writers \ {w} : Helds'[u] = Helds[u]
    BY <1>7, ThreadKinds DEF Helds, Held
  <2>3. Helds[w] = 0 /\ Helds'[w] = n
    BY <1>3, <1>5, <1>7 DEF Helds, Held
  <2>4. Total(Helds', Writers) = Total(Helds, Writers) - Helds[w] + Helds'[w]
    BY <2>1, <2>2, Finite, TotalUpdate
  <2>5. Total(Helds, Writers) \in Nat
    BY CountTypes
  <2>6. QED
    BY <1>1, <1>2, <2>3, <2>4, <2>5
<1>9. Sents' = Sents /\ Storeds' = Storeds /\ Pktgens' = Pktgens
  BY <1>3 DEF Sents, Storeds, Pktgens
<1>10. /\ Total(Sents, Pktgens) \in Nat /\ Total(Helds, Writers) \in Nat
       /\ Total(Storeds, Daemons) \in Nat
  BY CountTypes
<1>11. (Total(Helds, Writers))' = Total(Helds', Writers)
  BY DEF Writers
<1>12. QED
  BY <1>1, <1>2, <1>3, <1>4, <1>8, <1>9, <1>10, <1>11 DEF AccountInv

\* Then it has its places in the daemon's store.
LEMMA AccountClaim ==
  ASSUME GenInv, BufferInv, RingInv, ActInv, [Next]_vars, AccountInv,
         RingInv', GenInv', ActInv', NEW w \in Writers, Claim(w)
  PROVE  AccountInv'
<1> DEFINE d == w[1]
           n == Len(act[w].pkts)
           a == [pc |-> IF n = 0 THEN "end" ELSE "copy", pkts |-> act[w].pkts,
                 first |-> Len(claimed[StoreOf(w)]), next |-> 1]
<1>1. /\ w \in Threads /\ d \in Daemons /\ StoreOf(w) = d /\ d \in Stores
      /\ \A e \in Daemons : e \in Stores
  BY ThreadKinds, StoreKinds
<1>2. act[w].pc = "claim" /\ UNCHANGED <<gen, ring, lost>> /\ n \in Nat
  BY CountTypes DEF Claim, genVars
<1>3. act' = [act EXCEPT ![w] = a]
  BY <1>1, ClaimAct
<1>4. act'[w].pc # "claim" /\ \A u \in Threads \ {w} : act'[u] = act[u]
  <2>1. act = [u \in Threads |-> act[u]] /\ a.pc # "claim"
    BY DEF ActInv
  <2> HIDE DEF a
  <2>2. QED
    BY <1>1, <1>3, <2>1
<1> HIDE DEF a
<1>5. /\ Len(claimed'[d]) = Len(claimed[d]) + n
      /\ \A e \in Daemons \ {d} : claimed'[e] = claimed[e]
  <2> DEFINE s == StoreOf(w)
  <2>1. /\ Len(claimed'[s]) = Len(claimed[s]) + n
        /\ \A e \in Stores \ {s} : claimed'[e] = claimed[e]
    BY <1>1, ClaimPlaces
  <2>2. s = d
    BY <1>1
  <2> HIDE DEF s, d
  <2>3. QED
    BY <1>1, <2>1, <2>2
<1> HIDE DEF d
<1>6. Total(Helds', Writers) = Total(Helds, Writers) - n
  <2>1. Helds \in [Writers -> Nat] /\ Helds' \in [Writers -> Nat]
    BY CountTypes, CountNext
  <2>2. \A u \in Writers \ {w} : Helds'[u] = Helds[u]
    BY <1>4, ThreadKinds DEF Helds, Held
  <2>3. Helds[w] = n /\ Helds'[w] = 0
    BY <1>2, <1>4 DEF Helds, Held
  <2>4. Total(Helds', Writers) = Total(Helds, Writers) - Helds[w] + Helds'[w]
    BY <2>1, <2>2, Finite, TotalUpdate
  <2>5. Total(Helds, Writers) \in Nat
    BY CountTypes
  <2> HIDE DEF n
  <2>6. QED
    BY <1>2, <2>3, <2>4, <2>5
<1>7. Total(Storeds', Daemons) = Total(Storeds, Daemons) + n
  <2>1. Storeds \in [Daemons -> Nat] /\ Storeds' \in [Daemons -> Nat]
    BY CountTypes, CountNext
  <2>2. \A e \in Daemons \ {d} : Storeds'[e] = Storeds[e]
    BY <1>5 DEF Storeds
  <2>3. Storeds[d] = Len(claimed[d]) /\ Storeds'[d] = Len(claimed[d]) + n
    BY <1>1, <1>5 DEF Storeds
  <2>4. Total(Storeds', Daemons) = Total(Storeds, Daemons) - Storeds[d] + Storeds'[d]
    BY <1>1, <2>1, <2>2, Finite, TotalUpdate
  <2>5. Total(Storeds, Daemons) \in Nat /\ Len(claimed[d]) \in Nat
    BY <1>1, CountTypes
  <2> HIDE DEF n
  <2>6. QED
    BY <1>2, <2>3, <2>4, <2>5
<1>8. Sents' = Sents /\ Pktgens' = Pktgens
  BY <1>2 DEF Sents, Pktgens
<1>9. /\ Total(Sents, Pktgens) \in Nat /\ Total(Helds, Writers) \in Nat
      /\ Total(Storeds, Daemons) \in Nat /\ Len(ring) \in Nat
  BY CountTypes
<1>10. (Total(Helds, Writers))' = Total(Helds', Writers)
  BY DEF Writers
<1> HIDE DEF n
<1>11. QED
  BY <1>2, <1>6, <1>7, <1>8, <1>9, <1>10 DEF AccountInv

\* A process that ends takes its store with it, and what its writers hold.
LEMMA AccountExit ==
  ASSUME GenInv, BufferInv, RingInv, ActInv, [Next]_vars, AccountInv,
         RingInv', GenInv', ActInv', NEW d \in Daemons, Exit(d)
  PROVE  AccountInv'
<1> DEFINE held == Total(HeldBy(d), Cores)
           n == Len(claimed[d])
<1>1. /\ lost' = lost + n + held
      /\ claimed' = [claimed EXCEPT ![d] = <<>>]
      /\ act' = [t \in Threads |-> IF t \in Gens \/ t[1] # d THEN act[t] ELSE Idle]
      /\ UNCHANGED <<gen, ring>>
  BY HeldByTotal DEF Exit, genVars
<1>2. d \in Stores /\ claimed = [s \in Stores |-> claimed[s]]
  BY StoreKinds DEF ActInv
<1>3. \A w \in Writers : Held(w)' = IF w[1] = d THEN 0 ELSE Held(w)
  <2>1. TAKE w \in Writers
  <2>2. w \in Threads /\ w \notin Gens
    BY ThreadKinds
  <2>3. CASE w[1] = d
    <3>1. act'[w] = Idle
      BY <1>1, <2>2, <2>3
    <3>2. QED
      BY <2>3, <3>1 DEF Held, Idle
  <2>4. CASE w[1] # d
    <3>1. act'[w] = act[w]
      BY <1>1, <2>2, <2>4
    <3>2. QED
      BY <2>4, <3>1 DEF Held
  <2>5. QED
    BY <2>3, <2>4
<1>4. held \in Nat /\ n \in Nat
  BY CountTypes, Finite, TotalType
<1>5. Total(Helds', Writers) = Total(Helds, Writers) - held
  <2> DEFINE f == Helds
             h == Helds'
             r == HeldBy(d)
  <2>1. /\ f \in [Daemons \X Cores -> Nat] /\ h \in [Daemons \X Cores -> Nat]
        /\ r \in [Cores -> Nat]
    <3>1. Helds \in [Writers -> Nat] /\ Helds' \in [Writers -> Nat] /\ HeldBy(d) \in [Cores -> Nat]
      BY CountTypes, CountNext
    <3>2. QED
      BY <3>1 DEF Writers
  <2>2. \A c \in Cores : r[c] = f[<<d, c>>]
    BY DEF HeldBy, Helds, Writers
  <2>3. \A w \in Daemons \X Cores : h[w] = IF w[1] = d THEN 0 ELSE f[w]
    BY <1>3 DEF Helds, Writers
  <2> HIDE DEF f, h, r
  <2>4. Total(h, Daemons \X Cores) = Total(f, Daemons \X Cores) - Total(r, Cores)
    <3>1. IsFiniteSet(Daemons) /\ IsFiniteSet(Cores) /\ d \in Daemons
      BY Finite
    <3>2. RowTaken(Daemons, Cores, d, f, h, r)
      BY <2>1, <2>2, <2>3 DEF RowTaken
    <3>3. QED
      BY <3>1, <3>2, TotalRow
  <2>5. QED
    BY <2>4 DEF f, h, r, Writers
<1>6. Total(Storeds', Daemons) = Total(Storeds, Daemons) - n
  <2>1. Storeds \in [Daemons -> Nat] /\ Storeds' \in [Daemons -> Nat]
    BY CountTypes, CountNext
  <2>2. \A e \in Daemons \ {d} : Storeds'[e] = Storeds[e]
    BY <1>1, <1>2 DEF Storeds
  <2>3. Storeds[d] = n /\ Storeds'[d] = 0
    <3>1. claimed'[d] = <<>>
      BY <1>1, <1>2
    <3>2. Len(claimed'[d]) = 0
      BY <3>1
    <3>3. QED
      BY <3>2 DEF Storeds
  <2>4. Total(Storeds', Daemons) = Total(Storeds, Daemons) - Storeds[d] + Storeds'[d]
    BY <2>1, <2>2, Finite, TotalUpdate
  <2>5. Total(Storeds, Daemons) \in Nat
    BY CountTypes
  <2> HIDE DEF n
  <2>6. QED
    BY <1>4, <2>3, <2>4, <2>5
<1>7. Sents' = Sents /\ Pktgens' = Pktgens
  BY <1>1 DEF Sents, Pktgens
<1>8. /\ Total(Sents, Pktgens) \in Nat /\ Total(Helds, Writers) \in Nat
      /\ Total(Storeds, Daemons) \in Nat /\ Len(ring) \in Nat
  BY CountTypes
<1>9. (Total(Helds, Writers))' = Total(Helds', Writers)
  BY DEF Writers
<1> HIDE DEF held, n
<1>10. QED
  BY <1>1, <1>4, <1>5, <1>6, <1>7, <1>8, <1>9 DEF AccountInv

LEMMA AccountPreserved ==
  ASSUME PipeInv, PipeInv', AccountInv, [Next]_vars
  PROVE  AccountInv'
<1>0. /\ GenInv /\ BufferInv /\ DataInv /\ RingInv /\ ActInv
      /\ GenInv' /\ RingInv' /\ ActInv' /\ Pktgens' = Pktgens
  BY PktgensStay DEF PipeInv
<1>1. Pktgens \subseteq Gens /\ act = [u \in Threads |-> act[u]]
  BY <1>0 DEF Pktgens, ActInv
<1>2. ASSUME \A g \in Pktgens : gen'[g].sent = gen[g].sent,
             \A w \in Writers : act'[w] = act[w],
             \A d \in Daemons : claimed'[d] = claimed[d], ring' = ring, lost' = lost
      PROVE  AccountInv'
  <2>1. \A w \in Writers : Held(w)' = Held(w)
    BY <1>2 DEF Held
  <2>2. QED
    BY <1>0, <1>2, <2>1, AccountStays
<1>3. ASSUME NEW h \in Gens, GenNext(h)
      PROVE  AccountInv'
  <2>1. CASE GenStep(h) /\ UNCHANGED <<daemonVars, ring, storeVars, act, lost>>
    BY <1>0, <1>1, <1>2, <2>1, GenStepSent DEF storeVars
  <2>2. CASE SendBench(h)
    <3>1. /\ gen' = [gen EXCEPT ![h].pc = "insert"] /\ h \notin Pktgens
          /\ act' = [act EXCEPT ![h] = [Idle EXCEPT !.pc = "claim", !.pkts = Pointers(h, Burst)]]
          /\ UNCHANGED <<claimed, ring, lost>>
      BY <2>2 DEF SendBench, storeVars, Pktgens
    <3>2. \A g \in Pktgens : gen'[g] = gen[g]
      BY <1>0, <1>1, <3>1, GenType
    <3>3. \A w \in Writers : act'[w] = act[w]
      BY <1>1, <3>1, ThreadKinds
    <3>4. QED
      BY <1>2, <3>1, <3>2, <3>3
  <2>3. CASE SendQuery(h)
    <3>1. /\ gen' = Sent(h, 1) /\ h \notin Pktgens /\ UNCHANGED <<act, claimed, ring, lost>>
      BY <2>3 DEF SendQuery, Sends, storeVars, Pktgens
    <3>2. \A g \in Pktgens : gen'[g] = gen[g]
      BY <1>0, <1>1, <3>1, SentSent
    <3>3. QED
      BY <1>2, <3>1, <3>2
  <2>4. CASE SendRing(h)
    BY <1>0, <2>4, AccountSend
  <2>5. CASE Insert(h)
    <3>1. h \in Threads /\ StoreOf(h) = Bench /\ h \notin Writers
      BY ThreadKinds, StoreKinds
    <3>2. \A w \in Writers : act'[w] = act[w]
      BY <1>0, <2>5, <3>1, InsertOthers, ThreadKinds
    <3>3. \A d \in Daemons : claimed'[d] = claimed[d]
      BY <1>0, <2>5, <3>1, InsertOthers, StoreKinds
    <3>4. ring' = ring /\ lost' = lost
      BY <2>5 DEF Insert, Claim, Copy, Publish
    <3>5. \A g \in Pktgens : gen'[g].sent = gen[g].sent
      <4>1. CASE Claim(h) \/ Copy(h)
        BY <4>1 DEF Claim, Copy, genVars
      <4>2. CASE Publish(h)
        <5>1. act[h].pc = "end" /\ gen' = Sent(h, Burst)
          BY <4>2 DEF Publish
        <5>2. IsBench(h)
          BY <1>0, <5>1, GenOf DEF ControlOf
        <5>3. h \notin Pktgens
          BY <5>2 DEF IsBench, Pktgens
        <5>4. QED
          BY <1>0, <1>1, <5>1, <5>3, SentSent
      <4>3. QED
        BY <2>5, <4>1, <4>2 DEF Insert
    <3>6. QED
      BY <1>2, <3>2, <3>3, <3>4, <3>5
  <2>6. QED
    BY <1>3, <2>1, <2>2, <2>3, <2>4, <2>5 DEF GenNext
<1>4. ASSUME NEW w \in Writers, WriterNext(w)
      PROVE  AccountInv'
  <2>0. w \in Threads /\ w \notin Gens
    BY ThreadKinds
  <2>1. CASE Recv(w)
    BY <1>0, <2>1, AccountRecv
  <2>2. CASE Claim(w)
    BY <1>0, <2>2, AccountClaim
  <2>3. CASE Copy(w) \/ Publish(w)
    <3>1. UNCHANGED <<gen, ring, lost>>
      BY <2>0, <2>3 DEF Copy, Publish, genVars
    <3>2. \A d \in Daemons : Len(claimed'[d]) = Len(claimed[d])
      <4>1. CASE Copy(w)
        <5> DEFINE s == StoreOf(w)
        <5>1. /\ Len(claimed'[s]) = Len(claimed[s])
              /\ \A x \in Stores \ {s} : claimed'[x] = claimed[x]
          BY <1>0, <2>0, <4>1, CopyPlaces
        <5> HIDE DEF s
        <5>2. QED
          BY <5>1, StoreKinds
      <4>2. CASE Publish(w)
        BY <4>2 DEF Publish
      <4>3. QED
        BY <2>3, <4>1, <4>2
    <3>3. \A u \in Threads \ {w} : act'[u] = act[u]
      BY <1>0, <2>0, <2>3, InsertOthers DEF Insert
    <3>4. act[w].pc # "claim" /\ act'[w].pc # "claim"
      <4>1. CASE Copy(w)
        <5> DEFINE a == [pc |-> IF act[w].next = Len(act[w].pkts) THEN "end" ELSE "copy",
                         pkts |-> act[w].pkts, first |-> act[w].first, next |-> act[w].next + 1]
        <5>1. act' = [act EXCEPT ![w] = a] /\ act[w].pc = "copy"
          BY <1>0, <2>0, <4>1, CopyAct DEF Copy
        <5>2. a.pc # "claim"
          OBVIOUS
        <5> HIDE DEF a
        <5>3. QED
          BY <1>1, <2>0, <5>1, <5>2
      <4>2. CASE Publish(w)
        BY <1>1, <2>0, <4>2 DEF Publish, Idle
      <4>3. QED
        BY <2>3, <4>1, <4>2
    <3>5. \A u \in Writers : Held(u)' = Held(u)
      <4>1. TAKE u \in Writers
      <4>2. CASE u = w
        BY <3>4, <4>2 DEF Held
      <4>3. CASE u # w
        BY <3>3, <4>3, ThreadKinds DEF Held
      <4>4. QED
        BY <4>2, <4>3
    <3>6. QED
      BY <1>0, <3>1, <3>2, <3>5, AccountStays
  <2>4. QED
    BY <1>4, <2>1, <2>2, <2>3 DEF WriterNext, Insert
<1>5. ASSUME NEW d \in Daemons, DaemonNext(d)
      PROVE  AccountInv'
  <2>1. UNCHANGED <<gen, act, claimed, ring, lost>>
    BY <1>5 DEF DaemonNext, StartMonitor, Monitor, genVars, storeVars
  <2>2. QED
    BY <1>2, <2>1
<1>6. ASSUME NEW d \in Daemons, Exit(d)
      PROVE  AccountInv'
  BY <1>0, <1>6, AccountExit
<1>7. ASSUME Environment \/ UNCHANGED vars
      PROVE  AccountInv'
  <2>1. UNCHANGED <<gen, act, claimed, ring, lost>>
    BY <1>7 DEF Environment, Tick, Join, vars, genVars, storeVars
  <2>2. QED
    BY <1>2, <2>1
<1>8. QED
  BY <1>3, <1>4, <1>5, <1>6, <1>7 DEF Next

LEMMA AccountInitial ==
  ASSUME Init
  PROVE  AccountInv
<1>1. PipeInv
  BY PipeInitial
<1>2. GenInv /\ RingInv /\ ActInv
  BY <1>1 DEF PipeInv
<1>3. /\ lost = 0 /\ ring = <<>> /\ claimed = [s \in Stores |-> <<>>]
      /\ act = [t \in Threads |-> Idle]
  BY DEF Init
<1>4. Len(ring) = 0 /\ \A d \in Daemons : Len(claimed[d]) = 0
  BY <1>3, StoreKinds
<1>5. \A g \in Pktgens : Sents[g] = 0
  BY GenInitial DEF Sents, Pktgens
<1>6. \A w \in Writers : Helds[w] = 0
  BY <1>3, ThreadKinds DEF Helds, Held, Idle
<1>7. \A d \in Daemons : Storeds[d] = 0
  BY <1>4 DEF Storeds
<1>8. /\ Total(Sents, Pktgens) = 0 /\ Total(Helds, Writers) = 0 /\ Total(Storeds, Daemons) = 0
  BY <1>2, <1>5, <1>6, <1>7, CountTypes, Finite, TotalZero
<1>9. QED
  BY <1>3, <1>4, <1>8 DEF AccountInv

\* Of what send_pkts returned to pktgen no packet gets lost or doubled between the
\* ring and the stores: what recv_pkts takes, request_id_block and the end of a
\* process account for every one.
THEOREM ConservedHolds == Spec => []Conserved
<1>1. Init => AccountInv
  BY AccountInitial
<1>2. PipeInv /\ PipeInv' /\ AccountInv /\ [Next]_vars => AccountInv'
  BY AccountPreserved
<1>3. AccountInv => Conserved
  BY SentTotal, HeldTotal, StoredTotal DEF AccountInv, Conserved
<1>4. QED
  BY <1>1, <1>2, <1>3, PipeInductive, PTL DEF Spec

=============================================================================
