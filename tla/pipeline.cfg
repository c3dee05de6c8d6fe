CONSTANTS
  g1 = g1
  g2 = g2
  g3 = g3
  d1 = d1
  d2 = d2
  eth0 = eth0
  eth1 = eth1
  Gens = {g1, g2, g3}
  Burst = 2
  Capacity = 3
  PoolSize = 5
  Second = 3
  Span = 3
  MaxTime = 3
  MaxPkts = 4
  Daemons = {d1, d2}
  Cores = {1, 2}
  Ifaces = {eth0, eth1}
  Queues = 1
  None = None
  MaxExits = 1
  Bench = Bench
  RingSize = 3
  Scenarios <- MCScenarios
SPECIFICATION FairSpec
INVARIANTS
  RateKept
  WithinSlice
  Paced
  StoredAsSent
  Conserved
  PidfileNames
  PolledReady
PROPERTIES
  BenchEnds
  Drained
CHECK_DEADLOCK FALSE
