---------------------------- MODULE QueryPlanner ----------------------------
(***************************************************************************)
(* How a filter expression becomes a query: cast_builder and               *)
(* character_builder parse it, query_planner::plan turns it into index     *)
(* ranges and packet filters (netplay_utils.h), and the plan is executed   *)
(* on the packets (filter_pkts), or the packet filters are applied to each *)
(* new packet as a complex character.                                      *)
(*                                                                         *)
(* The widths of integers are parameters.  Executing a plan is the set of  *)
(* packets filter_pkts inserts into its result while no packet arrives:    *)
(* Query has the iterators, and queries among insertions.                  *)
(***************************************************************************)
EXTENDS QueryParser, FiniteSetsExt

CONSTANTS
  Inputs,    \* the expressions considered, as sequences of lexemes
  Stored,    \* the packets in the order of their ids, in which one writer inserted them
  IpBits,    \* bits of an address: 32
  PortBits,  \* bits of a port: 16
  TimeBits,  \* bits of a time in the planner: 32
  WordBits,  \* bits of a token: 64
  StartTime, MaxTime  \* bounds on the clock

ASSUME WidthAssumption ==
  /\ {IpBits, PortBits, TimeBits, WordBits} \subseteq Nat \ {0}
  /\ IpBits < WordBits /\ PortBits < WordBits /\ TimeBits < WordBits
ASSUME PacketAssumption ==
  /\ Stored \in Seq([src_ip : Nat, dst_ip : Nat, src_port : Nat, dst_port : Nat,
                     tcp : BOOLEAN, timestamp : Nat])
  /\ \A i, j \in 1..Len(Stored) : i <= j => Stored[i].timestamp <= Stored[j].timestamp

VARIABLES
  clock,   \* std::time
  input,   \* the expression given to the builder
  stage,   \* how far the builder is: its constructor, build(), its destructor
  exp,     \* exp_, the expression parsed
  nodes,   \* expression nodes allocated and not deleted
  plan,    \* the cast's plan, or the exception thrown for it
  filters, \* the complex character's filter list, or the exception thrown for it
  built    \* history: the time when the plan was made

vars == <<clock, input, stage, exp, nodes, plan, filters, built>>

-----------------------------------------------------------------------------
(* Predicates to index ranges (netplay_utils)                              *)

MaxWord == 2^WordBits - 1
MaxPort == 2^PortBits - 1

\* An exception is the empty set, a range a singleton: a sequence of predicates
\* gives a clause only if each of them gives a range.
Throw == {}

\* An index_filter: its bounds are converted to uint64_t.
Range64(a, lo, hi) == {[index |-> a, lo |-> lo % 2^WordBits, hi |-> hi % 2^WordBits]}

\* ip_range: ip & mask[prefix] and ip | ~mask[32 - prefix].
ip_range(a, v) ==
  IF v.kind # "prefix" THEN Throw
  ELSE Range64(a, v.n - (v.n % 2^(IpBits - v.prefix)),
                  v.n - (v.n % 2^v.prefix) + 2^v.prefix - 1)

ip_filter(a, op, v) ==
  CASE op \in {"in", "!in"} -> ip_range(a, v)
    [] op \in {"==", "!="} -> Range64(a, v.n, v.n)
    [] OTHER -> Throw

\* port_filter: std::stoi cut to 16 bits; port - 1 is an int, so -1 for port 0.
port_filter(a, op, v) ==
  LET port == v.n % 2^PortBits
  IN  IF v.kind # "number" THEN Throw
      ELSE CASE op \in {"==", "!="} -> Range64(a, port, port)
             [] op = "<"  -> Range64(a, 0, port - 1)
             [] op = "<=" -> Range64(a, 0, port)
             [] op = ">"  -> Range64(a, port + 1, MaxPort)
             [] op = ">=" -> Range64(a, port, MaxPort)
             [] OTHER -> Throw

\* time_filter: absolute, or now[-value]; time is a uint32_t.
time_filter(a, op, v, now) ==
  LET time == (IF v.kind = "now" THEN now - v.n ELSE v.n) % 2^TimeBits
  IN  IF v.kind \notin {"number", "now"} \/ (v.kind = "now" /\ v.n = 0 /\ op \in {">", ">="})
        THEN Throw
      ELSE CASE op \in {"==", "!="} -> Range64(a, time, time)
             [] op = "<"  -> Range64(a, 0, (time - 1) % 2^TimeBits)
             [] op = "<=" -> Range64(a, 0, time)
             [] op = ">"  -> Range64(a, (time + 1) % 2^TimeBits, now)
             [] op = ">=" -> Range64(a, time, now)
             [] OTHER -> Throw

build_index_filter(p, now) ==
  CASE p.attr \in {"src_ip", "dst_ip"} -> ip_filter(p.attr, p.op, p.value)
    [] p.attr \in {"src_port", "dst_port"} -> port_filter(p.attr, p.op, p.value)
    [] p.attr = "timestamp" -> time_filter(p.attr, p.op, p.value, now)
    [] OTHER -> Throw

-----------------------------------------------------------------------------
(* Clauses                                                                 *)

Anything == [lo |-> 0, hi |-> MaxWord]

Attributes == {"src_ip", "dst_ip", "src_port", "dst_port", "timestamp"}

\* build_packet_filter: of several ranges for an attribute the last one counts.
build_packet_filter(clause) ==
  FoldLeft(LAMBDA pf, f : [pf EXCEPT ![f.index] = [lo |-> f.lo, hi |-> f.hi]],
           [a \in Attributes |-> Anything], clause)

\* Mutant: an empty range does not make the clause invalid.
reduce_clause_unchecked(clause) ==
  LET firsts == SelectSeq([i \in 1..Len(clause) |-> i],
                          LAMBDA i : \A j \in 1..(i - 1) : clause[j].index # clause[i].index)
      same(i) == {j \in i..Len(clause) : clause[j].index = clause[i].index}
  IN  [valid |-> TRUE,
       clause |-> [m \in 1..Len(firsts) |->
                     [index |-> clause[firsts[m]].index,
                      lo |-> Max({clause[j].lo : j \in same(firsts[m])}),
                      hi |-> Min({clause[j].hi : j \in same(firsts[m])})]]]

\* reduce_clause: the ranges for an attribute are intersected where the first of
\* them stands; the clause is valid if no intersection is empty.
reduce_clause(clause) ==
  LET firsts == SelectSeq([i \in 1..Len(clause) |-> i],
                          LAMBDA i : \A j \in 1..(i - 1) : clause[j].index # clause[i].index)
      same(i) == {j \in i..Len(clause) : clause[j].index = clause[i].index}
      reduced == [m \in 1..Len(firsts) |->
                    [index |-> clause[firsts[m]].index,
                     lo |-> Max({clause[j].lo : j \in same(firsts[m])}),
                     hi |-> Min({clause[j].hi : j \in same(firsts[m])})]]
  IN  [valid |-> \A m \in DOMAIN reduced : reduced[m].lo <= reduced[m].hi, clause |-> reduced]

\* Mutant: the rest of the clause is not made into a packet filter.
build_clause_plan_index_only(clause, m) ==
  [idx_filter |-> clause[m], perform_pkt_filter |-> FALSE, pkt_filter |-> build_packet_filter(<<>>)]

\* build_clause_plan for a reduced clause.  extract_min_filter takes the range
\* with the fewest packets by approx_pkt_count, which may be any of them, and
\* removes it from the clause.
build_clause_plan(clause, m) ==
  [idx_filter |-> clause[m],
   perform_pkt_filter |-> Len(clause) > 1,
   pkt_filter |-> build_packet_filter(RemoveAt(clause, m))]

\* The clauses of an expression in DNF as plan() and build_filter_list() read it;
\* nothing where they throw: below OR they accept only AND, below AND only
\* predicates.
DnfClauses(e) ==
  LET conj(c) == {s \in {c.children} : \A i \in 1..Len(s) : s[i].type = "PREDICATE"}
  IN  CASE e.type = "PREDICATE" -> {<<<<e>>>>}
        [] e.type = "AND" -> {<<s>> : s \in conj(e)}
        [] e.type = "OR" ->
             IF \A i \in 1..Len(e.children) : e.children[i].type = "AND" /\ conj(e.children[i]) # {}
               THEN {[i \in 1..Len(e.children) |-> e.children[i].children]}
               ELSE {}

\* The index filters of a clause; nothing if one of them throws.
IndexFilters(ps, now) ==
  LET fs == [i \in 1..Len(ps) |-> build_index_filter(ps[i], now)]
  IN  IF \E i \in DOMAIN fs : fs[i] = Throw THEN Throw
      ELSE {[i \in DOMAIN fs |-> CHOOSE f \in fs[i] : TRUE]}

AllFilters(cs, now) ==
  LET fs == [i \in 1..Len(cs) |-> IndexFilters(cs[i], now)]
  IN  IF \E i \in DOMAIN fs : fs[i] = Throw THEN Throw
      ELSE {[i \in DOMAIN fs |-> CHOOSE f \in fs[i] : TRUE]}

Clauses(e, now) == UNION {AllFilters(cs, now) : cs \in DnfClauses(e)}

\* plan(): all plans the packet counts may lead to; a lone predicate is not
\* reduced, and an invalid clause is left out.
Plans(e, now) ==
  IF e.type = "PREDICATE"
    THEN {<<[idx_filter |-> cs[1][1], perform_pkt_filter |-> FALSE,
             pkt_filter |-> build_packet_filter(<<>>)]>> : cs \in Clauses(e, now)}
    ELSE UNION {LET rs == SelectSeq([i \in 1..Len(cs) |-> reduce_clause(cs[i])], LAMBDA r : r.valid)
                    choices == {ms \in [1..Len(rs) -> 1..Cardinality(Attributes)] :
                                  \A i \in 1..Len(rs) : ms[i] <= Len(rs[i].clause)}
                IN  {[i \in 1..Len(rs) |-> build_clause_plan(rs[i].clause, ms[i])] : ms \in choices} :
                cs \in Clauses(e, now)}

\* Mutant: the clauses after the first are left out.
FilterListsFirst(e, now) ==
  {<<build_packet_filter(cs[1])>> : cs \in Clauses(e, now)}

\* build_filter_list(): one packet filter per clause, not reduced.
FilterLists(e, now) ==
  {[i \in 1..Len(cs) |-> build_packet_filter(cs[i])] : cs \in Clauses(e, now)}

-----------------------------------------------------------------------------
(* Packets                                                                 *)

\* packet_filter::apply(pkt): ports are compared for TCP and UDP packets only.
apply(pf, p) ==
  \A a \in Attributes \ {"timestamp"} :
    (p.tcp \/ a \in {"src_ip", "dst_ip"}) => p[a] >= pf[a].lo /\ p[a] <= pf[a].hi

\* apply(pkt, ts).
apply_ts(pf, p) ==
  apply(pf, p) /\ p.timestamp >= pf["timestamp"].lo /\ p.timestamp <= pf["timestamp"].hi

\* The packets in the lists of a range; packets without ports are in no list of a
\* port index.
InRange(f, p) ==
  (p.tcp \/ f.index \in {"src_ip", "dst_ip", "timestamp"}) /\ p[f.index] \in f.lo..f.hi

\* The ids of the packets stored when the plan was made, and those in the lists
\* of a range.
Ids == {i \in 1..Len(Stored) : Stored[i].timestamp <= built}
Listed(f) == {i \in Ids : InRange(f, Stored[i])}

\* The element filter_result::begin() is at: the oldest entry of the least key
\* that has a list.
First(f) ==
  LET listed == Listed(f)
      key == Min({Stored[i][f.index] : i \in listed})
  IN  Min({i \in listed : Stored[i][f.index] = key})

\* What a clause contributes: packet_filter_iterator applies the filter to the
\* packets it advances to, not to the one it begins with.
Results(c) ==
  LET listed == Listed(c.idx_filter)
      first == First(c.idx_filter)
  IN  IF c.perform_pkt_filter /\ listed # {}
        THEN {first} \cup {i \in listed : apply_ts(c.pkt_filter, Stored[i])}
        ELSE listed

\* filter_pkts, for a plan without an empty range.
Selected(pl) == UNION {Results(pl[i]) : i \in 1..Len(pl)}

-----------------------------------------------------------------------------
(* Builders                                                                *)

None == <<>>

Tick ==
  /\ clock < MaxTime
  /\ stage \in {"constructed", "built"}
  /\ clock' = clock + 1
  /\ UNCHANGED <<input, stage, exp, nodes, plan, filters, built>>

\* cast_builder and character_builder: the constructor parses.  An exception
\* leaves it with no object to destroy.
Construct ==
  /\ stage = "start"
  /\ LET r == parse(input)
     IN  /\ stage' = IF r.ok THEN "constructed" ELSE "thrown"
         /\ exp' = r.exp
         /\ nodes' = nodes + r.n
  /\ UNCHANGED <<clock, input, plan, filters, built>>

\* build() of both: the plan of the cast with the current time, and the filters
\* of the complex character.
Build ==
  /\ stage = "constructed"
  /\ LET ps == Plans(exp, clock)
         fl == FilterLists(exp, clock)
     IN  \/ /\ ps # {}
            /\ plan' \in ps
            /\ filters' \in fl
            /\ stage' = "built"
         \/ ps = {} /\ stage' = "refused" /\ UNCHANGED <<plan, filters>>
  /\ built' = clock
  /\ UNCHANGED <<clock, input, exp, nodes>>

\* The destructor; the cast and the character live on.
Destroy ==
  /\ stage \in {"built", "refused"}
  /\ nodes' = nodes - free_expression(exp)
  /\ stage' = "destroyed"
  /\ UNCHANGED <<clock, input, exp, plan, filters, built>>

Init ==
  /\ clock = StartTime
  /\ input \in Inputs
  /\ stage = "start"
  /\ exp = "none"
  /\ nodes = 0
  /\ plan = None
  /\ filters = None
  /\ built = 0

Next == Tick \/ Construct \/ Build \/ Destroy

Spec == Init /\ [][Next]_vars

-----------------------------------------------------------------------------
(* Properties                                                              *)

\* What a predicate says of a packet at the time `now', read as written: the
\* attribute compared with the value, or its first bits with the prefix.
Compare(op, x, n) ==
  CASE op = "==" -> x = n
    [] op = "!=" -> x # n
    [] op = "<"  -> x < n
    [] op = "<=" -> x <= n
    [] op = ">"  -> x > n
    [] op = ">=" -> x >= n
    [] OTHER -> FALSE

SamePrefix(x, v) == x \div 2^(IpBits - v.prefix) = v.n \div 2^(IpBits - v.prefix)

Satisfies(x, p, now) ==
  CASE x.attr \in {"src_ip", "dst_ip"} ->
         IF x.op \in {"in", "!in"}
           THEN x.value.kind = "prefix" /\ (SamePrefix(p[x.attr], x.value) <=> x.op = "in")
           ELSE Compare(x.op, p[x.attr], x.value.n)
    [] x.attr \in {"src_port", "dst_port"} -> p.tcp /\ Compare(x.op, p[x.attr], x.value.n)
    [] x.attr = "timestamp" ->
         Compare(x.op, p.timestamp, IF x.value.kind = "now" THEN now - x.value.n ELSE x.value.n)

Predicates == {input[i] : i \in {j \in 1..Len(input) : input[j].sym = "predicate"}}

Holds(p) ==
  {x \in Predicates \cup {Opposite(y) : y \in Predicates} : Satisfies(x, p, built)}

\* The same with every predicate on a port taken to hold.
HoldsButPorts(p) ==
  Holds(p) \cup {x \in Predicates \cup {Opposite(y) : y \in Predicates} :
                   x.attr \in {"src_port", "dst_port"}}

\* Predicates the planner gives their meaning: "!=" and "!in" get the range of
\* "==" and "in", a prefix is right for half of the bits only, and "less than
\* zero" and values out of range wrap around.
Plain(x) ==
  /\ x.op \notin {"!=", "!in"}
  /\ x.op = "in" => 2 * x.value.prefix = IpBits
  /\ x.op = "<" => x.value.n > 0
  /\ x.value.kind = "now" => x.value.n < built
  /\ x.attr \in {"src_port", "dst_port"} => x.value.n <= MaxPort

\* The predicates of exp_ are plain, after negation.
AllPlain ==
  \A cs \in DnfClauses(exp) : \A i \in 1..Len(cs) : \A j \in 1..Len(cs[i]) : Plain(cs[i][j])

\* What the parser sees of an input: after a "!", "<" or ">" at the very end the
\* stream has failed, and the token is peeked at and lost.
Seen(w) == IF LooksAhead(Last(Stream(w))) THEN Front(w) ELSE w

\* The parser accepts what the grammar at the head of query_parser.h derives, and
\* the expression, with its negations pushed down to the predicates, has the
\* value the grammar gives the input; an input that ends in "!", "<" or ">" is
\* taken for the one without it, whether or not that is what was meant.
ParsesGrammar ==
  stage # "start" =>
    \A h \in Valuations(Predicates) :
      ExpValues(Seen(input), h) = IF stage = "thrown" THEN {} ELSE {Value(exp, h)}

\* Every node allocated while an expression was parsed, those that negate()
\* replaced included, is in the expression the destructor frees.
NodesFreed ==
  /\ stage \in {"constructed", "built", "refused"} => nodes = free_expression(exp)
  /\ stage = "destroyed" => nodes = 0

\* A clause plan does not filter the packets again by the attribute of its index,
\* and its range is not empty, as begin() of filter_result would then not be
\* end(), and be dereferenced.  Only a plan for a lone predicate may have such a
\* range, and with plain values only where no stored packet satisfies it.
PlanProper ==
  stage = "built" =>
    \A i \in 1..Len(plan) :
      LET f == plan[i].idx_filter
      IN  /\ plan[i].pkt_filter[f.index] = Anything
          /\ \/ f.lo <= f.hi
             \/ /\ exp.type = "PREDICATE"
                /\ Plain(exp) => \A j \in Ids : ~Satisfies(exp, Stored[j], built)

\* The packets that the clauses with a packet filter begin with.
Unfiltered(pl) ==
  {First(pl[i].idx_filter) :
     i \in {j \in 1..Len(pl) : pl[j].perform_pkt_filter /\ Listed(pl[j].idx_filter) # {}}}

NoEmptyRange(pl) == \A i \in 1..Len(pl) : pl[i].idx_filter.lo <= pl[i].idx_filter.hi

\* Whatever the packet counts make the planner choose as the index to search, a
\* plan selects every packet stored when it was made that satisfies the
\* expression; and of the others only the first of a clause's range, and packets
\* without ports that would satisfy it but for its predicates on ports.
PlanSelects ==
  stage = "built" /\ AllPlain /\ NoEmptyRange(plan) =>
    LET selected == Selected(plan)
        unfiltered == Unfiltered(plan)
    IN  \A i \in Ids :
          LET p == Stored[i]
          IN  /\ Value(exp, Holds(p)) => i \in selected
              /\ i \in selected \ unfiltered =>
                   Value(exp, IF p.tcp THEN Holds(p) ELSE HoldsButPorts(p))

\* The attributes of a clause are distinct and the time is not among them.
Simple(ps) ==
  /\ \A i, j \in 1..Len(ps) : ps[i].attr = ps[j].attr => i = j
  /\ \A i \in 1..Len(ps) : ps[i].attr # "timestamp"

\* A complex character misses no packet that satisfies its expression, though it
\* neither looks at time stamps nor intersects the ranges of a clause; without
\* these, it holds just those packets.
CharacterSelects ==
  stage = "built" /\ AllPlain =>
    \A p \in {Stored[i] : i \in Ids} :
      LET matches == \E i \in 1..Len(filters) : apply(filters[i], p)
      IN  /\ Value(exp, Holds(p)) => matches
          /\ \A cs \in DnfClauses(exp) :
               (\A i \in 1..Len(cs) : Simple(cs[i])) /\ p.tcp => (matches => Value(exp, Holds(p)))

\* "Specify IP ranges with prefix notation" (the exception of ip_filter): "in"
\* selects the addresses that begin with the bits of the prefix.
PrefixNotation ==
  stage = "built" /\ exp.type = "PREDICATE" /\ exp.op = "in" =>
    \A i \in Ids : i \in Selected(plan) <=> SamePrefix(Stored[i][exp.attr], exp.value)

=============================================================================
