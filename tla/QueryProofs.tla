----------------------------- MODULE QueryProofs -----------------------------
(***************************************************************************)
(* What TLAPS proves of the tiered index and of the queries, for any       *)
(* number of writers and readers, any records, plans and tier sizes: the   *)
(* races of get() lose no node, a published id is on the one list of its   *)
(* key, and what a query that runs beside insertions returns or counts.    *)
(***************************************************************************)
EXTENDS Query, LinearLogProofs, FiniteSetTheorems, SequenceTheorems

-----------------------------------------------------------------------------
(* The inductive invariant: index                                          *)

Nodes == Seq(Nat \X Threads)

\* Path and KeyPath as functions of what they depend on.
PathFor(len, key) ==
  LET s == IndexShape(len)
  IN  CASE Len(s) = 1 -> Depth1(key, s)
        [] Len(s) = 2 -> Depth2(key, s)
        [] Len(s) = 3 -> Depth3(key, s)
        [] Len(s) = 4 -> Depth4(key, s)
KeyFor(v, len, key) == IF v = "char" THEN PathFor(len, key) \o <<CharId>> ELSE PathFor(len, key)
Short(key) == PathFor(length, key)
Key(key) == KeyFor(view, length, key)

\* A node is what the slots of a path lead to: their numbers are in its name.
Leads(n, p) == Len(n) = Len(p) /\ \A i \in 1..Len(p) : n[i][1] = p[i]

\* A thread at node n with the slots p ahead is on its way along `path'.
OnWay(n, p, path) ==
  /\ Len(path) = Len(n) + Len(p)
  /\ \A i \in 1..Len(n) : n[i][1] = path[i]
  /\ \A i \in 1..Len(p) : p[i] = path[Len(n) + i]

SlotInv ==
  \A c \in DOMAIN idx :
    /\ c \in Reachable \X Nat
    /\ \E t \in Threads : idx[c] = Append(c[1], <<c[2], t>>)

WalkOf(t) ==
  /\ walk[t] = [path |-> walk[t].path, node |-> walk[t].node, item |-> walk[t].item]
  /\ walk[t].path \in Seq(Nat)
  /\ walk[t].node \in Reachable
  /\ walk[t].item # Null =>
       /\ walk[t].path # <<>>
       /\ walk[t].item = Fresh(t)
       /\ walk[t].item \notin Reachable

Items == {walk[t].item : t \in {u \in Threads : walk[u].item # Null}}

IndexInv ==
  /\ length \in Lengths
  /\ Reachable \subseteq Nodes
  /\ SlotInv
  /\ walk = [t \in Threads |-> walk[t]]
  /\ \A t \in Threads : WalkOf(t)
  /\ live = Reachable \cup Items

-----------------------------------------------------------------------------
(* The inductive invariant: insertions                                     *)

InsertPcs == {"idle", "get", "set", "append", "end"}

ViewInv == view \in {"token", "char"} /\ view \in Views /\ (view = "char" => length = 4)

\* An insertion that has an id.
Held(w) == op[w].pc # "idle"

IdInv ==
  /\ current_write_id \in 0..MaxId
  /\ current_read_id \in 0..current_write_id
  /\ claimed \in Seq(Records) /\ Len(claimed) = current_write_id
  /\ op = [w \in Writers |-> op[w]]
  /\ \A w \in Writers :
       /\ op[w] = [pc |-> op[w].pc, id |-> op[w].id, rec |-> op[w].rec, place |-> op[w].place]
       /\ op[w].pc \in InsertPcs
       /\ Held(w) => /\ op[w].id \in current_read_id..(current_write_id - 1)
                     /\ op[w].rec = claimed[op[w].id + 1]
  /\ \A v, w \in Writers : Held(v) /\ Held(w) /\ op[v].id = op[w].id => v = w
  /\ \A id \in current_read_id..(current_write_id - 1) : \E w \in Writers : Held(w) /\ op[w].id = id

\* Whether the packet of an id belongs on the list of its key.
Wanted(id) == view = "token" \/ claimed[id + 1].hit

RecordInv ==
  /\ \A id \in DOMAIN records :
       id \in 0..(current_write_id - 1) /\ records[id] = claimed[id + 1]
  /\ \A id \in 0..(current_read_id - 1) : id \in DOMAIN records
  /\ \A w \in Writers :
       /\ op[w].pc = "end" => op[w].id \in DOMAIN records
       /\ op[w].pc = "append" => view = "token"
       /\ op[w].pc = "set" => AtList(w)
       /\ op[w].pc \in {"get", "set"} /\ AtList(w) => Wanted(op[w].id)

\* The path a writer follows: that of its key's list, or of the table of the
\* characters for its time stamp.
Target(w) == IF AtList(w) THEN Key(op[w].rec.tok) ELSE Short(op[w].rec.tok)

WriterWalk(w) ==
  /\ op[w].pc # "get" => Arrived(w)
  /\ Held(w) /\ (AtList(w) => Wanted(op[w].id)) => OnWay(walk[w].node, walk[w].path, Target(w))

-----------------------------------------------------------------------------
(* The inductive invariant: lists                                          *)

\* Insertions that have pushed their id.
Pushed(w) == op[w].pc \in {"append", "end"}

\* A list is the one of the key of an id.
ListOf(l, id) == Leads(l, Key(claimed[id + 1].tok))

\* What an entry that is set says.
EntryOf(l, id) ==
  /\ id \in 0..(current_write_id - 1)
  /\ Wanted(id)
  /\ ListOf(l, id)
  /\ id < current_read_id \/ \E w \in Writers : Pushed(w) /\ op[w].id = id

EntryInv ==
  /\ DOMAIN lists \subseteq Reachable
  /\ \A l \in DOMAIN lists : lists[l] \in Seq(Nat \cup {Unset})
  /\ \A l \in DOMAIN lists : \A j \in 1..Len(lists[l]) :
       lists[l][j] # Unset => EntryOf(l, lists[l][j])

OnceInv ==
  \A l, m \in DOMAIN lists : \A i \in 1..Len(lists[l]), j \in 1..Len(lists[m]) :
    lists[l][i] # Unset /\ lists[l][i] = lists[m][j] => l = m /\ i = j

PushOf(w) ==
  /\ walk[w].node \in DOMAIN lists
  /\ op[w].place \in 0..(Len(lists[walk[w].node]) - 1)
  /\ lists[walk[w].node][op[w].place + 1] = Unset

PushInv ==
  /\ \A w \in Writers : op[w].pc = "set" => PushOf(w)
  /\ \A v, w \in Writers :
       /\ op[v].pc = "set" /\ op[w].pc = "set"
       /\ walk[v].node = walk[w].node /\ op[v].place = op[w].place
       => v = w
  /\ \A l \in DOMAIN lists : \A j \in 1..Len(lists[l]) :
       lists[l][j] = Unset =>
         \E w \in Writers : op[w].pc = "set" /\ walk[w].node = l /\ op[w].place + 1 = j

\* An id is on the list of its key.
On(id) ==
  \E l \in DOMAIN lists : ListOf(l, id) /\ \E j \in 1..Len(lists[l]) : lists[l][j] = id

OnInv ==
  /\ \A id \in 0..(current_read_id - 1) : Wanted(id) => On(id)
  /\ \A w \in Writers : Pushed(w) /\ Wanted(op[w].id) => On(op[w].id)

-----------------------------------------------------------------------------
(* The inductive invariant: queries                                        *)

Clauses == {c \in [lo : Nat, hi : Nat, pf : BOOLEAN] : c.lo <= c.hi + 1}
Active == {"advance", "scan", "check", "apply", "deref"}
QueryPcs == {"idle", "begin", "count", "crash"} \cup Active

QueryFields == {"pc", "plan", "max_rid", "tok", "idx", "list", "first", "hole", "count",
                "results", "asked", "quiet"}

QueryType(r) ==
  /\ DOMAIN q[r] = QueryFields
  /\ q[r].pc \in QueryPcs
  /\ q[r].plan \in Seq(Clauses) /\ q[r].asked \in Seq(Clauses)
  /\ q[r].max_rid \in 0..current_read_id
  /\ q[r].tok \in Nat /\ q[r].idx \in Int /\ q[r].idx >= -1 /\ q[r].count \in Nat
  /\ q[r].list \in Reachable \cup {Null}
  /\ q[r].first \in BOOLEAN /\ q[r].hole \in BOOLEAN /\ q[r].quiet \in BOOLEAN
  /\ q[r].results \subseteq 0..MaxId \cup Garbage
  /\ q[r].pc \notin {"idle", "crash"} => q[r].plan # <<>>

\* The ids a query must find, those whose key is below the one it is at, and those
\* whose key is the one it is at.
Sought(r) == Matching(Clause(r), q[r].max_rid)
Behind(r) == {id \in Sought(r) : claimed[id + 1].tok < q[r].tok}
Here(r) == {id \in Sought(r) : claimed[id + 1].tok = q[r].tok}

\* The clauses of a query are ahead of it, or it has found what they ask for.
PlanOf(r) ==
  /\ q[r].pc \in Active \cup {"begin"} =>
       \A i \in 1..Len(q[r].asked) :
         \/ \E k \in 1..Len(q[r].plan) : q[r].plan[k] = q[r].asked[i]
         \/ Matching(q[r].asked[i], q[r].max_rid) \subseteq q[r].results
  /\ \A k \in 1..Len(q[r].plan) : \E i \in 1..Len(q[r].asked) : q[r].plan[k] = q[r].asked[i]
  /\ q[r].pc \notin {"idle", "crash"} => \E p \in Plans : q[r].asked = p

\* The iterator: between the ends of the range, or at the end of an empty range,
\* where it is never advanced; on the list of its key, or where there was none
\* none of the ids it must find are either.
KeyOf(r) ==
  q[r].pc \in Active =>
    /\ Clause(r).lo <= q[r].tok
    /\ \/ q[r].tok <= Clause(r).hi
       \/ /\ q[r].tok = Clause(r).hi + 1 /\ Clause(r).lo = q[r].tok
          /\ q[r].first /\ q[r].idx = -1 /\ q[r].pc \in {"advance", "deref"}
    /\ q[r].list # Null => Leads(q[r].list, Key(q[r].tok))
    /\ q[r].list = Null => Here(r) = {}
    /\ q[r].pc \in {"check", "apply", "deref"} /\ q[r].tok <= Clause(r).hi =>
         q[r].list # Null /\ q[r].idx >= 0
    /\ q[r].pc \in {"check", "apply"} => ~q[r].first
    /\ q[r].pc = "scan" => q[r].idx = 0

\* The first n entries of the list are in the results, if they must be.
Passed(r, n) ==
  \A j \in 1..Size(q[r].list) :
    j <= n /\ Entries(q[r].list)[j] \in Sought(r) => Entries(q[r].list)[j] \in q[r].results

FoundOf(r) ==
  q[r].pc \in Active =>
    /\ Behind(r) \subseteq q[r].results
    /\ q[r].pc = "scan" => Here(r) \subseteq q[r].results
    /\ q[r].pc = "advance" => Passed(r, q[r].idx + 1)
    /\ q[r].pc \in {"check", "apply", "deref"} => Passed(r, q[r].idx)

\* An entry that was set when operator++ looked at it.
Seen(r) ==
  /\ ~IsHole(q[r].list, q[r].idx)
  /\ Entries(q[r].list)[q[r].idx + 1] < q[r].max_rid
  /\ q[r].pc = "deref" /\ Clause(r).pf => claimed[Entries(q[r].list)[q[r].idx + 1] + 1].hit

SeenOf(r) ==
  /\ q[r].pc \in {"apply", "deref"} /\ ~q[r].first /\ ~q[r].hole => Seen(r)
  /\ q[r].pc = "apply" => Clause(r).pf

\* A query that nothing disturbs.
QuietOf(r) ==
  q[r].quiet =>
    /\ Proper(r) => q[r].pc # "crash"
    /\ q[r].pc \in Active \cup {"begin"} =>
         /\ ~Changing
         /\ q[r].max_rid = current_write_id
         /\ \A k \in 1..Len(q[r].plan) : \A t \in q[r].plan[k].lo..q[r].plan[k].hi :
              \A l \in Reachable : Leads(l, Key(t)) => Size(l) > 0
    /\ q[r].pc \in Active /\ Proper(r) /\ q[r].list # Null =>
         /\ q[r].pc = "advance" => q[r].idx < Size(q[r].list)
         /\ q[r].pc \in {"check", "apply", "deref"} => q[r].idx < Size(q[r].list)
    /\ q[r].pc \in Active /\ Proper(r) => ~q[r].hole

\* What a count may have counted.
Counted(r) == {id \in Matching(Clause(r), current_write_id) : claimed[id + 1].tok < q[r].tok}

\* A count: of the keys it has passed, those published when it began are counted,
\* and nothing that is not claimed.
CountOf(r) ==
  /\ ~Arrived(r) => q[r].pc = "count"
  /\ q[r].pc = "count" =>
       /\ Len(q[r].plan) = 1 /\ q[r].asked = q[r].plan /\ ~Clause(r).pf
       /\ q[r].tok \in Clause(r).lo..(Clause(r).hi + 1)
       /\ ~Arrived(r) => view = "char" /\ q[r].tok <= Clause(r).hi
       /\ view = "char" /\ q[r].tok <= Clause(r).hi =>
            OnWay(walk[r].node, walk[r].path, Key(q[r].tok))
       /\ Cardinality(Behind(r)) <= q[r].count
       /\ q[r].count <= Cardinality(Counted(r))

QueryOf(r) ==
  /\ QueryType(r) /\ PlanOf(r) /\ KeyOf(r) /\ FoundOf(r) /\ SeenOf(r)
  /\ QuietOf(r) /\ CountOf(r)

QueryInv == q = [r \in Readers |-> q[r]] /\ \A r \in Readers : QueryOf(r)

StoreInv ==
  /\ ViewInv /\ IdInv /\ RecordInv
  /\ \A w \in Writers : WriterWalk(w)
  /\ EntryInv /\ OnceInv /\ PushInv /\ OnInv

Inv == IndexInv /\ StoreInv /\ QueryInv

-----------------------------------------------------------------------------
(* Paths                                                                   *)

\* The sizes of the tiers are positive, and there are one to four of them.
LEMMA ShapeFacts ==
  ASSUME NEW len \in 1..8
  PROVE  /\ IndexShape(len) \in Seq(Nat \ {0})
         /\ Len(IndexShape(len)) = (len + 1) \div 2
         /\ Len(IndexShape(len)) \in 1..4
<1> DEFINE n == (len + 1) \div 2
<1>1. n \in 1..4
  OBVIOUS
<1> HIDE DEF n
<1>2. \A j \in 1..n : (IF len % 2 = 1 /\ 2 * j > len THEN Narrow ELSE Wide) \in Nat \ {0}
  BY WidthAssumption
<1>3. IndexShape(len) = [j \in 1..n |-> IF len % 2 = 1 /\ 2 * j > len THEN Narrow ELSE Wide]
  BY DEF IndexShape, n
<1>4. IndexShape(len) \in Seq(Nat \ {0}) /\ Len(IndexShape(len)) = n
  BY <1>1, <1>2, <1>3
<1>5. QED
  BY <1>1, <1>4 DEF n

\* Quotient and remainder determine a key.
LEMMA DivModDetermine ==
  ASSUME NEW m \in Nat \ {0}, NEW a \in Nat, NEW b \in Nat,
         a \div m = b \div m, a % m = b % m
  PROVE  a = b
<1>1. a = m * (a \div m) + (a % m) /\ b = m * (b \div m) + (b % m)
  BY DivMod
<1>2. QED
  BY <1>1

LEMMA PositiveProduct ==
  ASSUME NEW a \in Nat \ {0}, NEW b \in Nat \ {0}
  PROVE  a * b \in Nat \ {0}
  OBVIOUS

\* A slot in front of a path.
LEMMA ConsFacts ==
  ASSUME NEW x \in Nat, NEW p \in Seq(Nat)
  PROVE  /\ <<x>> \o p \in Seq(Nat)
         /\ Len(<<x>> \o p) = Len(p) + 1
         /\ (<<x>> \o p)[1] = x
         /\ \A i \in 1..Len(p) : (<<x>> \o p)[i + 1] = p[i]
<1>1. <<x>> \in Seq(Nat) /\ Len(<<x>>) = 1 /\ <<x>>[1] = x
  OBVIOUS
<1>2. /\ <<x>> \o p \in Seq(Nat)
      /\ Len(<<x>> \o p) = Len(<<x>>) + Len(p)
      /\ \A i \in 1..(Len(<<x>>) + Len(p)) :
           (<<x>> \o p)[i] = IF i <= Len(<<x>>) THEN <<x>>[i] ELSE p[i - Len(<<x>>)]
  BY <1>1, ConcatProperties
<1>3. Len(p) \in Nat
  BY LenProperties
<1>4. (<<x>> \o p)[1] = x
  BY <1>1, <1>2, <1>3
<1>5. ASSUME NEW i \in 1..Len(p)
      PROVE  (<<x>> \o p)[i + 1] = p[i]
  <2>1. i + 1 \in 1..(Len(<<x>>) + Len(p)) /\ ~(i + 1 <= Len(<<x>>)) /\ i + 1 - Len(<<x>>) = i
    BY <1>1, <1>3
  <2>2. QED
    BY <1>2, <2>1
<1>6. QED
  BY <1>1, <1>2, <1>3, <1>4, <1>5

\* One more tier: a path made of a quotient and the path of the remainder.
LEMMA TierStep ==
  ASSUME NEW m \in Nat \ {0}, NEW a \in Nat, NEW p \in Seq(Nat)
  PROVE  /\ a \div m \in Nat /\ a % m \in Nat
         /\ <<a \div m>> \o p \in Seq(Nat)
         /\ Len(<<a \div m>> \o p) = Len(p) + 1
         /\ (<<a \div m>> \o p)[1] = a \div m
         /\ \A i \in 1..Len(p) : (<<a \div m>> \o p)[i + 1] = p[i]
<1>1. a \div m \in Nat /\ a % m \in Nat
  BY DivMod
<1>2. QED
  BY <1>1, ConsFacts

LEMMA TierInjective ==
  ASSUME NEW m \in Nat \ {0}, NEW a \in Nat, NEW b \in Nat, NEW p \in Seq(Nat), NEW r \in Seq(Nat),
         Len(p) = Len(r),
         \A i \in 1..(Len(p) + 1) : (<<a \div m>> \o p)[i] = (<<b \div m>> \o r)[i],
         (\A i \in 1..Len(p) : p[i] = r[i]) => a % m = b % m
  PROVE  a = b
<1>1. /\ (<<a \div m>> \o p)[1] = a \div m
      /\ \A i \in 1..Len(p) : (<<a \div m>> \o p)[i + 1] = p[i]
  BY TierStep
<1>2. /\ (<<b \div m>> \o r)[1] = b \div m
      /\ \A i \in 1..Len(r) : (<<b \div m>> \o r)[i + 1] = r[i]
  BY TierStep
<1>3. Len(p) \in Nat
  BY LenProperties
<1>4. a \div m = b \div m
  BY <1>1, <1>2, <1>3
<1>5. ASSUME NEW i \in 1..Len(p)
      PROVE  p[i] = r[i]
  <2>1. i + 1 \in 1..(Len(p) + 1)
    BY <1>3
  <2>2. QED
    BY <1>1, <1>2, <2>1
<1>6. QED
  BY <1>4, <1>5, DivModDetermine

\* Paths through one to four tiers: they have that length, determine the key, and
\* the first slot of a larger key is not smaller.
LEMMA Depth1Facts ==
  ASSUME NEW s
  PROVE  /\ \A a \in Nat : Depth1(a, s) \in Seq(Nat) /\ Len(Depth1(a, s)) = 1
         /\ \A a, b \in Nat : (\A i \in 1..1 : Depth1(a, s)[i] = Depth1(b, s)[i]) => a = b
         /\ \A a, b \in Nat : a <= b => Depth1(a, s)[1] <= Depth1(b, s)[1]
<1>1. \A a \in Nat : <<a>> \in Seq(Nat) /\ Len(<<a>>) = 1 /\ <<a>>[1] = a
  OBVIOUS
<1>2. QED
  BY <1>1 DEF Depth1

LEMMA Depth2Facts ==
  ASSUME NEW s \in Seq(Nat \ {0}), Len(s) = 2
  PROVE  /\ \A a \in Nat : Depth2(a, s) \in Seq(Nat) /\ Len(Depth2(a, s)) = 2
         /\ \A a, b \in Nat : (\A i \in 1..2 : Depth2(a, s)[i] = Depth2(b, s)[i]) => a = b
         /\ \A a, b \in Nat : a <= b => Depth2(a, s)[1] <= Depth2(b, s)[1]
<1> DEFINE m == s[2]
           rest(a) == Depth1(a % m, Tail(s))
<1>1. m \in Nat \ {0}
  <2>1. \A i \in 1..2 : s[i] \in Nat \ {0}
    BY ElementOfSeq
  <2>2. s[2] \in Nat \ {0}
    BY <2>1
  <2>3. QED
    BY <2>2, PositiveProduct
<1>2. Tail(s) \in Seq(Nat \ {0}) /\ Len(Tail(s)) = 1
  BY HeadTailProperties, EmptySeq
<1>3. \A a \in Nat : Depth2(a, s) = <<a \div m>> \o rest(a)
  BY DEF Depth2
<1> HIDE DEF m
<1>4. ASSUME NEW a \in Nat
      PROVE  a % m \in Nat /\ a \div m \in Nat
  <2>1. a \div m \in Nat /\ a % m \in 0..(m - 1)
    BY <1>1, DivMod
  <2>2. QED
    BY <1>1, <2>1
<1>5. /\ \A a \in Nat : Depth1(a, Tail(s)) \in Seq(Nat) /\ Len(Depth1(a, Tail(s))) = 1
      /\ \A a, b \in Nat :
           (\A i \in 1..1 : Depth1(a, Tail(s))[i] = Depth1(b, Tail(s))[i]) => a = b
  BY <1>2, Depth1Facts
<1>6. ASSUME NEW a \in Nat
      PROVE  rest(a) \in Seq(Nat) /\ Len(rest(a)) = 1
  BY <1>4, <1>5
<1>7. ASSUME NEW a \in Nat, NEW b \in Nat, \A i \in 1..1 : rest(a)[i] = rest(b)[i]
      PROVE  a % m = b % m
  BY <1>4, <1>5, <1>7
<1> HIDE DEF rest
<1>8. ASSUME NEW a \in Nat
      PROVE  /\ Depth2(a, s) \in Seq(Nat) /\ Len(Depth2(a, s)) = 2
             /\ Depth2(a, s)[1] = a \div m
  <2>1. /\ <<a \div m>> \o rest(a) \in Seq(Nat)
        /\ Len(<<a \div m>> \o rest(a)) = Len(rest(a)) + 1
        /\ (<<a \div m>> \o rest(a))[1] = a \div m
    BY <1>1, <1>6, TierStep
  <2>2. Len(rest(a)) + 1 = 2
    <3>1. Len(rest(a)) = 1
      BY <1>6
    <3>2. QED
      BY <3>1
  <2>3. <<a \div m>> \o rest(a) = Depth2(a, s)
    BY <1>3
  <2>4. QED
    BY <2>1, <2>2, <2>3, Zenon
<1>9. ASSUME NEW a \in Nat, NEW b \in Nat, \A i \in 1..2 : Depth2(a, s)[i] = Depth2(b, s)[i]
      PROVE  a = b
  <2>1. /\ rest(a) \in Seq(Nat) /\ Len(rest(a)) = 1
        /\ rest(b) \in Seq(Nat) /\ Len(rest(b)) = 1
    BY <1>6
  <2>2. Len(rest(a)) + 1 = 2
    BY <2>1
  <2>3. \A i \in 1..(Len(rest(a)) + 1) : (<<a \div m>> \o rest(a))[i] = (<<b \div m>> \o rest(b))[i]
    <3>1. Depth2(a, s) = <<a \div m>> \o rest(a) /\ Depth2(b, s) = <<b \div m>> \o rest(b)
      BY <1>3
    <3>2. QED
      BY <1>9, <2>2, <3>1, Zenon
  <2>4. (\A i \in 1..Len(rest(a)) : rest(a)[i] = rest(b)[i]) => a % m = b % m
    BY <1>7, <2>1
  <2>5. Len(rest(a)) = Len(rest(b))
    BY <2>1
  <2>6. QED
    BY <1>1, <2>1, <2>3, <2>4, <2>5, TierInjective, Zenon
<1>10. ASSUME NEW a \in Nat, NEW b \in Nat, a <= b
       PROVE  Depth2(a, s)[1] <= Depth2(b, s)[1]
  <2>1. a \div m <= b \div m
    BY <1>1, <1>10, DivMonotone
  <2>2. QED
    BY <1>8, <2>1
<1>11. QED
  BY <1>8, <1>9, <1>10

LEMMA Depth3Facts ==
  ASSUME NEW s \in Seq(Nat \ {0}), Len(s) = 3
  PROVE  /\ \A a \in Nat : Depth3(a, s) \in Seq(Nat) /\ Len(Depth3(a, s)) = 3
         /\ \A a, b \in Nat : (\A i \in 1..3 : Depth3(a, s)[i] = Depth3(b, s)[i]) => a = b
         /\ \A a, b \in Nat : a <= b => Depth3(a, s)[1] <= Depth3(b, s)[1]
<1> DEFINE m == s[2] * s[3]
           rest(a) == Depth2(a % m, Tail(s))
<1>1. m \in Nat \ {0}
  <2>1. \A i \in 1..3 : s[i] \in Nat \ {0}
    BY ElementOfSeq
  <2>2. s[2] \in Nat \ {0} /\ s[3] \in Nat \ {0}
    BY <2>1
  <2>3. QED
    BY <2>2, PositiveProduct
<1>2. Tail(s) \in Seq(Nat \ {0}) /\ Len(Tail(s)) = 2
  BY HeadTailProperties, EmptySeq
<1>3. \A a \in Nat : Depth3(a, s) = <<a \div m>> \o rest(a)
  BY DEF Depth3
<1> HIDE DEF m
<1>4. ASSUME NEW a \in Nat
      PROVE  a % m \in Nat /\ a \div m \in Nat
  <2>1. a \div m \in Nat /\ a % m \in 0..(m - 1)
    BY <1>1, DivMod
  <2>2. QED
    BY <1>1, <2>1
<1>5. /\ \A a \in Nat : Depth2(a, Tail(s)) \in Seq(Nat) /\ Len(Depth2(a, Tail(s))) = 2
      /\ \A a, b \in Nat :
           (\A i \in 1..2 : Depth2(a, Tail(s))[i] = Depth2(b, Tail(s))[i]) => a = b
  BY <1>2, Depth2Facts
<1>6. ASSUME NEW a \in Nat
      PROVE  rest(a) \in Seq(Nat) /\ Len(rest(a)) = 2
  BY <1>4, <1>5
<1>7. ASSUME NEW a \in Nat, NEW b \in Nat, \A i \in 1..2 : rest(a)[i] = rest(b)[i]
      PROVE  a % m = b % m
  BY <1>4, <1>5, <1>7
<1> HIDE DEF rest
<1>8. ASSUME NEW a \in Nat
      PROVE  /\ Depth3(a, s) \in Seq(Nat) /\ Len(Depth3(a, s)) = 3
             /\ Depth3(a, s)[1] = a \div m
  <2>1. /\ <<a \div m>> \o rest(a) \in Seq(Nat)
        /\ Len(<<a \div m>> \o rest(a)) = Len(rest(a)) + 1
        /\ (<<a \div m>> \o rest(a))[1] = a \div m
    BY <1>1, <1>6, TierStep
  <2>2. Len(rest(a)) + 1 = 3
    <3>1. Len(rest(a)) = 2
      BY <1>6
    <3>2. QED
      BY <3>1
  <2>3. <<a \div m>> \o rest(a) = Depth3(a, s)
    BY <1>3
  <2>4. QED
    BY <2>1, <2>2, <2>3, Zenon
<1>9. ASSUME NEW a \in Nat, NEW b \in Nat, \A i \in 1..3 : Depth3(a, s)[i] = Depth3(b, s)[i]
      PROVE  a = b
  <2>1. /\ rest(a) \in Seq(Nat) /\ Len(rest(a)) = 2
        /\ rest(b) \in Seq(Nat) /\ Len(rest(b)) = 2
    BY <1>6
  <2>2. Len(rest(a)) + 1 = 3
    BY <2>1
  <2>3. \A i \in 1..(Len(rest(a)) + 1) : (<<a \div m>> \o rest(a))[i] = (<<b \div m>> \o rest(b))[i]
    <3>1. Depth3(a, s) = <<a \div m>> \o rest(a) /\ Depth3(b, s) = <<b \div m>> \o rest(b)
      BY <1>3
    <3>2. QED
      BY <1>9, <2>2, <3>1, Zenon
  <2>4. (\A i \in 1..Len(rest(a)) : rest(a)[i] = rest(b)[i]) => a % m = b % m
    BY <1>7, <2>1
  <2>5. Len(rest(a)) = Len(rest(b))
    BY <2>1
  <2>6. QED
    BY <1>1, <2>1, <2>3, <2>4, <2>5, TierInjective, Zenon
<1>10. ASSUME NEW a \in Nat, NEW b \in Nat, a <= b
       PROVE  Depth3(a, s)[1] <= Depth3(b, s)[1]
  <2>1. a \div m <= b \div m
    BY <1>1, <1>10, DivMonotone
  <2>2. QED
    BY <1>8, <2>1
<1>11. QED
  BY <1>8, <1>9, <1>10

LEMMA Depth4Facts ==
  ASSUME NEW s \in Seq(Nat \ {0}), Len(s) = 4
  PROVE  /\ \A a \in Nat : Depth4(a, s) \in Seq(Nat) /\ Len(Depth4(a, s)) = 4
         /\ \A a, b \in Nat : (\A i \in 1..4 : Depth4(a, s)[i] = Depth4(b, s)[i]) => a = b
         /\ \A a, b \in Nat : a <= b => Depth4(a, s)[1] <= Depth4(b, s)[1]
<1> DEFINE m == s[2] * s[3] * s[4]
           rest(a) == Depth3(a % m, Tail(s))
<1>1. m \in Nat \ {0}
  <2>1. \A i \in 1..4 : s[i] \in Nat \ {0}
    BY ElementOfSeq
  <2>2. s[2] \in Nat \ {0} /\ s[3] \in Nat \ {0} /\ s[4] \in Nat \ {0}
    BY <2>1
  <2>3. QED
    BY <2>2, PositiveProduct
<1>2. Tail(s) \in Seq(Nat \ {0}) /\ Len(Tail(s)) = 3
  BY HeadTailProperties, EmptySeq
<1>3. \A a \in Nat : Depth4(a, s) = <<a \div m>> \o rest(a)
  BY DEF Depth4
<1> HIDE DEF m
<1>4. ASSUME NEW a \in Nat
      PROVE  a % m \in Nat /\ a \div m \in Nat
  <2>1. a \div m \in Nat /\ a % m \in 0..(m - 1)
    BY <1>1, DivMod
  <2>2. QED
    BY <1>1, <2>1
<1>5. /\ \A a \in Nat : Depth3(a, Tail(s)) \in Seq(Nat) /\ Len(Depth3(a, Tail(s))) = 3
      /\ \A a, b \in Nat :
           (\A i \in 1..3 : Depth3(a, Tail(s))[i] = Depth3(b, Tail(s))[i]) => a = b
  BY <1>2, Depth3Facts
<1>6. ASSUME NEW a \in Nat
      PROVE  rest(a) \in Seq(Nat) /\ Len(rest(a)) = 3
  BY <1>4, <1>5
<1>7. ASSUME NEW a \in Nat, NEW b \in Nat, \A i \in 1..3 : rest(a)[i] = rest(b)[i]
      PROVE  a % m = b % m
  BY <1>4, <1>5, <1>7
<1> HIDE DEF rest
<1>8. ASSUME NEW a \in Nat
      PROVE  /\ Depth4(a, s) \in Seq(Nat) /\ Len(Depth4(a, s)) = 4
             /\ Depth4(a, s)[1] = a \div m
  <2>1. /\ <<a \div m>> \o rest(a) \in Seq(Nat)
        /\ Len(<<a \div m>> \o rest(a)) = Len(rest(a)) + 1
        /\ (<<a \div m>> \o rest(a))[1] = a \div m
    BY <1>1, <1>6, TierStep
  <2>2. Len(rest(a)) + 1 = 4
    <3>1. Len(rest(a)) = 3
      BY <1>6
    <3>2. QED
      BY <3>1
  <2>3. <<a \div m>> \o rest(a) = Depth4(a, s)
    BY <1>3
  <2>4. QED
    BY <2>1, <2>2, <2>3, Zenon
<1>9. ASSUME NEW a \in Nat, NEW b \in Nat, \A i \in 1..4 : Depth4(a, s)[i] = Depth4(b, s)[i]
      PROVE  a = b
  <2>1. /\ rest(a) \in Seq(Nat) /\ Len(rest(a)) = 3
        /\ rest(b) \in Seq(Nat) /\ Len(rest(b)) = 3
    BY <1>6
  <2>2. Len(rest(a)) + 1 = 4
    BY <2>1
  <2>3. \A i \in 1..(Len(rest(a)) + 1) : (<<a \div m>> \o rest(a))[i] = (<<b \div m>> \o rest(b))[i]
    <3>1. Depth4(a, s) = <<a \div m>> \o rest(a) /\ Depth4(b, s) = <<b \div m>> \o rest(b)
      BY <1>3
    <3>2. QED
      BY <1>9, <2>2, <3>1, Zenon
  <2>4. (\A i \in 1..Len(rest(a)) : rest(a)[i] = rest(b)[i]) => a % m = b % m
    BY <1>7, <2>1
  <2>5. Len(rest(a)) = Len(rest(b))
    BY <2>1
  <2>6. QED
    BY <1>1, <2>1, <2>3, <2>4, <2>5, TierInjective, Zenon
<1>10. ASSUME NEW a \in Nat, NEW b \in Nat, a <= b
       PROVE  Depth4(a, s)[1] <= Depth4(b, s)[1]
  <2>1. a \div m <= b \div m
    BY <1>1, <1>10, DivMonotone
  <2>2. QED
    BY <1>8, <2>1
<1>11. QED
  BY <1>8, <1>9, <1>10

\* The path of a key has a slot for each tier, determines the key, and the first
\* slot of a larger key is not smaller.
LEMMA PathFacts ==
  ASSUME length \in Lengths
  PROVE  /\ Len(shape) \in 1..4
         /\ \A a \in Nat : Path(a) \in Seq(Nat) /\ Len(Path(a)) = Len(shape)
         /\ \A a, b \in Nat : (\A i \in 1..Len(shape) : Path(a)[i] = Path(b)[i]) => a = b
         /\ \A a, b \in Nat : a <= b => Path(a)[1] <= Path(b)[1]
<1>1. length \in 1..8
  BY LengthAssumption
<1>2. shape \in Seq(Nat \ {0}) /\ Len(shape) \in 1..4
  BY <1>1, ShapeFacts DEF shape
<1>3. Len(shape) = 1 \/ Len(shape) = 2 \/ Len(shape) = 3 \/ Len(shape) = 4
  BY <1>2
<1>4. CASE Len(shape) = 1
  BY <1>4, Depth1Facts DEF Path
<1>5. CASE Len(shape) = 2
  BY <1>2, <1>5, Depth2Facts DEF Path
<1>6. CASE Len(shape) = 3
  BY <1>2, <1>6, Depth3Facts DEF Path
<1>7. CASE Len(shape) = 4
  BY <1>2, <1>7, Depth4Facts DEF Path
<1>8. QED
  BY <1>3, <1>4, <1>5, <1>6, <1>7

\* The path of a list has a slot more for the character index.
LEMMA KeyPathFacts ==
  ASSUME length \in Lengths, ViewInv
  PROVE  \E k \in 1..4 :
           /\ \A a \in Nat : KeyPath(a) \in Seq(Nat) /\ Len(KeyPath(a)) = k
           /\ \A a, b \in Nat : (\A i \in 1..k : KeyPath(a)[i] = KeyPath(b)[i]) => a = b
           /\ \A a \in Nat : KeyPath(a)[1] = Path(a)[1]
           /\ view = "token" => k = Len(shape)
           /\ view = "char" => /\ k = Len(shape) + 1
                               /\ \A a \in Nat : /\ \A i \in 1..Len(shape) : KeyPath(a)[i] = Path(a)[i]
                                                 /\ KeyPath(a)[Len(shape) + 1] = CharId
<1>1. /\ Len(shape) \in 1..4
      /\ \A a \in Nat : Path(a) \in Seq(Nat) /\ Len(Path(a)) = Len(shape)
      /\ \A a, b \in Nat : (\A i \in 1..Len(shape) : Path(a)[i] = Path(b)[i]) => a = b
  BY PathFacts
<1>2. CASE view = "token"
  <2>1. \A a \in Nat : KeyPath(a) = Path(a)
    BY <1>2 DEF KeyPath
  <2> DEFINE k == Len(shape)
  <2>2. view # "char"
    BY <1>2
  <2>3. k \in 1..4
    BY <1>1
  <2>4. /\ \A a \in Nat : KeyPath(a) \in Seq(Nat) /\ Len(KeyPath(a)) = k
        /\ \A a, b \in Nat : (\A i \in 1..k : KeyPath(a)[i] = KeyPath(b)[i]) => a = b
        /\ \A a \in Nat : KeyPath(a)[1] = Path(a)[1]
    <3>1. ASSUME NEW a \in Nat
          PROVE  KeyPath(a) \in Seq(Nat) /\ Len(KeyPath(a)) = k /\ KeyPath(a)[1] = Path(a)[1]
      <4>1. KeyPath(a) = Path(a)
        BY <2>1, Zenon
      <4>2. Path(a) \in Seq(Nat) /\ Len(Path(a)) = k
        BY <1>1, Zenon
      <4>3. QED
        BY <4>1, <4>2, Zenon
    <3>2. ASSUME NEW a \in Nat, NEW b \in Nat, \A i \in 1..k : KeyPath(a)[i] = KeyPath(b)[i]
          PROVE  a = b
      <4>1. \A i \in 1..Len(shape) : Path(a)[i] = Path(b)[i]
        BY <2>1, <3>2, Zenon
      <4>2. QED
        BY <1>1, <4>1, Zenon
    <3>3. QED
      BY <3>1, <3>2
  <2>5. view = "token" => k = Len(shape)
    OBVIOUS
  <2> HIDE DEF k
  <2>6. QED
    BY <2>2, <2>3, <2>4, <2>5
<1>3. CASE view = "char"
  <2>1. Len(shape) = 2
    <3>1. length = 4 /\ 4 \in 1..8 /\ (4 + 1) \div 2 = 2
      BY <1>3 DEF ViewInv
    <3>2. QED
      BY <3>1, ShapeFacts DEF shape
  <2>2. ASSUME NEW a \in Nat
        PROVE  /\ KeyPath(a) \in Seq(Nat) /\ Len(KeyPath(a)) = 3
               /\ \A i \in 1..2 : KeyPath(a)[i] = Path(a)[i]
               /\ KeyPath(a)[3] = CharId
    <3>1. KeyPath(a) = Path(a) \o <<CharId>>
      BY <1>3 DEF KeyPath
    <3>2. <<CharId>> \in Seq(Nat) /\ Len(<<CharId>>) = 1 /\ <<CharId>>[1] = CharId
      BY DEF CharId
    <3>3. Path(a) \in Seq(Nat) /\ Len(Path(a)) = 2
      BY <1>1, <2>1
    <3> DEFINE p == Path(a)
               c == <<CharId>>
    <3> HIDE DEF p, c
    <3>4. /\ p \o c \in Seq(Nat)
          /\ Len(p \o c) = Len(p) + Len(c)
          /\ \A i \in 1..(Len(p) + Len(c)) : (p \o c)[i] = IF i <= Len(p) THEN p[i] ELSE c[i - Len(p)]
      BY <3>2, <3>3, ConcatProperties DEF p, c
    <3>5. KeyPath(a) = p \o c /\ p = Path(a) /\ Len(p) = 2 /\ Len(c) = 1 /\ c[1] = CharId
      BY <3>1, <3>2, <3>3 DEF p, c
    <3>6. \A i \in 1..3 : KeyPath(a)[i] = IF i <= 2 THEN p[i] ELSE c[i - 2]
      BY <3>4, <3>5
    <3>7. QED
      BY <3>4, <3>5, <3>6
  <2>3. QED
    BY <1>1, <1>3, <2>1, <2>2
<1>4. QED
  BY <1>2, <1>3 DEF ViewInv

LEMMA SameKey ==
  ASSUME NEW a
  PROVE  KeyPath(a) = Key(a) /\ Path(a) = Short(a)
  BY DEF KeyPath, Key, KeyFor, Path, Short, PathFor, shape

\* What the proofs below use of the paths of keys.
LEMMA KeyFacts ==
  ASSUME length \in Lengths, ViewInv
  PROVE  /\ \A a \in Nat : /\ Key(a) \in Seq(Nat) /\ Len(Key(a)) \in 1..4
                           /\ Short(a) \in Seq(Nat) /\ Len(Short(a)) \in 1..4
                           /\ Key(a)[1] = Short(a)[1]
                           /\ view = "token" => Key(a) = Short(a)
                           /\ view = "char" =>
                                /\ Len(Key(a)) = Len(Short(a)) + 1
                                /\ \A i \in 1..Len(Short(a)) : Key(a)[i] = Short(a)[i]
                                /\ Key(a)[Len(Short(a)) + 1] = CharId
         /\ \A a, b \in Nat :
              Len(Key(a)) = Len(Key(b)) /\ ((\A i \in 1..Len(Key(a)) : Key(a)[i] = Key(b)[i]) => a = b)
         /\ \A a, b \in Nat : a <= b => Short(a)[1] <= Short(b)[1]
<1>1. /\ Len(shape) \in 1..4
      /\ \A a \in Nat : Path(a) \in Seq(Nat) /\ Len(Path(a)) = Len(shape)
      /\ \A a, b \in Nat : a <= b => Path(a)[1] <= Path(b)[1]
  BY PathFacts
<1>2. PICK k \in 1..4 :
        /\ \A a \in Nat : KeyPath(a) \in Seq(Nat) /\ Len(KeyPath(a)) = k
        /\ \A a, b \in Nat : (\A i \in 1..k : KeyPath(a)[i] = KeyPath(b)[i]) => a = b
        /\ \A a \in Nat : KeyPath(a)[1] = Path(a)[1]
        /\ view = "char" => /\ k = Len(shape) + 1
                            /\ \A a \in Nat : /\ \A i \in 1..Len(shape) : KeyPath(a)[i] = Path(a)[i]
                                              /\ KeyPath(a)[Len(shape) + 1] = CharId
  BY KeyPathFacts
<1>3. \A a : KeyPath(a) = Key(a) /\ Path(a) = Short(a)
  BY SameKey
<1>4. ASSUME NEW a \in Nat
      PROVE  /\ Key(a) \in Seq(Nat) /\ Len(Key(a)) = k
             /\ Short(a) \in Seq(Nat) /\ Len(Short(a)) = Len(shape)
             /\ Key(a)[1] = Short(a)[1]
             /\ view = "token" => Key(a) = Short(a)
             /\ view = "char" =>
                  /\ k = Len(shape) + 1
                  /\ \A i \in 1..Len(shape) : Key(a)[i] = Short(a)[i]
                  /\ Key(a)[Len(shape) + 1] = CharId
  <2>1. KeyPath(a) = Key(a) /\ Path(a) = Short(a)
    BY <1>3, Zenon
  <2>2. view = "token" => Key(a) = Short(a)
    BY DEF Key, KeyFor, Short
  <2>3. QED
    BY <1>1, <1>2, <2>1, <2>2, Zenon
<1>5. ASSUME NEW a \in Nat, NEW b \in Nat
      PROVE  /\ (\A i \in 1..k : Key(a)[i] = Key(b)[i]) => a = b
             /\ a <= b => Short(a)[1] <= Short(b)[1]
  BY <1>1, <1>2, <1>3, Zenon
<1>6. ASSUME NEW a \in Nat
      PROVE  /\ Key(a) \in Seq(Nat) /\ Len(Key(a)) \in 1..4
             /\ Short(a) \in Seq(Nat) /\ Len(Short(a)) \in 1..4
             /\ Key(a)[1] = Short(a)[1]
             /\ view = "token" => Key(a) = Short(a)
             /\ view = "char" =>
                  /\ Len(Key(a)) = Len(Short(a)) + 1
                  /\ \A i \in 1..Len(Short(a)) : Key(a)[i] = Short(a)[i]
                  /\ Key(a)[Len(Short(a)) + 1] = CharId
  <2>1. k \in 1..4 /\ Len(shape) \in 1..4
    BY <1>1, <1>2
  <2>2. QED
    BY <1>4, <2>1, Zenon
<1>7. ASSUME NEW a \in Nat, NEW b \in Nat
      PROVE  /\ Len(Key(a)) = Len(Key(b))
             /\ (\A i \in 1..Len(Key(a)) : Key(a)[i] = Key(b)[i]) => a = b
             /\ a <= b => Short(a)[1] <= Short(b)[1]
  <2>1. Len(Key(a)) = k /\ Len(Key(b)) = k
    BY <1>4
  <2>2. QED
    BY <1>5, <2>1, Zenon
<1>8. QED
  BY <1>6, <1>7, Zenon

-----------------------------------------------------------------------------
(* Nodes and slots                                                         *)

LEMMA NodeAppend ==
  ASSUME NEW n \in Nodes, NEW s \in Nat, NEW t \in Threads
  PROVE  /\ Append(n, <<s, t>>) \in Nodes
         /\ Len(Append(n, <<s, t>>)) = Len(n) + 1
         /\ Len(n) \in Nat
         /\ \A i \in 1..Len(n) : Append(n, <<s, t>>)[i] = n[i]
         /\ Append(n, <<s, t>>)[Len(n) + 1] = <<s, t>>
         /\ Append(n, <<s, t>>) # Root
         /\ Append(n, <<s, t>>) # Null
<1>1. <<s, t>> \in Nat \X Threads
  OBVIOUS
<1>2. /\ Append(n, <<s, t>>) \in Nodes
      /\ Len(Append(n, <<s, t>>)) = Len(n) + 1
      /\ \A i \in 1..Len(n) : Append(n, <<s, t>>)[i] = n[i]
      /\ Append(n, <<s, t>>)[Len(n) + 1] = <<s, t>>
  BY <1>1, AppendProperties DEF Nodes
<1>3. Len(n) \in Nat
  BY LenProperties DEF Nodes
<1>4. Len(Root) = 0
  BY EmptySeq DEF Root
<1>5. Append(n, <<s, t>>) # Root
  BY <1>2, <1>3, <1>4
<1>6. Append(n, <<s, t>>) # Null
  BY <1>2, NullNode DEF Nodes
<1>7. QED
  BY <1>2, <1>3, <1>5, <1>6

LEMMA NodeParts ==
  ASSUME NEW n \in Nodes, NEW s \in Nat, NEW t \in Threads,
         NEW m \in Nodes, NEW r \in Nat, NEW u \in Threads,
         Append(n, <<s, t>>) = Append(m, <<r, u>>)
  PROVE  n = m /\ s = r /\ t = u
<1>1. /\ Len(Append(n, <<s, t>>)) = Len(n) + 1 /\ Len(n) \in Nat
      /\ \A i \in 1..Len(n) : Append(n, <<s, t>>)[i] = n[i]
      /\ Append(n, <<s, t>>)[Len(n) + 1] = <<s, t>>
  BY NodeAppend
<1>2. /\ Len(Append(m, <<r, u>>)) = Len(m) + 1 /\ Len(m) \in Nat
      /\ \A i \in 1..Len(m) : Append(m, <<r, u>>)[i] = m[i]
      /\ Append(m, <<r, u>>)[Len(m) + 1] = <<r, u>>
  BY NodeAppend
<1>3. Len(n) = Len(m)
  BY <1>1, <1>2
<1>4. <<s, t>> = <<r, u>>
  BY <1>1, <1>2, <1>3
<1>5. \A i \in 1..Len(n) : n[i] = m[i]
  BY <1>1, <1>2, <1>3
<1>6. n = m
  BY <1>3, <1>5, SeqEqual DEF Nodes
<1>7. QED
  BY <1>4, <1>6

\* A slot that is set leads from a reachable node to a reachable one, whose name
\* is that of the first with the slot added.
LEMMA ChildFacts ==
  ASSUME Reachable \subseteq Nodes, SlotInv
  PROVE  /\ Root \in Reachable /\ Null \notin Reachable
         /\ \A s : Child(Null, s) = Null
         /\ \A n, s : Child(n, s) # Null =>
              /\ Child(n, s) \in Reachable /\ n \in Reachable /\ s \in Nat
              /\ \E t \in Threads : Child(n, s) = Append(n, <<s, t>>)
         /\ \A m \in Reachable : m # Root =>
              \E n \in Reachable, s \in Nat, t \in Threads :
                m = Append(n, <<s, t>>) /\ Child(n, s) = m
<1>1. Root \in Reachable /\ Null \notin Reachable
  BY NullNode DEF Reachable, Nodes
<1>2. ASSUME NEW n, NEW s, Child(n, s) # Null
      PROVE  /\ Child(n, s) \in Reachable /\ n \in Reachable /\ s \in Nat
             /\ \E t \in Threads : Child(n, s) = Append(n, <<s, t>>)
  <2>1. <<n, s>> \in DOMAIN idx /\ Child(n, s) = idx[<<n, s>>]
    BY <1>2 DEF Child
  <2>2. QED
    BY <2>1 DEF SlotInv, Reachable
<1>3. ASSUME NEW s
      PROVE  Child(Null, s) = Null
  BY <1>1, <1>2
<1>4. ASSUME NEW m \in Reachable, m # Root
      PROVE  \E n \in Reachable, s \in Nat, t \in Threads :
               m = Append(n, <<s, t>>) /\ Child(n, s) = m
  <2>1. PICK c \in DOMAIN idx : m = idx[c]
    BY <1>4 DEF Reachable
  <2>2. PICK t \in Threads : idx[c] = Append(c[1], <<c[2], t>>)
    BY <2>1 DEF SlotInv
  <2>3. c \in Reachable \X Nat
    BY <2>1 DEF SlotInv
  <2>4. c = <<c[1], c[2]>> /\ c[1] \in Reachable /\ c[2] \in Nat
    BY <2>3
  <2>5. Child(c[1], c[2]) = m
    BY <2>1, <2>4 DEF Child
  <2>6. QED
    BY <2>1, <2>2, <2>4, <2>5
<1>5. QED
  BY <1>1, <1>2, <1>3, <1>4

\* A reachable node and the one above it.
LEMMA Parent ==
  ASSUME Reachable \subseteq Nodes, SlotInv, NEW m \in Reachable, NEW k \in Nat, Len(m) = k + 1
  PROVE  \E n \in Reachable :
           /\ Len(n) = k
           /\ \A i \in 1..k : n[i] = m[i]
           /\ Child(n, m[k + 1][1]) = m
<1>1. m # Root
  BY EmptySeq DEF Root
<1>2. PICK n \in Reachable, s \in Nat, t \in Threads :
        m = Append(n, <<s, t>>) /\ Child(n, s) = m
  BY <1>1, ChildFacts
<1>3. n \in Nodes
  BY <1>2
<1>4. /\ Len(m) = Len(n) + 1 /\ Len(n) \in Nat
      /\ \A i \in 1..Len(n) : m[i] = n[i]
      /\ m[Len(n) + 1] = <<s, t>>
  BY <1>2, <1>3, NodeAppend
<1>5. Len(n) = k /\ m[k + 1][1] = s
  BY <1>4
<1>6. QED
  BY <1>2, <1>4, <1>5

LEMMA RootAlone ==
  ASSUME Reachable \subseteq Nodes, NEW n \in Reachable, Len(n) = 0
  PROVE  n = Root
  BY EmptySeq DEF Root, Nodes

\* at() finds exactly the reachable nodes that bear the path's slots.
LEMMA AtFinds ==
  ASSUME Reachable \subseteq Nodes, SlotInv, NEW p \in Seq(Nat), Len(p) \in 1..4,
         NEW n \in Reachable, Leads(n, p)
  PROVE  at(p) = n
<1> DEFINE k == Len(p)
<1>0. k \in 1..4 /\ Len(n) = k /\ \A i \in 1..k : n[i][1] = p[i]
  BY DEF Leads
<1> DEFINE Above(m, j) ==
             m \in Reachable /\ Len(m) = j /\ \A i \in 1..j : m[i] = n[i]
<1>1. ASSUME NEW m, NEW j \in 1..4, Above(m, j), j <= k
      PROVE  \E o : Above(o, j - 1) /\ Child(o, p[j]) = m
  <2>1. PICK o \in Reachable :
          Len(o) = j - 1 /\ (\A i \in 1..(j - 1) : o[i] = m[i]) /\ Child(o, m[(j - 1) + 1][1]) = m
    <3>1. j - 1 \in Nat /\ Len(m) = (j - 1) + 1
      BY <1>1
    <3>2. QED
      BY <1>1, <3>1, Parent
  <2>2. m[(j - 1) + 1][1] = p[j]
    BY <1>0, <1>1
  <2>3. QED
    BY <1>1, <2>1, <2>2
<1>2. ASSUME NEW m, Above(m, 0)
      PROVE  m = Root
  BY <1>2, RootAlone
<1>3. Above(n, k)
  BY <1>0
<1> HIDE DEF Above
<1>4. CASE k = 1
  <2>1. PICK o : Above(o, 1 - 1) /\ Child(o, p[1]) = n
    BY <1>1, <1>3, <1>4
  <2>2. o = Root
    BY <1>2, <2>1
  <2>3. QED
    BY <1>4, <2>1, <2>2 DEF at
<1>5. CASE k = 2
  <2>1. PICK o : Above(o, 2 - 1) /\ Child(o, p[2]) = n
    BY <1>1, <1>3, <1>5
  <2>2. PICK o2 : Above(o2, 1 - 1) /\ Child(o2, p[1]) = o
    BY <1>1, <1>5, <2>1
  <2>3. o2 = Root
    BY <1>2, <2>2
  <2>4. QED
    BY <1>5, <2>1, <2>2, <2>3 DEF at
<1>6. CASE k = 3
  <2>1. PICK o : Above(o, 3 - 1) /\ Child(o, p[3]) = n
    BY <1>1, <1>3, <1>6
  <2>2. PICK o2 : Above(o2, 2 - 1) /\ Child(o2, p[2]) = o
    BY <1>1, <1>6, <2>1
  <2>3. PICK o3 : Above(o3, 1 - 1) /\ Child(o3, p[1]) = o2
    BY <1>1, <1>6, <2>2
  <2>4. o3 = Root
    BY <1>2, <2>3
  <2>5. QED
    BY <1>6, <2>1, <2>2, <2>3, <2>4 DEF at
<1>7. CASE k = 4
  <2>1. PICK o : Above(o, 4 - 1) /\ Child(o, p[4]) = n
    BY <1>1, <1>3, <1>7
  <2>2. PICK o2 : Above(o2, 3 - 1) /\ Child(o2, p[3]) = o
    BY <1>1, <1>7, <2>1
  <2>3. PICK o3 : Above(o3, 2 - 1) /\ Child(o3, p[2]) = o2
    BY <1>1, <1>7, <2>2
  <2>4. PICK o4 : Above(o4, 1 - 1) /\ Child(o4, p[1]) = o3
    BY <1>1, <1>7, <2>3
  <2>5. o4 = Root
    BY <1>2, <2>4
  <2>6. QED
    BY <1>7, <2>1, <2>2, <2>3, <2>4, <2>5 DEF at
<1>8. QED
  BY <1>0, <1>4, <1>5, <1>6, <1>7

LEMMA AtLeads ==
  ASSUME Reachable \subseteq Nodes, SlotInv, NEW p \in Seq(Nat), Len(p) \in 1..4, at(p) # Null
  PROVE  at(p) \in Reachable /\ Leads(at(p), p)
<1> DEFINE To(m, j) == m \in Reachable /\ Len(m) = j /\ \A i \in 1..j : m[i][1] = p[i]
<1>1. To(Root, 0)
  BY EmptySeq, ChildFacts DEF Root
<1>2. ASSUME NEW m, NEW j \in Nat, m = Null \/ To(m, j), Child(m, p[j + 1]) # Null
      PROVE  To(Child(m, p[j + 1]), j + 1)
  <2>1. m # Null
    BY <1>2, ChildFacts
  <2>2. To(m, j)
    BY <1>2, <2>1
  <2>3. PICK t \in Threads : Child(m, p[j + 1]) = Append(m, <<p[j + 1], t>>)
    BY <1>2, ChildFacts
  <2>4. p[j + 1] \in Nat /\ Child(m, p[j + 1]) \in Reachable
    BY <1>2, ChildFacts
  <2> DEFINE c == Child(m, p[j + 1])
  <2>5. /\ Len(c) = j + 1
        /\ \A i \in 1..j : c[i] = m[i]
        /\ c[j + 1] = <<p[j + 1], t>>
    BY <2>2, <2>3, <2>4, NodeAppend
  <2>6. c[j + 1][1] = p[j + 1]
    BY <2>5
  <2>7. \A i \in 1..(j + 1) : i \in 1..j \/ i = j + 1
    OBVIOUS
  <2>8. QED
    BY <2>2, <2>4, <2>5, <2>6, <2>7
<1> DEFINE n1 == Child(Root, p[1])
           n2 == Child(n1, p[2])
           n3 == Child(n2, p[3])
           n4 == Child(n3, p[4])
<1> HIDE DEF To
<1>3. n1 = Null \/ To(n1, 1)
  BY <1>1, <1>2
<1> HIDE DEF n1
<1>4. n2 = Null \/ To(n2, 2)
  <2>1. 1 \in Nat /\ 1 + 1 = 2 /\ Child(n1, p[1 + 1]) = n2
    OBVIOUS
  <2>2. n2 # Null => To(Child(n1, p[1 + 1]), 1 + 1)
    BY <1>2, <1>3, <2>1
  <2>3. QED
    BY <2>1, <2>2
<1> HIDE DEF n2
<1>5. n3 = Null \/ To(n3, 3)
  <2>1. 2 \in Nat /\ 2 + 1 = 3 /\ Child(n2, p[2 + 1]) = n3
    OBVIOUS
  <2>2. n3 # Null => To(Child(n2, p[2 + 1]), 2 + 1)
    BY <1>2, <1>4, <2>1
  <2>3. QED
    BY <2>1, <2>2
<1> HIDE DEF n3
<1>6. n4 = Null \/ To(n4, 4)
  <2>1. 3 \in Nat /\ 3 + 1 = 4 /\ Child(n3, p[3 + 1]) = n4
    OBVIOUS
  <2>2. n4 # Null => To(Child(n3, p[3 + 1]), 3 + 1)
    BY <1>2, <1>5, <2>1
  <2>3. QED
    BY <2>1, <2>2
<1> HIDE DEF n4
<1>7. at(p) = CASE Len(p) = 1 -> n1 [] Len(p) = 2 -> n2 [] Len(p) = 3 -> n3 [] Len(p) = 4 -> n4
  BY DEF at, n1, n2, n3, n4
<1>8. To(at(p), Len(p))
  <2>1. Len(p) = 1 \/ Len(p) = 2 \/ Len(p) = 3 \/ Len(p) = 4
    OBVIOUS
  <2>2. CASE Len(p) = 1
    BY <1>3, <1>7, <2>2
  <2>3. CASE Len(p) = 2
    BY <1>4, <1>7, <2>3
  <2>4. CASE Len(p) = 3
    BY <1>5, <1>7, <2>4
  <2>5. CASE Len(p) = 4
    BY <1>6, <1>7, <2>5
  <2>6. QED
    BY <2>1, <2>2, <2>3, <2>4, <2>5
<1>9. QED
  BY <1>8 DEF To, Leads

\* Where the path of a key leads.
LEMMA AtKey ==
  ASSUME IndexInv, ViewInv, NEW a \in Nat
  PROVE  /\ at(KeyPath(a)) # Null => at(KeyPath(a)) \in Reachable /\ Leads(at(KeyPath(a)), Key(a))
         /\ \A n \in Reachable : Leads(n, Key(a)) => at(KeyPath(a)) = n
<1>1. Key(a) \in Seq(Nat) /\ Len(Key(a)) \in 1..4
  BY KeyFacts DEF IndexInv
<1>2. Reachable \subseteq Nodes /\ SlotInv
  BY DEF IndexInv
<1>3. KeyPath(a) = Key(a)
  BY SameKey
<1>4. QED
  BY <1>1, <1>2, <1>3, AtFinds, AtLeads

\* Two keys do not share a list.
LEMMA LeadsKey ==
  ASSUME length \in Lengths, ViewInv, NEW a \in Nat, NEW b \in Nat, NEW n,
         Leads(n, Key(a)), Leads(n, Key(b))
  PROVE  a = b
<1>1. \A i \in 1..Len(Key(a)) : Key(a)[i] = Key(b)[i]
  BY KeyFacts DEF Leads
<1>2. QED
  BY <1>1, KeyFacts

-----------------------------------------------------------------------------
(* get() and the index                                                     *)

\* The node a thread allocates is nobody else's.
LEMMA FreshFacts ==
  ASSUME IndexInv, NEW t \in Threads, walk[t].path # <<>>
  PROVE  /\ walk[t].node \in Nodes /\ Head(walk[t].path) \in Nat
         /\ Slot(t) \in Reachable \X Nat
         /\ Fresh(t) \in Nodes /\ Fresh(t) # Null
         /\ Slot(t) \notin DOMAIN idx => Fresh(t) \notin Reachable
         /\ \A u \in Threads : u # t /\ walk[u].path # <<>> => Fresh(u) # Fresh(t)
<1>1. ASSUME NEW u \in Threads, walk[u].path # <<>>
      PROVE  /\ walk[u].node \in Nodes /\ walk[u].node \in Reachable /\ Head(walk[u].path) \in Nat
             /\ Fresh(u) = Append(walk[u].node, <<Head(walk[u].path), u>>)
  <2>1. walk[u].path \in Seq(Nat) /\ walk[u].node \in Reachable
    BY DEF IndexInv, WalkOf
  <2>2. QED
    BY <1>1, <2>1, HeadTailProperties DEF IndexInv, Fresh
<1>2. Slot(t) \in Reachable \X Nat
  BY <1>1 DEF Slot
<1> DEFINE n0 == walk[t].node
           s0 == Head(walk[t].path)
<1>0. n0 \in Nodes /\ n0 \in Reachable /\ s0 \in Nat /\ Fresh(t) = Append(n0, <<s0, t>>)
  BY <1>1
<1> HIDE DEF n0, s0
<1>3. Fresh(t) \in Nodes /\ Fresh(t) # Null /\ Fresh(t) # Root
  BY <1>0, NodeAppend
<1>4. ASSUME Slot(t) \notin DOMAIN idx, Fresh(t) \in Reachable
      PROVE  FALSE
  <2>1. PICK n \in Reachable, s \in Nat, u \in Threads :
          Fresh(t) = Append(n, <<s, u>>) /\ Child(n, s) = Fresh(t)
    BY <1>3, <1>4, ChildFacts DEF IndexInv
  <2>2. n = n0 /\ s = s0
    <3>1. n \in Nodes /\ Append(n, <<s, u>>) = Append(n0, <<s0, t>>)
      BY <1>0, <2>1 DEF IndexInv
    <3>2. QED
      BY <1>0, <2>1, <3>1, NodeParts
  <2>3. Child(n, s) = Null
    BY <1>4, <2>2 DEF Child, Slot, n0, s0
  <2>4. QED
    BY <1>3, <2>1, <2>3
<1>5. ASSUME NEW u \in Threads, u # t, walk[u].path # <<>>, Fresh(u) = Fresh(t)
      PROVE  FALSE
  <2>1. Append(walk[u].node, <<Head(walk[u].path), u>>) = Append(walk[t].node, <<Head(walk[t].path), t>>)
    BY <1>1, <1>5
  <2>2. u = t
    BY <1>1, <1>5, <2>1, NodeParts
  <2>3. QED
    BY <1>5, <2>2
<1>6. QED
  BY <1>1, <1>2, <1>3, <1>4, <1>5

\* A slot further down the same way.
LEMMA WayDown ==
  ASSUME NEW n \in Nodes, NEW p \in Seq(Nat), p # <<>>, NEW t \in Threads, NEW path \in Seq(Nat),
         OnWay(n, p, path)
  PROVE  OnWay(Append(n, <<Head(p), t>>), Tail(p), path)
<1>1. /\ Head(p) \in Nat /\ Tail(p) \in Seq(Nat) /\ Len(Tail(p)) = Len(p) - 1
      /\ \A i \in 1..Len(Tail(p)) : Tail(p)[i] = p[i + 1]
  BY HeadTailProperties
<1>2. Len(p) \in Nat /\ Len(p) > 0 /\ Head(p) = p[1]
  <2>1. Len(p) \in Nat \ {0}
    BY EmptySeq
  <2>2. QED
    BY <2>1
<1> DEFINE m == Append(n, <<Head(p), t>>)
<1>3. /\ m \in Nodes /\ Len(m) = Len(n) + 1 /\ Len(n) \in Nat
      /\ \A i \in 1..Len(n) : m[i] = n[i]
      /\ m[Len(n) + 1] = <<Head(p), t>>
  BY <1>1, NodeAppend
<1> HIDE DEF m
<1>4. Len(path) = Len(m) + Len(Tail(p))
  BY <1>1, <1>2, <1>3 DEF OnWay
<1>5. ASSUME NEW i \in 1..Len(m)
      PROVE  m[i][1] = path[i]
  <2>1. CASE i \in 1..Len(n)
    BY <1>3, <2>1 DEF OnWay
  <2>2. CASE i = Len(n) + 1
    <3>1. m[i][1] = p[1]
      BY <1>2, <1>3, <2>2
    <3>2. p[1] = path[Len(n) + 1]
      BY <1>2 DEF OnWay
    <3>3. QED
      BY <2>2, <3>1, <3>2
  <2>3. QED
    BY <1>3, <2>1, <2>2
<1>6. ASSUME NEW i \in 1..Len(Tail(p))
      PROVE  Tail(p)[i] = path[Len(m) + i]
  <2>1. i + 1 \in 1..Len(p) /\ Len(n) + (i + 1) = Len(m) + i
    BY <1>1, <1>2, <1>3
  <2>2. p[i + 1] = path[Len(n) + (i + 1)]
    BY <2>1 DEF OnWay
  <2>3. QED
    BY <1>1, <2>1, <2>2
<1>7. QED
  BY <1>4, <1>5, <1>6 DEF OnWay, m

LEMMA NewWalk ==
  ASSUME NEW t \in Threads, NEW n \in Reachable', NEW p \in Seq(Nat),
         walk'[t] = [path |-> p, node |-> n, item |-> Null]
  PROVE  WalkOf(t)'
  BY DEF WalkOf

\* A thread that has no item of its own takes up another walk.
LEMMA EnterIndex ==
  ASSUME IndexInv, NEW t \in Threads, walk[t].item = Null,
         NEW n \in Reachable, NEW p \in Seq(Nat),
         walk' = [walk EXCEPT ![t] = [path |-> p, node |-> n, item |-> Null]],
         UNCHANGED <<length, idx, live>>
  PROVE  IndexInv' /\ Reachable' = Reachable /\ walk'[t] = [path |-> p, node |-> n, item |-> Null]
<1>1. /\ walk'[t] = [path |-> p, node |-> n, item |-> Null]
      /\ \A u \in Threads : u # t => walk'[u] = walk[u]
      /\ walk' = [u \in Threads |-> walk'[u]]
  BY DEF IndexInv
<1>2. Reachable' = Reachable
  BY DEF Reachable
<1>3. SlotInv'
  BY <1>2 DEF SlotInv, IndexInv
<1>4. ASSUME NEW u \in Threads
      PROVE  WalkOf(u)'
  <2>1. CASE u = t
    BY <1>1, <1>2, <2>1 DEF WalkOf
  <2>2. CASE u # t
    BY <1>1, <1>2, <2>2 DEF WalkOf, IndexInv, Fresh
  <2>3. QED
    BY <2>1, <2>2
<1>5. Items' = Items
  BY <1>1 DEF Items
<1>6. QED
  BY <1>1, <1>2, <1>3, <1>4, <1>5 DEF IndexInv

\* A slot is loaded: the next tier, or an item of the thread's own.
LEMMA LoadSlotIndex ==
  ASSUME IndexInv, NEW t \in Threads, LoadSlot(t)
  PROVE  /\ IndexInv' /\ Reachable' = Reachable /\ length' = length
         /\ \A u \in Threads : u # t => walk'[u] = walk[u]
         /\ \A path \in Seq(Nat) : OnWay(walk[t].node, walk[t].path, path) =>
              OnWay(walk'[t].node, walk'[t].path, path)
<1>1. /\ walk[t].path # <<>> /\ walk[t].item = Null /\ walk[t].path \in Seq(Nat)
      /\ walk[t].node \in Nodes /\ length' = length
  BY DEF LoadSlot, Arrived, IndexInv, WalkOf
<1>2. Tail(walk[t].path) \in Seq(Nat)
  BY <1>1, HeadTailProperties
<1>3. CASE Slot(t) \in DOMAIN idx
  <2>1. /\ walk' = [walk EXCEPT ![t] =
                      [path |-> Tail(walk[t].path), node |-> idx[Slot(t)], item |-> Null]]
        /\ UNCHANGED <<length, idx, live>>
    BY <1>3 DEF LoadSlot, Descend, Enter
  <2>2. idx[Slot(t)] \in Reachable
    BY <1>3 DEF Reachable
  <2>3. /\ IndexInv' /\ Reachable' = Reachable
        /\ walk'[t] = [path |-> Tail(walk[t].path), node |-> idx[Slot(t)], item |-> Null]
    BY <1>1, <1>2, <2>1, <2>2, EnterIndex
  <2>4. PICK u \in Threads : idx[Slot(t)] = Append(walk[t].node, <<Head(walk[t].path), u>>)
    BY <1>3 DEF IndexInv, SlotInv, Slot
  <2>5. ASSUME NEW path \in Seq(Nat), OnWay(walk[t].node, walk[t].path, path)
        PROVE  OnWay(walk'[t].node, walk'[t].path, path)
    <3>1. OnWay(Append(walk[t].node, <<Head(walk[t].path), u>>), Tail(walk[t].path), path)
      BY <1>1, <2>5, WayDown
    <3>2. QED
      BY <2>3, <2>4, <3>1
  <2>6. \A u2 \in Threads : u2 # t => walk'[u2] = walk[u2]
    BY <2>1 DEF IndexInv
  <2>7. QED
    BY <1>1, <2>3, <2>5, <2>6
<1>4. CASE Slot(t) \notin DOMAIN idx
  <2>1. /\ walk' = [walk EXCEPT ![t].item = Fresh(t)]
        /\ live' = live \cup {Fresh(t)} /\ UNCHANGED <<length, idx>>
    BY <1>4 DEF LoadSlot
  <2>2. /\ walk'[t] = [path |-> walk[t].path, node |-> walk[t].node, item |-> Fresh(t)]
        /\ \A u \in Threads : u # t => walk'[u] = walk[u]
        /\ walk' = [u \in Threads |-> walk'[u]]
    <3>1. walk[t] = [path |-> walk[t].path, node |-> walk[t].node, item |-> walk[t].item]
      BY DEF IndexInv, WalkOf
    <3>2. walk = [u \in Threads |-> walk[u]]
      BY DEF IndexInv
    <3>3. walk'[t] = [walk[t] EXCEPT !.item = Fresh(t)]
      BY <2>1, <3>2
    <3>4. walk'[t] = [path |-> walk[t].path, node |-> walk[t].node, item |-> Fresh(t)]
      BY <3>1, <3>3
    <3>5. QED
      BY <2>1, <3>2, <3>4
  <2>3. Reachable' = Reachable
    BY <2>1 DEF Reachable
  <2>4. SlotInv'
    BY <2>1, <2>3 DEF SlotInv, IndexInv
  <2>5. Fresh(t) # Null /\ Fresh(t) \notin Reachable
    BY <1>1, <1>4, FreshFacts
  <2>6. Fresh(t)' = Fresh(t) /\ \A u \in Threads : u # t => Fresh(u)' = Fresh(u)
    BY <2>2 DEF Fresh
  <2>7. ASSUME NEW u \in Threads
        PROVE  WalkOf(u)'
    <3>1. CASE u = t
      BY <1>1, <2>2, <2>3, <2>5, <2>6, <3>1 DEF WalkOf, IndexInv
    <3>2. CASE u # t
      BY <2>2, <2>3, <2>6, <3>2 DEF WalkOf, IndexInv
    <3>3. QED
      BY <3>1, <3>2
  <2>8. Items' = Items \cup {Fresh(t)}
    BY <1>1, <2>2, <2>5 DEF Items
  <2>9. IndexInv'
    BY <2>1, <2>2, <2>3, <2>4, <2>7, <2>8 DEF IndexInv
  <2>10. QED
    BY <1>1, <2>2, <2>3, <2>9
<1>5. QED
  BY <1>3, <1>4

\* A compare-and-swap: the thread's own item, or the winner's.
LEMMA CasSlotIndex ==
  ASSUME IndexInv, NEW t \in Threads, CasSlot(t)
  PROVE  /\ IndexInv' /\ Reachable \subseteq Reachable' /\ length' = length
         /\ \A u \in Threads : u # t => walk'[u] = walk[u]
         /\ \A path \in Seq(Nat) : OnWay(walk[t].node, walk[t].path, path) =>
              OnWay(walk'[t].node, walk'[t].path, path)
<1>1. /\ walk[t].item # Null /\ walk[t].path # <<>> /\ walk[t].path \in Seq(Nat)
      /\ walk[t].item = Fresh(t) /\ walk[t].item \notin Reachable
      /\ walk[t].node \in Nodes /\ walk[t].node \in Reachable /\ length' = length
  BY DEF CasSlot, IndexInv, WalkOf
<1>2. Tail(walk[t].path) \in Seq(Nat) /\ Head(walk[t].path) \in Nat
  BY <1>1, HeadTailProperties
<1>3. /\ Fresh(t) = Append(walk[t].node, <<Head(walk[t].path), t>>) /\ Fresh(t) \in Nodes
      /\ Slot(t) = <<walk[t].node, Head(walk[t].path)>> /\ Slot(t) \in Reachable \X Nat
      /\ \A u \in Threads : u # t /\ walk[u].path # <<>> => Fresh(u) # Fresh(t)
  BY <1>1, FreshFacts DEF Fresh, Slot
<1>4. ASSUME NEW n, walk' = [walk EXCEPT ![t] =
                               [path |-> Tail(walk[t].path), node |-> n, item |-> Null]]
      PROVE  /\ walk'[t] = [path |-> Tail(walk[t].path), node |-> n, item |-> Null]
             /\ \A u \in Threads : u # t => walk'[u] = walk[u]
             /\ walk' = [u \in Threads |-> walk'[u]]
             /\ Items' = Items \ {walk[t].item}
  <2>1. /\ walk'[t] = [path |-> Tail(walk[t].path), node |-> n, item |-> Null]
        /\ \A u \in Threads : u # t => walk'[u] = walk[u]
        /\ walk' = [u \in Threads |-> walk'[u]]
    BY <1>4 DEF IndexInv
  <2>2. \A u \in Threads : u # t => walk[u].item # walk[t].item
    BY <1>1, <1>3 DEF IndexInv, WalkOf
  <2>3. Items' = Items \ {walk[t].item}
    BY <2>1, <2>2 DEF Items
  <2>4. QED
    BY <2>1, <2>3
<1>5. CASE Slot(t) \notin DOMAIN idx
  <2>1. /\ idx' = [c \in DOMAIN idx \cup {Slot(t)} |-> IF c = Slot(t) THEN walk[t].item ELSE idx[c]]
        /\ walk' = [walk EXCEPT ![t] =
                      [path |-> Tail(walk[t].path), node |-> walk[t].item, item |-> Null]]
        /\ UNCHANGED <<length, live>>
    BY <1>5 DEF CasSlot, Descend, Enter
  <2>2. /\ walk'[t] = [path |-> Tail(walk[t].path), node |-> walk[t].item, item |-> Null]
        /\ \A u \in Threads : u # t => walk'[u] = walk[u]
        /\ walk' = [u \in Threads |-> walk'[u]]
        /\ Items' = Items \ {walk[t].item}
    BY <1>4, <2>1
  <2>3. /\ DOMAIN idx' = DOMAIN idx \cup {Slot(t)}
        /\ idx'[Slot(t)] = Fresh(t)
        /\ \A c \in DOMAIN idx : idx'[c] = idx[c]
    BY <1>1, <1>5, <2>1
  <2>4. Reachable' = Reachable \cup {Fresh(t)}
    BY <2>3 DEF Reachable
  <2>5. SlotInv'
    <3>1. ASSUME NEW c \in DOMAIN idx'
          PROVE  /\ c \in Reachable' \X Nat
                 /\ \E u \in Threads : idx'[c] = Append(c[1], <<c[2], u>>)
      <4>1. CASE c \in DOMAIN idx
        BY <2>3, <2>4, <4>1 DEF IndexInv, SlotInv
      <4>2. CASE c = Slot(t)
        <5>1. c[1] = walk[t].node /\ c[2] = Head(walk[t].path)
          BY <1>3, <4>2
        <5>2. idx'[c] = Append(c[1], <<c[2], t>>)
          BY <1>3, <2>3, <4>2, <5>1
        <5>3. c \in Reachable' \X Nat
          BY <1>3, <2>4, <4>2
        <5>4. QED
          BY <5>2, <5>3
      <4>3. QED
        BY <2>3, <4>1, <4>2
    <3>2. QED
      BY <3>1 DEF SlotInv
  <2>6. \A u \in Threads : u # t => Fresh(u)' = Fresh(u)
    BY <2>2 DEF Fresh
  <2>7. ASSUME NEW u \in Threads
        PROVE  WalkOf(u)'
    <3>1. CASE u = t
      <4>1. walk[t].item \in Reachable'
        BY <1>1, <2>4
      <4>2. QED
        BY <1>2, <2>2, <3>1, <4>1, NewWalk
    <3>2. CASE u # t
      <4>1. WalkOf(u)
        BY DEF IndexInv
      <4>2. walk[u].item # Null => walk[u].item # Fresh(t)
        BY <1>3, <3>2, <4>1 DEF WalkOf
      <4>3. QED
        BY <2>2, <2>4, <2>6, <3>2, <4>1, <4>2 DEF WalkOf
    <3>3. QED
      BY <3>1, <3>2
  <2>8. Reachable' \subseteq Nodes
    BY <1>3, <2>4 DEF IndexInv
  <2>9. live' = Reachable' \cup Items'
    <3>1. walk[t].item \in Items
      BY <1>1 DEF Items
    <3>2. QED
      BY <1>1, <2>1, <2>2, <2>4, <3>1 DEF IndexInv
  <2>10. IndexInv'
    BY <2>1, <2>2, <2>5, <2>7, <2>8, <2>9 DEF IndexInv
  <2>11. ASSUME NEW path \in Seq(Nat), OnWay(walk[t].node, walk[t].path, path)
         PROVE  OnWay(walk'[t].node, walk'[t].path, path)
    <3>1. OnWay(Append(walk[t].node, <<Head(walk[t].path), t>>), Tail(walk[t].path), path)
      BY <1>1, <2>11, WayDown
    <3>2. walk'[t].node = Append(walk[t].node, <<Head(walk[t].path), t>>)
      BY <1>1, <1>3, <2>2
    <3>3. walk'[t].path = Tail(walk[t].path)
      BY <2>2
    <3>4. QED
      BY <3>1, <3>2, <3>3, Zenon
  <2>12. QED
    BY <1>1, <2>2, <2>4, <2>10, <2>11
<1>6. CASE Slot(t) \in DOMAIN idx
  <2>1. /\ live' = live \ {walk[t].item}
        /\ walk' = [walk EXCEPT ![t] =
                      [path |-> Tail(walk[t].path), node |-> idx[Slot(t)], item |-> Null]]
        /\ UNCHANGED <<length, idx>>
    BY <1>6 DEF CasSlot, Descend, Enter
  <2>2. /\ walk'[t] = [path |-> Tail(walk[t].path), node |-> idx[Slot(t)], item |-> Null]
        /\ \A u \in Threads : u # t => walk'[u] = walk[u]
        /\ walk' = [u \in Threads |-> walk'[u]]
        /\ Items' = Items \ {walk[t].item}
    BY <1>4, <2>1
  <2>3. Reachable' = Reachable /\ idx[Slot(t)] \in Reachable
    BY <1>6, <2>1 DEF Reachable
  <2>4. SlotInv'
    BY <2>1, <2>3 DEF SlotInv, IndexInv
  <2>5. \A u \in Threads : u # t => Fresh(u)' = Fresh(u)
    BY <2>2 DEF Fresh
  <2>6. ASSUME NEW u \in Threads
        PROVE  WalkOf(u)'
    <3>1. CASE u = t
      BY <1>2, <2>2, <2>3, <3>1, NewWalk
    <3>2. CASE u # t
      BY <2>2, <2>3, <2>5, <3>2 DEF WalkOf, IndexInv
    <3>3. QED
      BY <3>1, <3>2
  <2>7. live' = Reachable' \cup Items'
    BY <1>1, <2>1, <2>2, <2>3 DEF IndexInv
  <2>8. IndexInv'
    BY <2>1, <2>2, <2>3, <2>4, <2>6, <2>7 DEF IndexInv
  <2>9. PICK u \in Threads : idx[Slot(t)] = Append(walk[t].node, <<Head(walk[t].path), u>>)
    BY <1>6 DEF IndexInv, SlotInv, Slot
  <2>10. ASSUME NEW path \in Seq(Nat), OnWay(walk[t].node, walk[t].path, path)
         PROVE  OnWay(walk'[t].node, walk'[t].path, path)
    <3>1. OnWay(Append(walk[t].node, <<Head(walk[t].path), u>>), Tail(walk[t].path), path)
      BY <1>1, <2>10, WayDown
    <3>2. QED
      BY <2>2, <2>9, <3>1
  <2>11. QED
    BY <1>1, <2>2, <2>3, <2>8, <2>10
<1>7. QED
  BY <1>5, <1>6

LEMMA GetStepIndex ==
  ASSUME IndexInv, NEW t \in Threads, GetStep(t)
  PROVE  /\ IndexInv' /\ Reachable \subseteq Reachable' /\ length' = length
         /\ ~Arrived(t)
         /\ \A u \in Threads : u # t => walk'[u] = walk[u]
         /\ \A path \in Seq(Nat) : OnWay(walk[t].node, walk[t].path, path) =>
              OnWay(walk'[t].node, walk'[t].path, path)
<1>1. ~Arrived(t)
  BY DEF GetStep, LoadSlot, CasSlot, IndexInv, WalkOf, Arrived
<1>2. QED
  BY <1>1, LoadSlotIndex, CasSlotIndex DEF GetStep

-----------------------------------------------------------------------------
(* Insertions                                                              *)

\* Keys keep their paths while the index and its length are the same.
LEMMA SamePaths ==
  ASSUME view' = view, length' = length
  PROVE  \A a : Key(a)' = Key(a) /\ Short(a)' = Short(a)
  BY DEF Key, Short

LEMMA SameList ==
  ASSUME view' = view, length' = length, NEW l, NEW id, claimed'[id + 1] = claimed[id + 1]
  PROVE  (ListOf(l, id))' <=> ListOf(l, id)
  BY DEF ListOf, Key

\* A step of another thread, or of get(), that leaves the store alone.
LEMMA StoreSame ==
  ASSUME StoreInv, UNCHANGED store_vars, length' = length, Reachable \subseteq Reachable',
         \A w \in Writers : walk'[w] = walk[w] \/ (op[w].pc = "get" /\ WriterWalk(w)')
  PROVE  StoreInv'
<1>1. /\ view' = view /\ current_write_id' = current_write_id /\ current_read_id' = current_read_id
      /\ records' = records /\ lists' = lists /\ op' = op /\ claimed' = claimed
  BY DEF store_vars
<1>2. \A a : Key(a)' = Key(a) /\ Short(a)' = Short(a)
  BY <1>1, SamePaths
<1>3. ViewInv' /\ IdInv' /\ RecordInv' /\ OnceInv'
  BY <1>1 DEF StoreInv, ViewInv, IdInv, RecordInv, OnceInv, Held, Wanted, AtList
<1>4. ASSUME NEW w \in Writers
      PROVE  WriterWalk(w)'
  <2>1. CASE walk'[w] = walk[w]
    BY <1>1, <1>2, <2>1 DEF StoreInv, WriterWalk, Held, Wanted, AtList, Target, Arrived
  <2>2. QED
    BY <2>1
<1>5. EntryInv'
  BY <1>1, SameList DEF StoreInv, EntryInv, EntryOf, Wanted, Pushed
<1>6. \A w \in Writers : op[w].pc = "set" => walk'[w] = walk[w]
  OBVIOUS
<1>7. PushInv'
  BY <1>1, <1>6 DEF StoreInv, PushInv, PushOf
<1>8. OnInv'
  BY <1>1, SameList DEF StoreInv, OnInv, On, Wanted, Pushed
<1>9. QED
  BY <1>3, <1>4, <1>5, <1>7, <1>8 DEF StoreInv

\* The path a writer follows is a path.
LEMMA TargetPath ==
  ASSUME IndexInv, StoreInv, NEW w \in Writers, Held(w)
  PROVE  /\ op[w].rec \in Records /\ op[w].rec.tok \in Nat /\ op[w].rec.hit \in BOOLEAN
         /\ op[w].id \in Nat /\ op[w].id + 1 \in 1..Len(claimed)
         /\ Target(w) \in Seq(Nat)
<1>1. op[w].id \in current_read_id..(current_write_id - 1) /\ op[w].rec = claimed[op[w].id + 1]
  BY DEF StoreInv, IdInv
<1>2. current_read_id \in Nat /\ current_write_id \in Nat
  BY NumberAssumption DEF StoreInv, IdInv
<1>3. op[w].id \in Nat /\ op[w].id + 1 \in 1..Len(claimed)
  BY <1>1, <1>2 DEF StoreInv, IdInv
<1>4. op[w].rec \in Records
  BY <1>1, <1>3, ElementOfSeq DEF StoreInv, IdInv
<1>5. op[w].rec.tok \in Nat /\ op[w].rec.hit \in BOOLEAN
  BY <1>4, RecordAssumption
<1>6. QED
  BY <1>3, <1>4, <1>5, KeyFacts DEF Target, StoreInv, IndexInv

\* A writer on its way in get().
LEMMA GetStore ==
  ASSUME IndexInv, StoreInv, NEW w \in Writers, Get(w)
  PROVE  /\ IndexInv' /\ StoreInv' /\ Reachable \subseteq Reachable' /\ length' = length
         /\ \A u \in Threads : u # w => walk'[u] = walk[u]
<1>1. op[w].pc = "get" /\ GetStep(w) /\ UNCHANGED store_vars /\ w \in Threads
  BY ThreadAssumption DEF Get
<1>2. /\ IndexInv' /\ Reachable \subseteq Reachable' /\ length' = length
      /\ ~Arrived(w)
      /\ \A u \in Threads : u # w => walk'[u] = walk[u]
      /\ \A path \in Seq(Nat) : OnWay(walk[w].node, walk[w].path, path) =>
           OnWay(walk'[w].node, walk'[w].path, path)
  BY <1>1, GetStepIndex
<1>3. /\ view' = view /\ op' = op /\ claimed' = claimed /\ records' = records
  BY <1>1 DEF store_vars
<1>4. Target(w)' = Target(w) /\ Target(w) \in Seq(Nat)
  BY <1>1, <1>2, <1>3, SamePaths, TargetPath DEF Target, AtList, Held
<1>5. WriterWalk(w)'
  BY <1>1, <1>2, <1>3, <1>4 DEF StoreInv, WriterWalk, Held, Wanted, AtList
<1>6. \A v \in Writers : walk'[v] = walk[v] \/ (op[v].pc = "get" /\ WriterWalk(v)')
  BY <1>1, <1>2, <1>5, ThreadAssumption
<1>7. StoreInv'
  BY <1>1, <1>2, <1>6, StoreSame
<1>8. QED
  BY <1>2, <1>7

\* A writer whose walk is over has no item in hand.
LEMMA AtRest ==
  ASSUME IndexInv, NEW t \in Threads, Arrived(t)
  PROVE  walk[t].item = Null
  BY DEF IndexInv, WalkOf, Arrived

\* The insertion of one writer changes, those of the others stay.
LEMMA OpUpdate ==
  ASSUME IdInv, NEW w \in Writers, NEW o, op' = [op EXCEPT ![w] = o]
  PROVE  /\ op'[w] = o
         /\ \A v \in Writers : v # w => op'[v] = op[v]
         /\ op' = [v \in Writers |-> op'[v]]
<1>1. op = [v \in Writers |-> op[v]]
  BY DEF IdInv
<1>2. QED
  BY <1>1

\* The next writer claims an id.
LEMMA ClaimStore ==
  ASSUME IndexInv, StoreInv, NEW w \in Writers, Claim(w)
  PROVE  /\ IndexInv' /\ StoreInv' /\ Reachable' = Reachable /\ length' = length
         /\ \A u \in Threads : u # w => walk'[u] = walk[u]
         /\ \A i \in 1..Len(claimed) : claimed'[i] = claimed[i]
         /\ current_write_id' = current_write_id + 1
<1>1. PICK r \in Records :
        /\ op' = [op EXCEPT ![w] = [pc |-> "get", id |-> current_write_id, rec |-> r, place |-> 0]]
        /\ claimed' = Append(claimed, r)
        /\ Enter(w, Root, Path(r.tok))
  BY DEF Claim
<1>2. /\ op[w].pc = "idle" /\ current_write_id < MaxId /\ current_write_id' = current_write_id + 1
      /\ length' = length /\ idx' = idx /\ live' = live /\ view' = view
      /\ current_read_id' = current_read_id /\ records' = records /\ lists' = lists
  BY DEF Claim
<1>3. /\ op'[w] = [pc |-> "get", id |-> current_write_id, rec |-> r, place |-> 0]
      /\ \A v \in Writers : v # w => op'[v] = op[v]
      /\ op' = [v \in Writers |-> op'[v]]
  BY <1>1, OpUpdate DEF StoreInv
<1>4. current_read_id \in Nat /\ current_write_id \in Nat /\ current_read_id <= current_write_id
      /\ claimed \in Seq(Records) /\ Len(claimed) = current_write_id
      /\ current_write_id' \in 0..MaxId
  BY <1>2, NumberAssumption DEF StoreInv, IdInv
<1>5. /\ claimed' \in Seq(Records) /\ Len(claimed') = current_write_id'
      /\ \A i \in 1..Len(claimed) : claimed'[i] = claimed[i]
      /\ claimed'[current_write_id + 1] = r
  BY <1>1, <1>2, <1>4, AppendProperties
<1>6. \A id \in 0..(current_write_id - 1) : claimed'[id + 1] = claimed[id + 1]
  BY <1>4, <1>5
<1>7. r.tok \in Nat /\ Short(r.tok) \in Seq(Nat) /\ Short(r.tok) = Path(r.tok) /\ w \in Threads
  BY RecordAssumption, KeyFacts, SameKey, ThreadAssumption DEF StoreInv, IndexInv
<1>8. Root \in Reachable /\ walk[w].item = Null
  BY <1>2, <1>7, AtRest DEF Reachable, StoreInv, WriterWalk
<1>9. /\ IndexInv' /\ Reachable' = Reachable
      /\ walk'[w] = [path |-> Short(r.tok), node |-> Root, item |-> Null]
  BY <1>1, <1>2, <1>7, <1>8, EnterIndex DEF Enter
<1>10. \A u \in Threads : u # w => walk'[u] = walk[u]
  BY <1>1 DEF Enter, IndexInv
<1>11. \A a : Key(a)' = Key(a) /\ Short(a)' = Short(a)
  BY <1>2, SamePaths
<1>12. \A id \in 0..(current_write_id - 1) : Wanted(id)' <=> Wanted(id)
  BY <1>2, <1>6 DEF Wanted
<1>13. \A v \in Writers : v # w => (AtList(v)' <=> AtList(v)) /\ (Held(v)' <=> Held(v))
  BY <1>2, <1>3 DEF AtList, Held
<1>14. \A v \in Writers : Held(v) => op[v].id \in 0..(current_write_id - 1) /\ v # w
  BY <1>2, <1>4 DEF StoreInv, IdInv, Held
<1>15. IdInv'
  <2>1. ASSUME NEW v \in Writers
        PROVE  /\ op'[v] = [pc |-> op'[v].pc, id |-> op'[v].id, rec |-> op'[v].rec, place |-> op'[v].place]
               /\ op'[v].pc \in InsertPcs
               /\ Held(v)' => /\ op'[v].id \in current_read_id'..(current_write_id' - 1)
                              /\ op'[v].rec = claimed'[op'[v].id + 1]
    <3>1. CASE v = w
      BY <1>2, <1>3, <1>4, <1>5, <3>1 DEF InsertPcs
    <3>2. CASE v # w
      <4>1. op'[v] = op[v]
        BY <1>3, <3>2
      <4>2. /\ op[v] = [pc |-> op[v].pc, id |-> op[v].id, rec |-> op[v].rec, place |-> op[v].place]
            /\ op[v].pc \in InsertPcs
            /\ Held(v) => /\ op[v].id \in current_read_id..(current_write_id - 1)
                          /\ op[v].rec = claimed[op[v].id + 1]
        BY DEF StoreInv, IdInv
      <4>3. Held(v) => claimed'[op[v].id + 1] = claimed[op[v].id + 1]
        BY <1>6, <1>14
      <4>4. Held(v) => op[v].id \in current_read_id'..(current_write_id' - 1)
        BY <1>2, <1>4, <4>2
      <4>5. QED
        BY <1>13, <3>2, <4>1, <4>2, <4>3, <4>4
    <3>3. QED
      BY <3>1, <3>2
  <2>2. ASSUME NEW u \in Writers, NEW v \in Writers, Held(u)', Held(v)', op'[u].id = op'[v].id
        PROVE  u = v
    <3>1. CASE u = w /\ v # w
      BY <1>3, <1>4, <1>13, <1>14, <2>2, <3>1
    <3>2. CASE u # w /\ v = w
      BY <1>3, <1>4, <1>13, <1>14, <2>2, <3>2
    <3>3. CASE u # w /\ v # w
      BY <1>3, <1>13, <2>2, <3>3 DEF StoreInv, IdInv
    <3>4. QED
      BY <3>1, <3>2, <3>3
  <2>3. ASSUME NEW id \in current_read_id'..(current_write_id' - 1)
        PROVE  \E v \in Writers : Held(v)' /\ op'[v].id = id
    <3>1. CASE id = current_write_id
      BY <1>3, <3>1 DEF Held
    <3>2. CASE id # current_write_id
      <4>1. id \in current_read_id..(current_write_id - 1)
        BY <1>2, <1>4, <3>2
      <4>2. PICK v \in Writers : Held(v) /\ op[v].id = id
        BY <4>1 DEF StoreInv, IdInv
      <4>3. QED
        BY <1>3, <1>13, <1>14, <4>2
    <3>3. QED
      BY <3>1, <3>2
  <2>4. QED
    BY <1>2, <1>3, <1>4, <1>5, <2>1, <2>2, <2>3 DEF IdInv
<1>16. RecordInv'
  <2>1. ASSUME NEW id \in DOMAIN records
        PROVE  id \in 0..(current_write_id' - 1) /\ records[id] = claimed'[id + 1]
    BY <1>2, <1>4, <1>6 DEF StoreInv, RecordInv
  <2>2. ASSUME NEW v \in Writers
        PROVE  /\ op'[v].pc = "end" => op'[v].id \in DOMAIN records
               /\ op'[v].pc = "append" => view = "token"
               /\ op'[v].pc = "set" => AtList(v)'
               /\ op'[v].pc \in {"get", "set"} /\ AtList(v)' => (Wanted(op[v].id))'
    <3>1. CASE v = w
      <4>1. current_write_id \notin DOMAIN records
        BY <1>4 DEF StoreInv, RecordInv
      <4>2. QED
        BY <1>2, <1>3, <3>1, <4>1 DEF AtList, Wanted
    <3>2. CASE v # w
      <4>1. /\ op[v].pc = "end" => op[v].id \in DOMAIN records
            /\ op[v].pc = "append" => view = "token"
            /\ op[v].pc = "set" => AtList(v)
            /\ op[v].pc \in {"get", "set"} /\ AtList(v) => Wanted(op[v].id)
        BY DEF StoreInv, RecordInv
      <4>2. op[v].pc \in {"get", "set"} => op[v].id \in 0..(current_write_id - 1)
        BY <1>14 DEF Held
      <4>3. QED
        BY <1>3, <1>12, <1>13, <3>2, <4>1, <4>2
    <3>3. QED
      BY <3>1, <3>2
  <2>3. QED
    BY <1>2, <2>1, <2>2 DEF StoreInv, RecordInv
<1>17. ASSUME NEW v \in Writers
       PROVE  WriterWalk(v)'
  <2>1. CASE v = w
    <3>1. Target(w)' = Short(r.tok)
      <4>1. current_write_id \notin DOMAIN records
        BY <1>4 DEF StoreInv, RecordInv
      <4>2. AtList(w)' <=> view = "token"
        BY <1>2, <1>3, <4>1 DEF AtList
      <4>3. view = "token" => Key(r.tok) = Short(r.tok)
        BY <1>7, KeyFacts DEF StoreInv, IndexInv
      <4>4. QED
        BY <1>3, <1>11, <4>2, <4>3 DEF Target
    <3>2. OnWay(Root, Short(r.tok), Short(r.tok))
      BY <1>7 DEF OnWay, Root
    <3>3. QED
      BY <1>3, <1>9, <2>1, <3>1, <3>2 DEF WriterWalk
  <2>2. CASE v # w
    <3>1. walk'[v] = walk[v] /\ op'[v] = op[v]
      BY <1>3, <1>10, <2>2, ThreadAssumption
    <3>2. Target(v)' = Target(v)
      BY <1>11, <1>13, <2>2, <3>1 DEF Target
    <3>3. Held(v) => ((Wanted(op[v].id))' <=> Wanted(op[v].id))
      BY <1>12, <1>14, <3>1
    <3>4. QED
      BY <1>13, <2>2, <3>1, <3>2, <3>3 DEF StoreInv, WriterWalk, Arrived
  <2>3. QED
    BY <2>1, <2>2
<1>18. \A v \in Writers : /\ Pushed(v)' <=> Pushed(v)
                          /\ Pushed(v) => v # w /\ op'[v] = op[v]
                          /\ op'[v].pc = "set" <=> op[v].pc = "set"
                          /\ op[v].pc = "set" => op'[v] = op[v] /\ walk'[v] = walk[v]
  BY <1>2, <1>3, <1>10, ThreadAssumption DEF Pushed
<1>19. EntryInv'
  <2>1. ASSUME NEW l, NEW e, EntryOf(l, e)
        PROVE  EntryOf(l, e)'
    <3>1. e \in 0..(current_write_id' - 1) /\ Wanted(e)'
      BY <1>2, <1>4, <1>12, <2>1 DEF EntryOf
    <3>2. ListOf(l, e)'
      BY <1>2, <1>6, <2>1, SameList DEF EntryOf
    <3>3. QED
      BY <1>2, <1>18, <2>1, <3>1, <3>2 DEF EntryOf
  <2>2. QED
    BY <1>2, <1>9, <2>1 DEF StoreInv, EntryInv
<1>20. OnceInv'
  BY <1>2 DEF StoreInv, OnceInv
<1>21. PushInv'
  <2>1. PushInv
    BY DEF StoreInv
  <2>2. \A v \in Writers : op'[v].pc = "set" => PushOf(v)'
    BY <1>2, <1>18, <2>1 DEF PushInv, PushOf
  <2>3. \A u, v \in Writers :
          /\ op'[u].pc = "set" /\ op'[v].pc = "set"
          /\ walk'[u].node = walk'[v].node /\ op'[u].place = op'[v].place
          => u = v
    BY <1>18, <2>1 DEF PushInv
  <2>4. \A l \in DOMAIN lists : \A j \in 1..Len(lists[l]) :
          lists[l][j] = Unset =>
            \E v \in Writers : op'[v].pc = "set" /\ walk'[v].node = l /\ op'[v].place + 1 = j
    BY <1>18, <2>1 DEF PushInv
  <2>5. QED
    BY <1>2, <2>2, <2>3, <2>4 DEF PushInv, PushOf
<1>22. \A id \in 0..(current_write_id - 1) : On(id) => On(id)'
  BY <1>2, <1>6, SameList DEF On
<1>23. OnInv'
  <2>1. \A id \in 0..(current_read_id - 1) : id \in 0..(current_write_id - 1)
    BY <1>4
  <2>2. \A v \in Writers : Pushed(v) => op[v].id \in 0..(current_write_id - 1)
    BY <1>14 DEF Pushed, Held
  <2>3. QED
    BY <1>2, <1>12, <1>18, <1>22, <2>1, <2>2 DEF StoreInv, OnInv
<1>24. ViewInv'
  BY <1>2 DEF StoreInv, ViewInv
<1>25. QED
  BY <1>2, <1>5, <1>9, <1>10, <1>15, <1>16, <1>17, <1>19, <1>20, <1>21, <1>23, <1>24 DEF StoreInv

\* The insertion of a writer goes on, with the same id and record.
LEMMA IdKept ==
  ASSUME IdInv, NEW w \in Writers, NEW pc \in InsertPcs \ {"idle"}, NEW place, Held(w),
         op' = [op EXCEPT ![w] = [pc |-> pc, id |-> op[w].id, rec |-> op[w].rec, place |-> place]],
         UNCHANGED <<current_write_id, current_read_id, claimed>>
  PROVE  IdInv'
<1>1. /\ op'[w] = [pc |-> pc, id |-> op[w].id, rec |-> op[w].rec, place |-> place]
      /\ \A v \in Writers : v # w => op'[v] = op[v]
      /\ op' = [v \in Writers |-> op'[v]]
  BY OpUpdate
<1>2. /\ op'[w].pc = pc /\ op'[w].id = op[w].id /\ op'[w].rec = op[w].rec
      /\ op'[w] = [pc |-> op'[w].pc, id |-> op'[w].id, rec |-> op'[w].rec, place |-> op'[w].place]
  BY <1>1
<1>3. \A v \in Writers : /\ Held(v)' <=> Held(v)
                         /\ op'[v].id = op[v].id /\ op'[v].rec = op[v].rec
  BY <1>1, <1>2 DEF Held
<1>4. ASSUME NEW v \in Writers
      PROVE  /\ op'[v] = [pc |-> op'[v].pc, id |-> op'[v].id, rec |-> op'[v].rec, place |-> op'[v].place]
             /\ op'[v].pc \in InsertPcs
  <2>1. CASE v = w
    BY <1>2, <2>1
  <2>2. CASE v # w
    <3>1. op'[v] = op[v]
      BY <1>1, <2>2
    <3>2. /\ op[v] = [pc |-> op[v].pc, id |-> op[v].id, rec |-> op[v].rec, place |-> op[v].place]
          /\ op[v].pc \in InsertPcs
      BY DEF IdInv
    <3>3. QED
      BY <3>1, <3>2
  <2>3. QED
    BY <2>1, <2>2
<1>5. QED
  BY <1>1, <1>3, <1>4 DEF IdInv

\* A place at the end of a list is reserved.
LEMMA ReserveStore ==
  ASSUME IndexInv, StoreInv, NEW w \in Writers, Reserve(w)
  PROVE  /\ IndexInv' /\ StoreInv'
         /\ \A l \in DOMAIN lists :
              /\ l \in DOMAIN lists' /\ Len(lists[l]) <= Len(lists'[l])
              /\ \A j \in 1..Len(lists[l]) : lists'[l][j] = lists[l][j]
         /\ \A l \in DOMAIN lists' : \A j \in 1..Len(lists'[l]) :
              lists'[l][j] # Unset => l \in DOMAIN lists /\ j \in 1..Len(lists[l])
<1> DEFINE l == walk[w].node
<1>1. /\ op[w].pc = "get" /\ Arrived(w) /\ AtList(w)
      /\ lists' = [x \in DOMAIN lists \cup {l} |->
                     IF x = l THEN Append(Entries(l), Unset) ELSE lists[x]]
      /\ op' = [op EXCEPT ![w].pc = "set", ![w].place = Size(l)]
      /\ length' = length /\ idx' = idx /\ live' = live /\ walk' = walk /\ view' = view
      /\ current_write_id' = current_write_id /\ current_read_id' = current_read_id
      /\ records' = records /\ claimed' = claimed
  BY DEF Reserve, index_vars
<1>2. op' = [op EXCEPT ![w] = [pc |-> "set", id |-> op[w].id, rec |-> op[w].rec, place |-> Size(l)]]
  <2>1. op[w] = [pc |-> op[w].pc, id |-> op[w].id, rec |-> op[w].rec, place |-> op[w].place]
    BY DEF StoreInv, IdInv
  <2>2. ASSUME NEW n
        PROVE  [op[w] EXCEPT !.pc = "set", !.place = n] =
                 [pc |-> "set", id |-> op[w].id, rec |-> op[w].rec, place |-> n]
    <3> DEFINE m == [op[w] EXCEPT !.pc = "set"]
    <3>1. m = [pc |-> "set", id |-> op[w].id, rec |-> op[w].rec, place |-> op[w].place]
      BY <2>1
    <3>2. [op[w] EXCEPT !.pc = "set", !.place = n] = [m EXCEPT !.place = n]
      OBVIOUS
    <3> HIDE DEF m
    <3>3. [m EXCEPT !.place = n] = [pc |-> "set", id |-> op[w].id, rec |-> op[w].rec, place |-> n]
      BY <3>1
    <3>4. QED
      BY <3>2, <3>3
  <2>3. op' = [op EXCEPT ![w] = [op[w] EXCEPT !.pc = "set", !.place = Size(l)]]
    BY <1>1 DEF StoreInv, IdInv
  <2>4. QED
    BY <2>2, <2>3
<1>3. /\ op'[w] = [pc |-> "set", id |-> op[w].id, rec |-> op[w].rec, place |-> Size(l)]
      /\ \A v \in Writers : v # w => op'[v] = op[v]
  BY <1>2, OpUpdate DEF StoreInv
<1>4. l \in Reachable /\ Reachable' = Reachable /\ IndexInv'
  <2>1. l \in Reachable
    BY ThreadAssumption DEF IndexInv, WalkOf
  <2>2. Reachable' = Reachable /\ Items' = Items
    BY <1>1 DEF Reachable, Items
  <2>3. SlotInv' /\ \A t \in Threads : WalkOf(t)'
    BY <1>1, <2>2 DEF IndexInv, SlotInv, WalkOf, Fresh
  <2>4. QED
    BY <1>1, <2>1, <2>2, <2>3 DEF IndexInv
<1>5. Entries(l) \in Seq(Nat \cup {Unset})
  BY DEF Entries, StoreInv, EntryInv
<1>6. /\ Size(l) = Len(Entries(l)) /\ Size(l) \in Nat
      /\ DOMAIN lists' = DOMAIN lists \cup {l}
      /\ lists'[l] \in Seq(Nat \cup {Unset}) /\ Len(lists'[l]) = Size(l) + 1
      /\ \A j \in 1..Size(l) : lists'[l][j] = Entries(l)[j]
      /\ lists'[l][Size(l) + 1] = Unset
      /\ \A x \in DOMAIN lists : x # l => lists'[x] = lists[x]
  <2>1. lists'[l] = Append(Entries(l), Unset)
    BY <1>1
  <2>2. /\ Size(l) = Len(Entries(l)) /\ Size(l) \in Nat
        /\ Append(Entries(l), Unset) \in Seq(Nat \cup {Unset})
        /\ Len(Append(Entries(l), Unset)) = Size(l) + 1
        /\ \A j \in 1..Size(l) : Append(Entries(l), Unset)[j] = Entries(l)[j]
        /\ Append(Entries(l), Unset)[Size(l) + 1] = Unset
    BY <1>5, AppendProperties, LenProperties DEF Size
  <2>3. QED
    BY <1>1, <2>1, <2>2
<1>7. l \in DOMAIN lists => Entries(l) = lists[l]
  BY DEF Entries
<1>8. l \notin DOMAIN lists => Size(l) = 0
  BY DEF Entries, Size
<1> HIDE DEF l
<1>9. ASSUME NEW x \in DOMAIN lists
      PROVE  /\ x \in DOMAIN lists' /\ Len(lists[x]) <= Len(lists'[x])
             /\ \A j \in 1..Len(lists[x]) : lists'[x][j] = lists[x][j]
  <2>0. Len(lists[x]) \in Nat
    BY LenProperties DEF StoreInv, EntryInv
  <2>1. CASE x = l
    BY <1>6, <1>7, <2>0, <2>1
  <2>2. CASE x # l
    BY <1>6, <2>0, <2>2
  <2>3. QED
    BY <2>1, <2>2
<1>10. ASSUME NEW x \in DOMAIN lists', NEW j \in 1..Len(lists'[x]),
              lists'[x][j] # Unset \/ ~(x = l /\ j = Size(l) + 1)
       PROVE  x \in DOMAIN lists /\ j \in 1..Len(lists[x])
  <2>1. CASE x = l
    BY <1>6, <1>7, <1>8, <1>10, <2>1
  <2>2. CASE x # l
    BY <1>6, <2>2
  <2>3. QED
    BY <2>1, <2>2
<1>11. \A a : Key(a)' = Key(a) /\ Short(a)' = Short(a)
  BY <1>1, SamePaths
<1>12. /\ \A v \in Writers : /\ AtList(v)' <=> AtList(v)
                             /\ op'[v].id = op[v].id /\ op'[v].rec = op[v].rec
                             /\ Held(v)' <=> Held(v)
                             /\ Pushed(v)' <=> Pushed(v)
       /\ \A id : Wanted(id)' <=> Wanted(id)
  <2>1. op'[w].id = op[w].id /\ op'[w].rec = op[w].rec /\ op'[w].pc = "set"
    BY <1>3
  <2>2. ASSUME NEW v \in Writers
        PROVE  /\ op'[v].id = op[v].id /\ op'[v].rec = op[v].rec
               /\ Held(v)' <=> Held(v)
               /\ Pushed(v)' <=> Pushed(v)
    BY <1>1, <1>3, <2>1 DEF Held, Pushed
  <2>3. QED
    BY <1>1, <2>2 DEF AtList, Wanted
<1>13. IdInv'
  <2>1. "set" \in InsertPcs \ {"idle"} /\ Held(w)
    BY <1>1 DEF InsertPcs, Held
  <2>2. QED
    BY <1>1, <1>2, <2>1, IdKept DEF StoreInv
<1>14. RecordInv'
  <2>1. ASSUME NEW v \in Writers
        PROVE  /\ op'[v].pc = "end" => op'[v].id \in DOMAIN records
               /\ op'[v].pc = "append" => view = "token"
               /\ op'[v].pc = "set" => AtList(v)
               /\ op'[v].pc \in {"get", "set"} /\ AtList(v) => Wanted(op[v].id)
    <3>1. op'[v].pc \in {op[v].pc, "set"} /\ op'[v].id = op[v].id
      BY <1>3
    <3>2. v # w => op'[v].pc = op[v].pc
      BY <1>3
    <3>3. QED
      BY <1>1, <3>1, <3>2 DEF StoreInv, RecordInv
  <2>2. QED
    BY <1>1, <1>12, <2>1 DEF StoreInv, RecordInv, Wanted
<1>15. ASSUME NEW v \in Writers
       PROVE  WriterWalk(v)'
  <2>1. op'[v].pc # "get" => Arrived(v)
    BY <1>1, <1>3 DEF StoreInv, WriterWalk
  <2>2. Target(v)' = Target(v)
    BY <1>11, <1>12 DEF Target
  <2>3. QED
    BY <1>1, <1>12, <2>1, <2>2 DEF StoreInv, WriterWalk, Arrived
<1>16. EntryInv'
  <2>1. ASSUME NEW x \in DOMAIN lists', NEW j \in 1..Len(lists'[x]), NEW e, e = lists'[x][j], e # Unset
        PROVE  EntryOf(x, e)'
    <3>1. x \in DOMAIN lists /\ j \in 1..Len(lists[x]) /\ lists[x][j] = e
      BY <1>9, <1>10, <2>1
    <3>2. EntryOf(x, e)
      BY <2>1, <3>1 DEF StoreInv, EntryInv
    <3>3. ListOf(x, e)' <=> ListOf(x, e)
      BY <1>1, SameList
    <3>4. QED
      BY <1>1, <1>12, <3>2, <3>3 DEF EntryOf
  <2>2. DOMAIN lists' \subseteq Reachable'
    BY <1>4, <1>6 DEF StoreInv, EntryInv
  <2>3. \A x \in DOMAIN lists' : lists'[x] \in Seq(Nat \cup {Unset})
    BY <1>6 DEF StoreInv, EntryInv
  <2>4. QED
    BY <2>1, <2>2, <2>3 DEF EntryInv
<1>17. OnceInv'
  <2>1. SUFFICES ASSUME NEW x \in DOMAIN lists', NEW m \in DOMAIN lists',
                        NEW i \in 1..Len(lists'[x]), NEW j \in 1..Len(lists'[m]),
                        lists'[x][i] # Unset, lists'[x][i] = lists'[m][j]
                 PROVE  x = m /\ i = j
    BY DEF OnceInv
  <2>2. x \in DOMAIN lists /\ i \in 1..Len(lists[x]) /\ lists[x][i] = lists'[x][i]
    BY <1>9, <1>10, <2>1
  <2>3. m \in DOMAIN lists /\ j \in 1..Len(lists[m]) /\ lists[m][j] = lists'[m][j]
    BY <1>9, <1>10, <2>1
  <2>4. QED
    BY <2>1, <2>2, <2>3 DEF StoreInv, OnceInv
<1>18. PushInv'
  <2>1. ASSUME NEW v \in Writers, op'[v].pc = "set"
        PROVE  PushOf(v)'
    <3>1. CASE v = w
      <4>1. op'[w].place = Size(l) /\ walk'[w].node = l
        BY <1>1, <1>3 DEF l
      <4>2. QED
        BY <1>6, <3>1, <4>1 DEF PushOf
    <3>2. CASE v # w
      <4>1. op'[v] = op[v] /\ PushOf(v)
        BY <1>3, <2>1, <3>2 DEF StoreInv, PushInv
      <4>2. walk[v].node \in DOMAIN lists /\ Len(lists[walk[v].node]) \in Nat
        BY <4>1, LenProperties DEF PushOf, StoreInv, EntryInv
      <4>3. op[v].place + 1 \in 1..Len(lists[walk[v].node])
        BY <4>1, <4>2 DEF PushOf
      <4>4. /\ walk[v].node \in DOMAIN lists'
            /\ lists'[walk[v].node][op[v].place + 1] = Unset
            /\ op[v].place \in 0..(Len(lists'[walk[v].node]) - 1)
        <5>1. /\ walk[v].node \in DOMAIN lists'
              /\ Len(lists[walk[v].node]) <= Len(lists'[walk[v].node])
              /\ lists'[walk[v].node][op[v].place + 1] = lists[walk[v].node][op[v].place + 1]
          BY <1>9, <4>2, <4>3
        <5>2. Len(lists'[walk[v].node]) \in Nat
          BY <1>6, <4>2, LenProperties
        <5>3. QED
          BY <4>1, <4>2, <5>1, <5>2 DEF PushOf
      <4>5. QED
        BY <1>1, <4>1, <4>4 DEF PushOf
    <3>3. QED
      BY <3>1, <3>2
  <2>2. ASSUME NEW v \in Writers, op[v].pc = "set", walk[v].node = l
        PROVE  op[v].place # Size(l)
    <3>1. l \in DOMAIN lists /\ op[v].place \in 0..(Len(lists[l]) - 1)
      BY <2>2 DEF StoreInv, PushInv, PushOf
    <3>2. QED
      BY <1>6, <1>7, <3>1
  <2>3. ASSUME NEW u \in Writers, NEW v \in Writers, op'[u].pc = "set", op'[v].pc = "set",
               walk[u].node = walk[v].node, op'[u].place = op'[v].place
        PROVE  u = v
    <3>1. CASE u = w /\ v # w
      BY <1>3, <2>2, <2>3, <3>1 DEF l
    <3>2. CASE u # w /\ v = w
      BY <1>3, <2>2, <2>3, <3>2 DEF l
    <3>3. CASE u # w /\ v # w
      BY <1>3, <2>3, <3>3 DEF StoreInv, PushInv
    <3>4. QED
      BY <3>1, <3>2, <3>3
  <2>4. ASSUME NEW x \in DOMAIN lists', NEW j \in 1..Len(lists'[x]), lists'[x][j] = Unset
        PROVE  \E v \in Writers : op'[v].pc = "set" /\ walk[v].node = x /\ op'[v].place + 1 = j
    <3>1. CASE x = l /\ j = Size(l) + 1
      BY <1>3, <3>1 DEF l
    <3>2. CASE ~(x = l /\ j = Size(l) + 1)
      <4>1. x \in DOMAIN lists /\ j \in 1..Len(lists[x]) /\ lists[x][j] = Unset
        BY <1>9, <1>10, <2>4, <3>2
      <4>2. PICK v \in Writers : op[v].pc = "set" /\ walk[v].node = x /\ op[v].place + 1 = j
        BY <4>1 DEF StoreInv, PushInv
      <4>3. op'[v] = op[v]
        BY <1>1, <1>3, <4>2
      <4>4. QED
        BY <4>2, <4>3
    <3>3. QED
      BY <3>1, <3>2
  <2>5. \A v \in Writers : walk'[v].node = walk[v].node
    BY <1>1
  <2>6. \A u, v \in Writers :
          /\ op'[u].pc = "set" /\ op'[v].pc = "set"
          /\ walk'[u].node = walk'[v].node /\ op'[u].place = op'[v].place
          => u = v
    BY <2>3, <2>5
  <2>7. \A x \in DOMAIN lists' : \A j \in 1..Len(lists'[x]) :
          lists'[x][j] = Unset =>
            \E v \in Writers : op'[v].pc = "set" /\ walk'[v].node = x /\ op'[v].place + 1 = j
    BY <2>4, <2>5
  <2>8. QED
    BY <2>1, <2>6, <2>7 DEF PushInv
<1>19. ASSUME NEW id, On(id)
       PROVE  On(id)'
  <2>1. PICK x \in DOMAIN lists : /\ ListOf(x, id)
                                  /\ \E j \in 1..Len(lists[x]) : lists[x][j] = id
    BY <1>19 DEF On
  <2>2. PICK j \in 1..Len(lists[x]) : lists[x][j] = id
    BY <2>1
  <2>3. x \in DOMAIN lists' /\ lists'[x][j] = id /\ Len(lists[x]) <= Len(lists'[x])
    BY <1>9, <2>2
  <2>4. j \in 1..Len(lists'[x])
    BY <1>6, <2>3, LenProperties DEF StoreInv, EntryInv
  <2>5. ListOf(x, id)'
    BY <1>1, <2>1, SameList
  <2>6. QED
    BY <2>3, <2>4, <2>5 DEF On
<1>20. OnInv'
  BY <1>1, <1>12, <1>19 DEF StoreInv, OnInv
<1>21. ViewInv'
  BY <1>1 DEF StoreInv, ViewInv
<1>22. StoreInv'
  BY <1>13, <1>14, <1>15, <1>16, <1>17, <1>18, <1>20, <1>21 DEF StoreInv
<1>23. QED
  BY <1>4, <1>9, <1>10, <1>22

\* A walk that has arrived is on the node its path leads to.
LEMMA ArrivedLeads ==
  ASSUME NEW n, NEW path \in Seq(Nat), OnWay(n, <<>>, path)
  PROVE  Leads(n, path)
<1>1. Len(path) = Len(n) + 0
  BY DEF OnWay
<1>2. QED
  BY <1>1 DEF OnWay, Leads

\* The reserved place is set to the id.
LEMMA SetEntryStore ==
  ASSUME IndexInv, StoreInv, NEW w \in Writers, SetEntry(w)
  PROVE  /\ IndexInv' /\ StoreInv'
         /\ DOMAIN lists' = DOMAIN lists
         /\ \A l \in DOMAIN lists :
              /\ Len(lists'[l]) = Len(lists[l])
              /\ \A j \in 1..Len(lists[l]) :
                   /\ lists[l][j] # Unset => lists'[l][j] = lists[l][j]
                   /\ lists[l][j] = Unset => lists'[l][j] \in {Unset, op[w].id}
<1> DEFINE l == walk[w].node
           id == op[w].id
           p == op[w].place + 1
           pc == IF view = "token" THEN "append" ELSE "end"
<1>1. /\ op[w].pc = "set"
      /\ lists' = [lists EXCEPT ![l] = [lists[l] EXCEPT ![p] = id]]
      /\ op' = [op EXCEPT ![w].pc = pc]
      /\ length' = length /\ idx' = idx /\ live' = live /\ walk' = walk /\ view' = view
      /\ current_write_id' = current_write_id /\ current_read_id' = current_read_id
      /\ records' = records /\ claimed' = claimed
  BY DEF SetEntry, index_vars
<1>2. op' = [op EXCEPT ![w] = [pc |-> pc, id |-> op[w].id, rec |-> op[w].rec, place |-> op[w].place]]
  <2>1. op[w] = [pc |-> op[w].pc, id |-> op[w].id, rec |-> op[w].rec, place |-> op[w].place]
    BY DEF StoreInv, IdInv
  <2>2. [op[w] EXCEPT !.pc = pc] =
          [pc |-> pc, id |-> op[w].id, rec |-> op[w].rec, place |-> op[w].place]
    BY <2>1
  <2>3. op' = [op EXCEPT ![w] = [op[w] EXCEPT !.pc = pc]]
    BY <1>1 DEF StoreInv, IdInv
  <2>4. QED
    BY <2>2, <2>3
<1>3. /\ op'[w] = [pc |-> pc, id |-> op[w].id, rec |-> op[w].rec, place |-> op[w].place]
      /\ \A v \in Writers : v # w => op'[v] = op[v]
  BY <1>2, OpUpdate DEF StoreInv
<1>4. Reachable' = Reachable /\ IndexInv'
  <2>2. Reachable' = Reachable /\ Items' = Items
    BY <1>1 DEF Reachable, Items
  <2>3. SlotInv' /\ \A t \in Threads : WalkOf(t)'
    BY <1>1, <2>2 DEF IndexInv, SlotInv, WalkOf, Fresh
  <2>4. QED
    BY <1>1, <2>2, <2>3 DEF IndexInv
<1>5. /\ l \in DOMAIN lists /\ op[w].place \in 0..(Len(lists[l]) - 1) /\ lists[l][p] = Unset
  BY <1>1 DEF StoreInv, PushInv, PushOf
<1>6. Held(w) /\ id \in Nat /\ id + 1 \in 1..Len(claimed) /\ op[w].rec.tok \in Nat /\ id # Unset
      /\ id \in 0..(current_write_id - 1) /\ id >= current_read_id /\ op[w].rec = claimed[id + 1]
  <2>1. Held(w)
    BY <1>1 DEF Held
  <2>2. id \in Nat /\ id + 1 \in 1..Len(claimed) /\ op[w].rec.tok \in Nat
    BY <2>1, TargetPath
  <2>3. id \in current_read_id..(current_write_id - 1) /\ op[w].rec = claimed[id + 1]
        /\ current_read_id \in Nat /\ current_write_id \in Nat
    BY <2>1, NumberAssumption DEF StoreInv, IdInv
  <2>4. QED
    BY <2>1, <2>2, <2>3, UnsetEntry
<1>7. AtList(w) /\ Wanted(id) /\ (view # "token" => id \in DOMAIN records)
  BY <1>1 DEF StoreInv, RecordInv, AtList
<1>8. Leads(l, Key(op[w].rec.tok))
  <2>1. OnWay(l, walk[w].path, Target(w)) /\ Arrived(w)
    BY <1>1, <1>6, <1>7 DEF StoreInv, WriterWalk
  <2>2. Target(w) = Key(op[w].rec.tok) /\ Target(w) \in Seq(Nat)
    BY <1>6, <1>7, TargetPath DEF Target
  <2>3. QED
    BY <2>1, <2>2, ArrivedLeads DEF Arrived
<1>9. \A x \in DOMAIN lists : lists[x] \in Seq(Nat \cup {Unset}) /\ Len(lists[x]) \in Nat
  BY LenProperties DEF StoreInv, EntryInv
<1>10. p \in 1..Len(lists[l])
  BY <1>5, <1>9
<1>11. pc \in {"append", "end"} /\ (pc = "append" <=> view = "token")
  OBVIOUS
<1> HIDE DEF l, id, p, pc
<1>12. /\ DOMAIN lists' = DOMAIN lists
       /\ \A x \in DOMAIN lists : x # l => lists'[x] = lists[x]
       /\ lists'[l] \in Seq(Nat \cup {Unset}) /\ Len(lists'[l]) = Len(lists[l])
       /\ \A j \in 1..Len(lists[l]) : lists'[l][j] = IF j = p THEN id ELSE lists[l][j]
  <2>1. lists'[l] = [lists[l] EXCEPT ![p] = id]
    BY <1>1, <1>5
  <2>2. lists[l] \in Seq(Nat \cup {Unset})
    BY <1>5, <1>9
  <2>3. id \in Nat \cup {Unset}
    BY <1>6
  <2>4. lists'[l] \in Seq(Nat \cup {Unset}) /\ Len(lists'[l]) = Len(lists[l])
    BY <1>10, <2>1, <2>2, <2>3, ExceptSeq
  <2>5. \A j \in 1..Len(lists[l]) : lists'[l][j] = IF j = p THEN id ELSE lists[l][j]
    BY <2>1, <2>2
  <2>6. QED
    BY <1>1, <2>4, <2>5
<1>13. ASSUME NEW x \in DOMAIN lists
       PROVE  /\ Len(lists'[x]) = Len(lists[x])
              /\ \A j \in 1..Len(lists[x]) :
                   /\ ~(x = l /\ j = p) => lists'[x][j] = lists[x][j]
                   /\ x = l /\ j = p => lists'[x][j] = id
  BY <1>12
<1>14. \A a : Key(a)' = Key(a) /\ Short(a)' = Short(a)
  BY <1>1, SamePaths
<1>15. /\ \A v \in Writers : /\ AtList(v)' <=> AtList(v)
                             /\ op'[v].id = op[v].id /\ op'[v].rec = op[v].rec
                             /\ op'[v].place = op[v].place
                             /\ Held(v)' <=> Held(v)
                             /\ Pushed(v)' <=> Pushed(v) \/ v = w
       /\ \A i : Wanted(i)' <=> Wanted(i)
  BY <1>1, <1>3, <1>11 DEF AtList, Held, Pushed, Wanted
<1>16. IdInv'
  BY <1>1, <1>2, <1>6, <1>11, IdKept DEF StoreInv, InsertPcs
<1>17. RecordInv'
  <2>1. ASSUME NEW v \in Writers
        PROVE  /\ op'[v].pc = "end" => op'[v].id \in DOMAIN records
               /\ op'[v].pc = "append" => view = "token"
               /\ op'[v].pc = "set" => AtList(v)
               /\ op'[v].pc \in {"get", "set"} /\ AtList(v) => Wanted(op'[v].id)
    <3>1. CASE v = w
      BY <1>3, <1>7, <1>11, <3>1 DEF id
    <3>2. CASE v # w
      BY <1>3, <3>2 DEF StoreInv, RecordInv
    <3>3. QED
      BY <3>1, <3>2
  <2>2. QED
    BY <1>1, <1>15, <2>1 DEF StoreInv, RecordInv
<1>18. ASSUME NEW v \in Writers
       PROVE  WriterWalk(v)'
  <2>1. op'[v].pc # "get" => Arrived(v)
    BY <1>1, <1>3 DEF StoreInv, WriterWalk
  <2>2. Target(v)' = Target(v)
    BY <1>14, <1>15 DEF Target
  <2>3. QED
    BY <1>1, <1>15, <2>1, <2>2 DEF StoreInv, WriterWalk, Arrived
<1>19. EntryInv'
  <2>1. ASSUME NEW x \in DOMAIN lists', NEW j \in 1..Len(lists'[x]), NEW e, e = lists'[x][j], e # Unset
        PROVE  EntryOf(x, e)'
    <3>0. x \in DOMAIN lists /\ j \in 1..Len(lists[x])
      BY <1>12, <1>13
    <3>1. CASE x = l /\ j = p
      <4>1. e = id
        BY <1>13, <2>1, <3>0, <3>1
      <4>2. ListOf(x, e)
        BY <1>6, <1>8, <3>1, <4>1 DEF ListOf
      <4>3. ListOf(x, e)'
        BY <1>1, <4>2, SameList
      <4>4. Pushed(w)' /\ op'[w].id = e
        BY <1>15, <4>1 DEF id
      <4>5. e \in 0..(current_write_id' - 1) /\ Wanted(e)'
        BY <1>1, <1>6, <1>7, <1>15, <4>1
      <4>6. QED
        BY <4>3, <4>4, <4>5 DEF EntryOf
    <3>2. CASE ~(x = l /\ j = p)
      <4>1. lists[x][j] = e
        BY <1>13, <2>1, <3>0, <3>2
      <4>2. EntryOf(x, e)
        BY <2>1, <3>0, <4>1 DEF StoreInv, EntryInv
      <4>3. ListOf(x, e)' <=> ListOf(x, e)
        BY <1>1, SameList
      <4>4. QED
        BY <1>1, <1>15, <4>2, <4>3 DEF EntryOf
    <3>3. QED
      BY <3>1, <3>2
  <2>2. DOMAIN lists' \subseteq Reachable'
    BY <1>4, <1>12 DEF StoreInv, EntryInv
  <2>3. \A x \in DOMAIN lists' : lists'[x] \in Seq(Nat \cup {Unset})
    BY <1>9, <1>12
  <2>4. QED
    BY <2>1, <2>2, <2>3 DEF EntryInv
<1>20. ASSUME NEW x \in DOMAIN lists, NEW j \in 1..Len(lists[x])
       PROVE  lists[x][j] # id
  <2>1. SUFFICES ASSUME lists[x][j] = id PROVE FALSE
    OBVIOUS
  <2>2. lists[x][j] < current_read_id \/ \E v \in Writers : Pushed(v) /\ op[v].id = id
    BY <1>6, <2>1 DEF StoreInv, EntryInv, EntryOf
  <2>3. current_read_id \in Nat
    BY NumberAssumption DEF StoreInv, IdInv
  <2>4. PICK v \in Writers : Pushed(v) /\ op[v].id = id
    BY <1>6, <2>1, <2>2, <2>3
  <2>5. v = w
    BY <1>6, <2>4 DEF StoreInv, IdInv, Pushed, Held, id
  <2>6. QED
    BY <1>1, <2>4, <2>5 DEF Pushed
<1>21. OnceInv'
  <2>1. SUFFICES ASSUME NEW x \in DOMAIN lists', NEW m \in DOMAIN lists',
                        NEW i \in 1..Len(lists'[x]), NEW j \in 1..Len(lists'[m]),
                        lists'[x][i] # Unset, lists'[x][i] = lists'[m][j]
                 PROVE  x = m /\ i = j
    BY DEF OnceInv
  <2>2. x \in DOMAIN lists /\ i \in 1..Len(lists[x]) /\ m \in DOMAIN lists /\ j \in 1..Len(lists[m])
    BY <1>12, <1>13
  <2>3. CASE x = l /\ i = p
    BY <1>13, <1>20, <2>1, <2>2, <2>3
  <2>4. CASE m = l /\ j = p
    BY <1>13, <1>20, <2>1, <2>2, <2>4
  <2>5. CASE ~(x = l /\ i = p) /\ ~(m = l /\ j = p)
    <3>1. lists'[x][i] = lists[x][i] /\ lists'[m][j] = lists[m][j]
      BY <1>13, <2>2, <2>5
    <3>2. lists[x][i] # Unset /\ lists[x][i] = lists[m][j]
      BY <2>1, <3>1
    <3>3. QED
      BY <2>2, <3>2 DEF StoreInv, OnceInv
  <2>6. QED
    BY <2>3, <2>4, <2>5
<1>22. PushInv'
  <2>1. \A v \in Writers : op'[v].pc = "set" => v # w /\ op'[v] = op[v] /\ op[v].pc = "set"
    BY <1>3, <1>11
  <2>2. ASSUME NEW v \in Writers, op'[v].pc = "set"
        PROVE  PushOf(v)'
    <3>1. v # w /\ op'[v] = op[v] /\ PushOf(v) /\ op[v].pc = "set"
      BY <2>1, <2>2 DEF StoreInv, PushInv
    <3>2. walk[v].node \in DOMAIN lists /\ op[v].place \in 0..(Len(lists[walk[v].node]) - 1)
      BY <3>1 DEF PushOf
    <3>3. op[v].place + 1 \in 1..Len(lists[walk[v].node])
      BY <1>9, <3>2
    <3>4. ~(walk[v].node = l /\ op[v].place + 1 = p)
      <4>1. SUFFICES ASSUME walk[v].node = l, op[v].place + 1 = p PROVE FALSE
        OBVIOUS
      <4>2. op[v].place = op[w].place
        BY <1>5, <3>2, <4>1 DEF p
      <4>3. QED
        BY <1>1, <3>1, <4>1, <4>2 DEF StoreInv, PushInv, l
    <3>5. lists'[walk[v].node][op[v].place + 1] = Unset
      BY <1>13, <3>1, <3>2, <3>3, <3>4 DEF PushOf
    <3>6. QED
      BY <1>1, <1>12, <1>13, <3>1, <3>2, <3>5 DEF PushOf
  <2>3. ASSUME NEW x \in DOMAIN lists', NEW j \in 1..Len(lists'[x]), lists'[x][j] = Unset
        PROVE  \E v \in Writers : op'[v].pc = "set" /\ walk[v].node = x /\ op'[v].place + 1 = j
    <3>1. x \in DOMAIN lists /\ j \in 1..Len(lists[x])
      BY <1>12, <1>13
    <3>2. ~(x = l /\ j = p)
      BY <1>6, <1>13, <2>3, <3>1
    <3>3. lists[x][j] = Unset
      BY <1>13, <2>3, <3>1, <3>2
    <3>4. PICK v \in Writers : op[v].pc = "set" /\ walk[v].node = x /\ op[v].place + 1 = j
      BY <3>1, <3>3 DEF StoreInv, PushInv
    <3>5. v # w
      BY <3>2, <3>4 DEF l, p
    <3>6. QED
      BY <1>3, <3>4, <3>5
  <2>4. QED
    BY <1>1, <2>1, <2>2, <2>3 DEF StoreInv, PushInv
<1>23. ASSUME NEW i, On(i), i # Unset
       PROVE  On(i)'
  <2>1. PICK x \in DOMAIN lists : /\ ListOf(x, i)
                                  /\ \E j \in 1..Len(lists[x]) : lists[x][j] = i
    BY <1>23 DEF On
  <2>2. PICK j \in 1..Len(lists[x]) : lists[x][j] = i
    BY <2>1
  <2>3. ~(x = l /\ j = p)
    BY <1>5, <1>23, <2>2 DEF p
  <2>4. x \in DOMAIN lists' /\ lists'[x][j] = i /\ j \in 1..Len(lists'[x])
    BY <1>12, <1>13, <2>2, <2>3
  <2>5. ListOf(x, i)'
    BY <1>1, <2>1, SameList
  <2>6. QED
    BY <2>4, <2>5 DEF On
<1>24. ASSUME NEW i, i = id
       PROVE  On(i)'
  <2>1. PICK x \in DOMAIN lists' : x = l /\ lists'[x][p] = i /\ p \in 1..Len(lists'[x])
    BY <1>5, <1>10, <1>12, <1>13, <1>24
  <2>2. ListOf(x, i)
    BY <1>6, <1>8, <1>24, <2>1 DEF ListOf
  <2>3. ListOf(x, i)'
    BY <1>1, <2>2, SameList
  <2>4. QED
    BY <2>1, <2>3 DEF On
<1>25. OnInv'
  <2>1. ASSUME NEW i \in 0..(current_read_id - 1), Wanted(i)
        PROVE  On(i)'
    <3>1. i # Unset
      BY UnsetEntry DEF StoreInv, IdInv
    <3>2. QED
      BY <1>23, <2>1, <3>1 DEF StoreInv, OnInv
  <2>2. ASSUME NEW v \in Writers, Pushed(v)', NEW i, i = op[v].id, Wanted(i)
        PROVE  On(i)'
    <3>1. CASE v = w
      BY <1>24, <2>2, <3>1 DEF id
    <3>2. CASE v # w
      <4>1. Pushed(v) /\ Held(v)
        BY <1>15, <2>2, <3>2 DEF Pushed, Held
      <4>2. i # Unset
        BY <2>2, <4>1, TargetPath, UnsetEntry
      <4>3. On(i)
        BY <2>2, <4>1 DEF StoreInv, OnInv
      <4>4. QED
        BY <1>23, <4>2, <4>3
    <3>3. QED
      BY <3>1, <3>2
  <2>3. \A v \in Writers : op'[v].id = op[v].id
    BY <1>15
  <2>4. QED
    BY <1>1, <1>15, <2>1, <2>2, <2>3 DEF OnInv
<1>26. ViewInv'
  BY <1>1 DEF StoreInv, ViewInv
<1>27. StoreInv'
  BY <1>16, <1>17, <1>18, <1>19, <1>21, <1>22, <1>25, <1>26 DEF StoreInv
<1>28. ASSUME NEW x \in DOMAIN lists, NEW j \in 1..Len(lists[x])
       PROVE  /\ lists[x][j] # Unset => lists'[x][j] = lists[x][j]
              /\ lists[x][j] = Unset => lists'[x][j] \in {Unset, op[w].id}
  BY <1>5, <1>13 DEF p, id
<1>29. QED
  BY <1>4, <1>12, <1>13, <1>27, <1>28

\* The record is appended, and the character's list is looked for if it satisfies
\* the character's filter.
LEMMA AppendRecordStore ==
  ASSUME IndexInv, StoreInv, NEW w \in Writers, AppendRecord(w)
  PROVE  /\ IndexInv' /\ StoreInv' /\ Reachable' = Reachable
         /\ \A u \in Threads : u # w => walk'[u] = walk[u]
<1> DEFINE id == op[w].id
<1>1. /\ op[w].pc = "append" \/ (op[w].pc = "get" /\ Arrived(w) /\ ~AtList(w))
      /\ records' = [i \in DOMAIN records \cup {id} |-> IF i = id THEN op[w].rec ELSE records[i]]
      /\ \/ /\ view = "char" /\ op[w].rec.hit
            /\ walk' = [walk EXCEPT ![w] = [path |-> <<CharId>>, node |-> walk[w].node, item |-> Null]]
            /\ op' = op
         \/ /\ view = "token" \/ ~op[w].rec.hit
            /\ op' = [op EXCEPT ![w].pc = "end"]
            /\ walk' = walk
      /\ length' = length /\ idx' = idx /\ live' = live /\ view' = view
      /\ current_write_id' = current_write_id /\ current_read_id' = current_read_id
      /\ lists' = lists /\ claimed' = claimed
  BY DEF AppendRecord, Enter
<1>2. /\ Held(w) /\ id \in Nat /\ id \in 0..(current_write_id - 1) /\ op[w].rec = claimed[id + 1]
      /\ op[w].rec.tok \in Nat /\ op[w].rec.hit \in BOOLEAN /\ Arrived(w) /\ w \in Threads
  <2>1. Held(w) /\ w \in Threads /\ Arrived(w)
    BY <1>1, ThreadAssumption DEF Held, StoreInv, WriterWalk
  <2>2. id \in current_read_id..(current_write_id - 1) /\ op[w].rec = claimed[id + 1]
        /\ current_read_id \in Nat /\ current_write_id \in Nat
    BY <2>1, NumberAssumption DEF StoreInv, IdInv
  <2>3. QED
    BY <2>1, <2>2, TargetPath
<1>3. view \in {"token", "char"} /\ (op[w].pc = "append" => view = "token")
      /\ (op[w].pc = "get" => view = "char" /\ id \notin DOMAIN records)
  BY <1>1 DEF StoreInv, ViewInv, RecordInv, AtList
<1>4. \A a : Key(a)' = Key(a) /\ Short(a)' = Short(a)
  BY <1>1, SamePaths
<1>5. Wanted(id) <=> view = "token" \/ op[w].rec.hit
  BY <1>2 DEF Wanted
<1> HIDE DEF id
<1>6. DOMAIN records' = DOMAIN records \cup {id}
      /\ records'[id] = claimed[id + 1] /\ \A i \in DOMAIN records : i # id => records'[i] = records[i]
  BY <1>1, <1>2
<1>7. IndexInv' /\ Reachable' = Reachable
  <2>1. CASE walk' = walk
    <3>1. Reachable' = Reachable /\ Items' = Items
      BY <1>1, <2>1 DEF Reachable, Items
    <3>2. SlotInv' /\ \A t \in Threads : WalkOf(t)'
      BY <1>1, <2>1, <3>1 DEF IndexInv, SlotInv, WalkOf, Fresh
    <3>3. QED
      BY <1>1, <2>1, <3>1, <3>2 DEF IndexInv
  <2>2. CASE walk' = [walk EXCEPT ![w] = [path |-> <<CharId>>, node |-> walk[w].node, item |-> Null]]
    <3>1. walk[w].item = Null /\ walk[w].node \in Reachable /\ <<CharId>> \in Seq(Nat)
      BY <1>2, AtRest DEF IndexInv, WalkOf, CharId
    <3>2. QED
      BY <1>1, <1>2, <2>2, <3>1, EnterIndex
  <2>3. QED
    BY <1>1, <2>1, <2>2
<1>8. \A u \in Threads : u # w => walk'[u] = walk[u]
  BY <1>1 DEF IndexInv
<1>9. ASSUME NEW v \in Writers, v # w
      PROVE  op'[v] = op[v] /\ walk'[v] = walk[v] /\ (Held(v) => (AtList(v)' <=> AtList(v)))
  <2>1. op'[v] = op[v] /\ walk'[v] = walk[v]
    BY <1>1, <1>8, <1>9, ThreadAssumption DEF StoreInv, IdInv
  <2>2. Held(v) => op[v].id # id
    BY <1>2, <1>9 DEF StoreInv, IdInv, id
  <2>3. QED
    BY <1>1, <1>6, <2>1, <2>2 DEF AtList
<1>10. \A i : Wanted(i)' <=> Wanted(i)
  BY <1>1 DEF Wanted
<1>11. CASE view = "char" /\ op[w].rec.hit
  <2>1. op' = op /\ op[w].pc = "get"
    BY <1>1, <1>3, <1>11
  <2>2. /\ walk'[w] = [path |-> <<CharId>>, node |-> walk[w].node, item |-> Null]
    BY <1>1, <1>2, <1>11 DEF IndexInv
  <2>3. AtList(w)'
    BY <1>6, <2>1 DEF AtList, id
  <2>4. IdInv'
    BY <1>1, <2>1 DEF StoreInv, IdInv, Held
  <2>5. RecordInv'
    <3>1. ASSUME NEW i \in DOMAIN records'
          PROVE  i \in 0..(current_write_id - 1) /\ records'[i] = claimed[i + 1]
      BY <1>2, <1>6 DEF StoreInv, RecordInv
    <3>2. ASSUME NEW v \in Writers
          PROVE  /\ op[v].pc = "end" => op[v].id \in DOMAIN records'
                 /\ op[v].pc = "append" => view = "token"
                 /\ op[v].pc = "set" => AtList(v)'
                 /\ op[v].pc \in {"get", "set"} /\ AtList(v)' => Wanted(op[v].id)
      <4>1. CASE v = w
        BY <1>5, <1>11, <2>1, <4>1 DEF id
      <4>2. CASE v # w
        <5>1. op[v].pc \in {"get", "set"} => (AtList(v)' <=> AtList(v))
          BY <1>9, <4>2 DEF Held
        <5>2. QED
          BY <1>6, <5>1 DEF StoreInv, RecordInv
      <4>3. QED
        BY <4>1, <4>2
    <3>3. \A i \in 0..(current_read_id - 1) : i \in DOMAIN records'
      BY <1>6 DEF StoreInv, RecordInv
    <3>4. QED
      BY <1>1, <1>10, <2>1, <3>1, <3>2, <3>3 DEF RecordInv, Wanted
  <2>6. ASSUME NEW v \in Writers
        PROVE  WriterWalk(v)'
    <3>1. CASE v = w
      <4>1. OnWay(walk[w].node, <<>>, Short(op[w].rec.tok))
        <5>1. ~AtList(w)
          BY <1>1, <2>1
        <5>2. OnWay(walk[w].node, walk[w].path, Target(w))
          BY <1>2, <5>1 DEF StoreInv, WriterWalk
        <5>3. QED
          BY <1>2, <5>1, <5>2 DEF Target, Arrived
      <4>2. OnWay(walk[w].node, <<CharId>>, Key(op[w].rec.tok))
        <5> DEFINE n == walk[w].node
                   a == op[w].rec.tok
        <5>0. a \in Nat /\ length \in Lengths /\ ViewInv /\ view = "char"
          BY <1>2, <1>11 DEF StoreInv, IndexInv
        <5>2. Leads(n, Short(a))
          BY <1>2, <4>1, ArrivedLeads, KeyFacts DEF StoreInv, IndexInv
        <5> HIDE DEF n, a
        <5>1. /\ Len(Key(a)) = Len(Short(a)) + 1 /\ Len(Short(a)) \in Nat
              /\ \A i \in 1..Len(Short(a)) : Key(a)[i] = Short(a)[i]
              /\ Key(a)[Len(Short(a)) + 1] = CharId
          BY <5>0, KeyFacts
        <5>3. Len(n) = Len(Short(a)) /\ Len(Key(a)) = Len(n) + 1
          BY <5>1, <5>2 DEF Leads
        <5>4. \A i \in 1..Len(n) : n[i][1] = Key(a)[i]
          BY <5>1, <5>2, <5>3 DEF Leads
        <5>5. Len(<<CharId>>) = 1 /\ <<CharId>>[1] = CharId
          OBVIOUS
        <5>6. \A i \in 1..Len(<<CharId>>) : <<CharId>>[i] = Key(a)[Len(n) + i]
          BY <5>1, <5>3, <5>5
        <5>7. QED
          BY <5>3, <5>4, <5>5, <5>6 DEF OnWay, n, a
      <4>3. Target(w)' = Key(op[w].rec.tok)
        BY <1>4, <2>1, <2>3 DEF Target
      <4>4. QED
        BY <2>1, <2>2, <3>1, <4>2, <4>3 DEF WriterWalk
    <3>2. CASE v # w
      <4>1. walk'[v] = walk[v] /\ op'[v] = op[v] /\ (Held(v) => (AtList(v)' <=> AtList(v)))
        BY <1>9, <3>2
      <4>2. Held(v) => Target(v)' = Target(v)
        BY <1>4, <4>1 DEF Target
      <4>3. WriterWalk(v)
        BY DEF StoreInv
      <4>4. (Wanted(op[v].id))' <=> Wanted(op[v].id)
        BY <1>10, <4>1
      <4>5. QED
        BY <4>1, <4>2, <4>3, <4>4 DEF WriterWalk, Held, Arrived
    <3>3. QED
      BY <3>1, <3>2
  <2>7. EntryInv'
    BY <1>1, <1>7, <2>1, SameList DEF StoreInv, EntryInv, EntryOf, Wanted, Pushed
  <2>8. OnceInv' /\ OnInv'
    BY <1>1, <2>1, SameList DEF StoreInv, OnceInv, OnInv, On, Wanted, Pushed
  <2>9. PushInv'
    <3>1. \A v \in Writers : op[v].pc = "set" => walk'[v] = walk[v]
      BY <1>9, <2>1
    <3>2. QED
      BY <1>1, <2>1, <3>1 DEF StoreInv, PushInv, PushOf
  <2>10. QED
    BY <1>1, <1>7, <1>8, <2>4, <2>5, <2>6, <2>7, <2>8, <2>9 DEF StoreInv, ViewInv
<1>12. CASE view = "token" \/ ~op[w].rec.hit
  <2>1. walk' = walk /\ op' = [op EXCEPT ![w].pc = "end"]
    BY <1>1, <1>3, <1>12
  <2>2. op' = [op EXCEPT ![w] = [pc |-> "end", id |-> op[w].id, rec |-> op[w].rec, place |-> op[w].place]]
    <3>1. op[w] = [pc |-> op[w].pc, id |-> op[w].id, rec |-> op[w].rec, place |-> op[w].place]
      BY DEF StoreInv, IdInv
    <3>2. [op[w] EXCEPT !.pc = "end"] =
            [pc |-> "end", id |-> op[w].id, rec |-> op[w].rec, place |-> op[w].place]
      BY <3>1
    <3>3. op' = [op EXCEPT ![w] = [op[w] EXCEPT !.pc = "end"]]
      BY <2>1 DEF StoreInv, IdInv
    <3>4. QED
      BY <3>2, <3>3
  <2>3. op'[w].pc = "end" /\ op'[w].id = id
    BY <2>2, OpUpdate DEF StoreInv, id
  <2>4. IdInv'
    <3>1. "end" \in InsertPcs \ {"idle"}
      BY DEF InsertPcs
    <3>2. QED
      BY <1>1, <1>2, <2>2, <3>1, IdKept DEF StoreInv
  <2>5. RecordInv'
    <3>1. ASSUME NEW i \in DOMAIN records'
          PROVE  i \in 0..(current_write_id - 1) /\ records'[i] = claimed[i + 1]
      BY <1>2, <1>6 DEF StoreInv, RecordInv
    <3>2. ASSUME NEW v \in Writers
          PROVE  /\ op'[v].pc = "end" => op'[v].id \in DOMAIN records'
                 /\ op'[v].pc = "append" => view = "token"
                 /\ op'[v].pc = "set" => AtList(v)'
                 /\ op'[v].pc \in {"get", "set"} /\ AtList(v)' => (Wanted(op[v].id))'
      <4>1. CASE v = w
        BY <1>6, <2>3, <4>1
      <4>2. CASE v # w
        <5>1. op'[v] = op[v] /\ (op[v].pc \in {"get", "set"} => (AtList(v)' <=> AtList(v)))
          BY <1>9, <4>2 DEF Held
        <5>2. (Wanted(op[v].id))' <=> Wanted(op[v].id)
          BY <1>10, <5>1
        <5>3. QED
          BY <1>6, <5>1, <5>2 DEF StoreInv, RecordInv
      <4>3. QED
        BY <4>1, <4>2
    <3>3. \A i \in 0..(current_read_id - 1) : i \in DOMAIN records'
      BY <1>6 DEF StoreInv, RecordInv
    <3>4. QED
      BY <1>1, <3>1, <3>2, <3>3 DEF RecordInv
  <2>6. ASSUME NEW v \in Writers
        PROVE  WriterWalk(v)'
    <3>1. CASE v = w
      <4>1. Arrived(w)'
        BY <1>2, <2>1 DEF Arrived
      <4>2. CASE view = "token"
        <5>1. Target(w)' = Target(w) /\ AtList(w) /\ Wanted(op[w].id)
          <6>1. op'[w].rec = op[w].rec
            BY <2>2, OpUpdate DEF StoreInv
          <6>2. QED
            BY <1>1, <1>4, <4>2, <6>1 DEF Target, AtList, Wanted
        <5>2. OnWay(walk[w].node, walk[w].path, Target(w))
          BY <1>2, <5>1 DEF StoreInv, WriterWalk
        <5>3. QED
          BY <2>1, <3>1, <4>1, <5>1, <5>2 DEF WriterWalk
      <4>3. CASE view # "token"
        <5>1. AtList(w)' /\ ~(Wanted(op[w].id))'
          <6>1. op'[w].id \in DOMAIN records' /\ op'[w].id = id
            BY <1>6, <2>3
          <6>2. ~(Wanted(id) /\ TRUE)
            BY <1>5, <1>12, <4>3
          <6>3. ~(Wanted(op[w].id))'
            BY <1>10, <6>1, <6>2
          <6>4. QED
            BY <6>1, <6>3 DEF AtList
        <5>2. QED
          BY <3>1, <4>1, <5>1 DEF WriterWalk
      <4>4. QED
        BY <4>2, <4>3
    <3>2. CASE v # w
      <4>1. walk'[v] = walk[v] /\ op'[v] = op[v] /\ (Held(v) => (AtList(v)' <=> AtList(v)))
        BY <1>9, <3>2
      <4>2. Held(v) => Target(v)' = Target(v)
        BY <1>4, <4>1 DEF Target
      <4>3. WriterWalk(v)
        BY DEF StoreInv
      <4>4. (Wanted(op[v].id))' <=> Wanted(op[v].id)
        BY <1>10, <4>1
      <4>5. QED
        BY <4>1, <4>2, <4>3, <4>4 DEF WriterWalk, Held, Arrived
    <3>3. QED
      BY <3>1, <3>2
  <2>7. \A v \in Writers : /\ Pushed(v) => Pushed(v)' /\ op'[v].id = op[v].id
                           /\ op'[v].pc = "set" => op[v].pc = "set" /\ op'[v] = op[v]
                           /\ op[v].pc = "set" => op'[v] = op[v]
    BY <1>1, <1>9, <2>3 DEF Pushed, id
  <2>8. EntryInv'
    <3>1. ASSUME NEW x, NEW e, EntryOf(x, e)
          PROVE  EntryOf(x, e)'
      <4>1. ListOf(x, e)' <=> ListOf(x, e)
        BY <1>1, SameList
      <4>2. QED
        BY <1>1, <1>10, <2>7, <3>1, <4>1 DEF EntryOf
    <3>2. QED
      BY <1>1, <1>7, <3>1 DEF StoreInv, EntryInv
  <2>9. OnceInv'
    BY <1>1 DEF StoreInv, OnceInv
  <2>10. PushInv'
    BY <1>1, <2>1, <2>7 DEF StoreInv, PushInv, PushOf
  <2>11. OnInv'
    <3>1. \A i : On(i) => On(i)'
      BY <1>1, SameList DEF On
    <3>2. ASSUME NEW v \in Writers, Pushed(v)', NEW i, i = op'[v].id, Wanted(i)
          PROVE  On(i)'
      <4>1. CASE v = w
        <5>1. i = id /\ op[w].pc = "append"
          BY <1>1, <1>3, <1>5, <1>12, <2>3, <3>2, <4>1
        <5>2. Pushed(w) /\ Wanted(op[w].id)
          BY <3>2, <5>1 DEF Pushed, id
        <5>3. On(i)
          BY <5>1, <5>2 DEF StoreInv, OnInv, id
        <5>4. QED
          BY <3>1, <5>3
      <4>2. CASE v # w
        <5>1. Pushed(v) /\ i = op[v].id
          BY <1>9, <3>2, <4>2 DEF Pushed
        <5>2. QED
          BY <3>1, <3>2, <5>1 DEF StoreInv, OnInv
      <4>3. QED
        BY <4>1, <4>2
    <3>3. ASSUME NEW i \in 0..(current_read_id' - 1), Wanted(i)'
          PROVE  On(i)'
      BY <1>1, <1>10, <3>1, <3>3 DEF StoreInv, OnInv
    <3>4. ASSUME NEW v \in Writers, Pushed(v)', (Wanted(op[v].id))'
          PROVE  (On(op[v].id))'
      BY <1>10, <3>2, <3>4
    <3>5. QED
      BY <3>3, <3>4 DEF OnInv
  <2>12. QED
    BY <1>1, <1>7, <1>8, <2>4, <2>5, <2>6, <2>8, <2>9, <2>10, <2>11 DEF StoreInv, ViewInv
<1>13. QED
  BY <1>1, <1>11, <1>12

\* The id is published.
LEMMA EndStore ==
  ASSUME IndexInv, StoreInv, NEW w \in Writers, End(w)
  PROVE  /\ IndexInv' /\ StoreInv' /\ Reachable' = Reachable
         /\ current_read_id' = current_read_id + 1
         /\ \A u \in Threads : u # w => walk'[u] = walk[u]
<1>1. /\ op[w].pc = "end" /\ current_read_id = op[w].id /\ current_read_id' = current_read_id + 1
      /\ op' = [op EXCEPT ![w] = NoInsert]
      /\ walk' = [walk EXCEPT ![w] = [path |-> <<>>, node |-> Root, item |-> Null]]
      /\ length' = length /\ idx' = idx /\ live' = live /\ view' = view
      /\ current_write_id' = current_write_id /\ records' = records
      /\ lists' = lists /\ claimed' = claimed
  BY DEF End, NoWalk
<1>2. /\ op'[w] = NoInsert
      /\ \A v \in Writers : v # w => op'[v] = op[v]
      /\ op' = [v \in Writers |-> op'[v]]
  BY <1>1, OpUpdate DEF StoreInv
<1>3. op'[w].pc = "idle"
  BY <1>2 DEF NoInsert
<1>4. /\ Held(w) /\ w \in Threads /\ Arrived(w)
      /\ op[w].id \in current_read_id..(current_write_id - 1)
      /\ current_read_id \in Nat /\ current_write_id \in 0..MaxId
  BY <1>1, ThreadAssumption, NumberAssumption DEF StoreInv, IdInv, Held, WriterWalk
<1>5. IndexInv' /\ Reachable' = Reachable /\ walk'[w] = [path |-> <<>>, node |-> Root, item |-> Null]
  <2>1. walk[w].item = Null /\ Root \in Reachable /\ <<>> \in Seq(Nat)
    BY <1>4, AtRest DEF Reachable
  <2>2. QED
    BY <1>1, <1>4, <2>1, EnterIndex
<1>6. \A u \in Threads : u # w => walk'[u] = walk[u]
  BY <1>1 DEF IndexInv
<1>7. \A a : Key(a)' = Key(a) /\ Short(a)' = Short(a)
  BY <1>1, SamePaths
<1>8. ASSUME NEW v \in Writers, v # w
      PROVE  /\ op'[v] = op[v] /\ walk'[v] = walk[v]
             /\ AtList(v)' <=> AtList(v)
             /\ Held(v)' <=> Held(v)
             /\ Held(v) => op[v].id \in current_read_id'..(current_write_id' - 1)
  <2>1. op'[v] = op[v] /\ walk'[v] = walk[v]
    BY <1>2, <1>6, <1>8, ThreadAssumption
  <2>2. Held(v) => op[v].id # current_read_id /\ op[v].id \in current_read_id..(current_write_id - 1)
    BY <1>1, <1>4, <1>8 DEF StoreInv, IdInv
  <2>3. QED
    BY <1>1, <1>4, <2>1, <2>2 DEF AtList, Held
<1>9. \A i : Wanted(i)' <=> Wanted(i)
  BY <1>1 DEF Wanted
<1>10. ~Held(w)' /\ ~Pushed(w)'
  BY <1>3 DEF Held, Pushed
<1>11. IdInv'
  <2>1. ASSUME NEW v \in Writers
        PROVE  /\ op'[v] = [pc |-> op'[v].pc, id |-> op'[v].id, rec |-> op'[v].rec, place |-> op'[v].place]
               /\ op'[v].pc \in InsertPcs
               /\ Held(v)' => /\ op'[v].id \in current_read_id'..(current_write_id' - 1)
                              /\ op'[v].rec = claimed'[op'[v].id + 1]
    <3>1. CASE v = w
      <4>1. op'[w] = [pc |-> "idle", id |-> 0, rec |-> Null, place |-> 0]
        BY <1>2 DEF NoInsert
      <4>2. QED
        BY <1>10, <3>1, <4>1 DEF InsertPcs
    <3>2. CASE v # w
      <4>1. /\ op[v] = [pc |-> op[v].pc, id |-> op[v].id, rec |-> op[v].rec, place |-> op[v].place]
            /\ op[v].pc \in InsertPcs
            /\ Held(v) => op[v].rec = claimed[op[v].id + 1]
        BY DEF StoreInv, IdInv
      <4>2. op'[v] = op[v]
        BY <1>8, <3>2
      <4>3. QED
        BY <1>1, <1>8, <3>2, <4>1, <4>2
    <3>3. QED
      BY <3>1, <3>2
  <2>2. ASSUME NEW u \in Writers, NEW v \in Writers, Held(u)', Held(v)', op'[u].id = op'[v].id
        PROVE  u = v
    <3>1. u # w /\ v # w
      BY <1>10, <2>2
    <3>2. QED
      BY <1>8, <2>2, <3>1 DEF StoreInv, IdInv
  <2>3. ASSUME NEW i \in current_read_id'..(current_write_id' - 1)
        PROVE  \E v \in Writers : Held(v)' /\ op'[v].id = i
    <3>1. i \in current_read_id..(current_write_id - 1) /\ i # current_read_id
      BY <1>1, <1>4
    <3>2. PICK v \in Writers : Held(v) /\ op[v].id = i
      BY <3>1 DEF StoreInv, IdInv
    <3>3. v # w
      BY <1>1, <3>1, <3>2
    <3>4. QED
      BY <1>8, <3>2, <3>3
  <2>4. current_read_id' \in 0..current_write_id'
    BY <1>1, <1>4
  <2>5. QED
    BY <1>1, <1>2, <2>1, <2>2, <2>3, <2>4 DEF StoreInv, IdInv
<1>12. RecordInv'
  <2>1. ASSUME NEW v \in Writers
        PROVE  /\ op'[v].pc = "end" => op'[v].id \in DOMAIN records
               /\ op'[v].pc = "append" => view = "token"
               /\ op'[v].pc = "set" => AtList(v)'
               /\ op'[v].pc \in {"get", "set"} /\ AtList(v)' => (Wanted(op[v].id))'
    <3>1. CASE v = w
      BY <1>3, <3>1
    <3>2. CASE v # w
      <4>1. op'[v] = op[v] /\ (AtList(v)' <=> AtList(v)) /\ ((Wanted(op[v].id))' <=> Wanted(op[v].id))
        BY <1>8, <1>9, <3>2
      <4>2. QED
        BY <4>1 DEF StoreInv, RecordInv
    <3>3. QED
      BY <3>1, <3>2
  <2>2. ASSUME NEW i \in 0..(current_read_id' - 1)
        PROVE  i \in DOMAIN records
    <3>1. current_read_id \in DOMAIN records
      BY <1>1 DEF StoreInv, RecordInv
    <3>2. i = current_read_id \/ i \in 0..(current_read_id - 1)
      BY <1>1, <1>4
    <3>3. QED
      BY <3>1, <3>2 DEF StoreInv, RecordInv
  <2>3. QED
    BY <1>1, <2>1, <2>2 DEF StoreInv, RecordInv
<1>13. ASSUME NEW v \in Writers
       PROVE  WriterWalk(v)'
  <2>1. CASE v = w
    BY <1>5, <1>10, <2>1 DEF WriterWalk, Arrived
  <2>2. CASE v # w
    <3>1. walk'[v] = walk[v] /\ op'[v] = op[v] /\ (AtList(v)' <=> AtList(v)) /\ (Held(v)' <=> Held(v))
      BY <1>8, <2>2
    <3>2. Target(v)' = Target(v) /\ ((Wanted(op[v].id))' <=> Wanted(op[v].id))
      BY <1>7, <1>9, <3>1 DEF Target
    <3>3. WriterWalk(v)
      BY DEF StoreInv
    <3>4. QED
      BY <3>1, <3>2, <3>3 DEF WriterWalk, Arrived
  <2>3. QED
    BY <2>1, <2>2
<1>14. EntryInv'
  <2>1. ASSUME NEW x, NEW e, EntryOf(x, e)
        PROVE  EntryOf(x, e)'
    <3>1. ListOf(x, e)' <=> ListOf(x, e)
      BY <1>1, SameList
    <3>2. e < current_read_id' \/ \E v \in Writers : Pushed(v)' /\ op'[v].id = e
      <4>1. CASE e < current_read_id \/ e = current_read_id
        BY <1>1, <1>4, <2>1, <4>1 DEF EntryOf
      <4>2. CASE ~(e < current_read_id \/ e = current_read_id)
        <5>1. PICK v \in Writers : Pushed(v) /\ op[v].id = e
          BY <2>1, <4>2 DEF EntryOf
        <5>2. v # w
          BY <1>1, <4>2, <5>1
        <5>3. op'[v] = op[v]
          BY <1>8, <5>2
        <5>4. QED
          BY <5>1, <5>3 DEF Pushed
      <4>3. QED
        BY <4>1, <4>2
    <3>3. QED
      BY <1>1, <1>9, <2>1, <3>1, <3>2 DEF EntryOf
  <2>2. QED
    BY <1>1, <1>5, <2>1 DEF StoreInv, EntryInv
<1>15. OnceInv'
  BY <1>1 DEF StoreInv, OnceInv
<1>16. PushInv'
  <2>1. \A v \in Writers : /\ op'[v].pc = "set" => op[v].pc = "set"
                           /\ op[v].pc = "set" => op'[v] = op[v] /\ walk'[v] = walk[v]
    BY <1>1, <1>3, <1>8
  <2>2. QED
    BY <1>1, <2>1 DEF StoreInv, PushInv, PushOf
<1>17. OnInv'
  <2>1. \A i : On(i) => On(i)'
    BY <1>1, SameList DEF On
  <2>2. ASSUME NEW i \in 0..(current_read_id' - 1), Wanted(i)'
        PROVE  On(i)'
    <3>1. CASE i = current_read_id
      <4>1. Pushed(w) /\ Wanted(op[w].id)
        BY <1>1, <1>9, <2>2, <3>1 DEF Pushed
      <4>2. On(op[w].id)
        BY <4>1 DEF StoreInv, OnInv
      <4>3. On(i)
        BY <1>1, <3>1, <4>2
      <4>4. QED
        BY <2>1, <4>3
    <3>2. CASE i # current_read_id
      <4>1. i \in 0..(current_read_id - 1) /\ Wanted(i)
        BY <1>1, <1>4, <1>9, <2>2, <3>2
      <4>2. QED
        BY <2>1, <4>1 DEF StoreInv, OnInv
    <3>3. QED
      BY <3>1, <3>2
  <2>3. ASSUME NEW v \in Writers, Pushed(v)', (Wanted(op[v].id))'
        PROVE  (On(op[v].id))'
    <3>1. v # w
      BY <1>10, <2>3
    <3>2. op'[v] = op[v]
      BY <1>8, <3>1
    <3>3. Pushed(v) /\ Wanted(op[v].id)
      BY <1>9, <2>3, <3>2 DEF Pushed
    <3>4. On(op[v].id)
      BY <3>3 DEF StoreInv, OnInv
    <3>5. QED
      BY <2>1, <3>2, <3>4
  <2>4. QED
    BY <2>2, <2>3 DEF OnInv
<1>18. QED
  BY <1>1, <1>5, <1>6, <1>11, <1>12, <1>13, <1>14, <1>15, <1>16, <1>17 DEF StoreInv, ViewInv

-----------------------------------------------------------------------------
(* What the steps of other threads leave of what a query relies on         *)

\* Lists only grow: an entry that is set stays, and a new one is not published.
ListsGrow ==
  /\ \A l \in DOMAIN lists :
       /\ l \in DOMAIN lists' /\ Len(lists[l]) <= Len(lists'[l])
       /\ \A j \in 1..Len(lists[l]) : lists[l][j] # Unset => lists'[l][j] = lists[l][j]
  /\ \A l \in DOMAIN lists' : \A j \in 1..Len(lists'[l]) :
       \/ lists'[l][j] = Unset
       \/ lists'[l][j] >= current_read_id
       \/ l \in DOMAIN lists /\ j \in 1..Len(lists[l]) /\ lists[l][j] = lists'[l][j]

Steady(r) ==
  /\ view' = view /\ length' = length
  /\ Reachable \subseteq Reachable' /\ walk'[r] = walk[r]
  /\ current_read_id <= current_read_id' /\ current_write_id <= current_write_id'
  /\ \A i \in 1..Len(claimed) : claimed'[i] = claimed[i]
  /\ ListsGrow
  /\ q'[r] = q[r] \/ q'[r] = [q[r] EXCEPT !.quiet = FALSE]
  /\ q'[r].quiet /\ ~Changing =>
       /\ ~Changing'
       /\ current_write_id' = current_write_id /\ Reachable' = Reachable /\ lists' = lists

\* The lists stay as they are.
LEMMA SameLists ==
  ASSUME StoreInv, lists' = lists
  PROVE  ListsGrow
<1>1. \A l \in DOMAIN lists : Len(lists[l]) \in Nat
  BY LenProperties DEF StoreInv, EntryInv
<1>2. QED
  BY <1>1 DEF ListsGrow

\* An insertion disturbs the queries, or leaves them alone.
LEMMA InsertSteady ==
  ASSUME IndexInv, StoreInv, QueryInv, NEW w \in Writers, Insert(w)
  PROVE  /\ IndexInv' /\ StoreInv' /\ q' = [r \in Readers |-> q'[r]]
         /\ \A r \in Readers : Steady(r)
<1>0. /\ current_read_id \in Nat /\ current_write_id \in Nat
      /\ \A l \in DOMAIN lists : Len(lists[l]) \in Nat
      /\ \A r \in Readers : r \in Threads /\ r # w
  BY NumberAssumption, ThreadAssumption, LenProperties DEF StoreInv, IdInv, EntryInv
<1>1. op[w].pc # "idle" => Changing
  BY DEF Changing
<1>2. CASE Claim(w)
  <2>1. /\ IndexInv' /\ StoreInv' /\ Reachable' = Reachable /\ length' = length
        /\ \A u \in Threads : u # w => walk'[u] = walk[u]
        /\ \A i \in 1..Len(claimed) : claimed'[i] = claimed[i]
        /\ current_write_id' = current_write_id + 1
    BY <1>2, ClaimStore
  <2>2. /\ view' = view /\ current_read_id' = current_read_id /\ lists' = lists
        /\ q' = [r \in Readers |-> [q[r] EXCEPT !.quiet = FALSE]]
    BY <1>2 DEF Claim, Disturb
  <2>3. ASSUME NEW r \in Readers
        PROVE  q'[r] = [q[r] EXCEPT !.quiet = FALSE] /\ ~q'[r].quiet
    <3>1. q'[r] = [q[r] EXCEPT !.quiet = FALSE]
      BY <2>2
    <3>2. DOMAIN q[r] = QueryFields
      BY DEF QueryInv, QueryOf, QueryType
    <3>3. QED
      BY <3>1, <3>2 DEF QueryFields
  <2>4. ListsGrow
    BY <2>2, SameLists
  <2>5. q' = [r \in Readers |-> q'[r]]
    BY <2>2
  <2>6. ASSUME NEW r \in Readers
        PROVE  Steady(r)
    <3>1. current_read_id <= current_read_id' /\ current_write_id <= current_write_id'
      BY <1>0, <2>1, <2>2
    <3>2. QED
      BY <1>0, <2>1, <2>2, <2>3, <2>4, <3>1 DEF Steady
  <2>7. QED
    BY <2>1, <2>5, <2>6
<1>3. CASE Get(w)
  <2>1. /\ IndexInv' /\ StoreInv' /\ Reachable \subseteq Reachable' /\ length' = length
        /\ \A u \in Threads : u # w => walk'[u] = walk[u]
    BY <1>3, GetStore
  <2>2. /\ view' = view /\ current_read_id' = current_read_id /\ lists' = lists
        /\ current_write_id' = current_write_id /\ claimed' = claimed /\ q' = q
        /\ op[w].pc = "get"
    BY <1>3 DEF Get, store_vars
  <2>3. ListsGrow
    BY <2>2, SameLists
  <2>4. QED
    BY <1>0, <1>1, <2>1, <2>2, <2>3 DEF Steady, QueryInv
<1>4. CASE Reserve(w)
  <2>1. /\ IndexInv' /\ StoreInv'
        /\ \A l \in DOMAIN lists :
             /\ l \in DOMAIN lists' /\ Len(lists[l]) <= Len(lists'[l])
             /\ \A j \in 1..Len(lists[l]) : lists'[l][j] = lists[l][j]
        /\ \A l \in DOMAIN lists' : \A j \in 1..Len(lists'[l]) :
             lists'[l][j] # Unset => l \in DOMAIN lists /\ j \in 1..Len(lists[l])
    BY <1>4, ReserveStore
  <2>2. /\ view' = view /\ current_read_id' = current_read_id /\ idx' = idx /\ walk' = walk
        /\ current_write_id' = current_write_id /\ claimed' = claimed /\ q' = q
        /\ op[w].pc = "get" /\ length' = length
    BY <1>4 DEF Reserve, index_vars
  <2>3. Reachable' = Reachable
    BY <2>2 DEF Reachable
  <2>4. ListsGrow
    BY <2>1 DEF ListsGrow
  <2>5. QED
    BY <1>0, <1>1, <2>1, <2>2, <2>3, <2>4 DEF Steady, QueryInv
<1>5. CASE SetEntry(w)
  <2>1. /\ IndexInv' /\ StoreInv'
        /\ DOMAIN lists' = DOMAIN lists
        /\ \A l \in DOMAIN lists :
             /\ Len(lists'[l]) = Len(lists[l])
             /\ \A j \in 1..Len(lists[l]) :
                  /\ lists[l][j] # Unset => lists'[l][j] = lists[l][j]
                  /\ lists[l][j] = Unset => lists'[l][j] \in {Unset, op[w].id}
    BY <1>5, SetEntryStore
  <2>2. /\ view' = view /\ current_read_id' = current_read_id /\ idx' = idx /\ walk' = walk
        /\ current_write_id' = current_write_id /\ claimed' = claimed /\ q' = q
        /\ op[w].pc = "set" /\ length' = length
    BY <1>5 DEF SetEntry, index_vars
  <2>3. Reachable' = Reachable
    BY <2>2 DEF Reachable
  <2>4. op[w].id >= current_read_id
    BY <1>0, <2>2 DEF StoreInv, IdInv, Held
  <2>5. ListsGrow
    <3>1. ASSUME NEW l \in DOMAIN lists', NEW j \in 1..Len(lists'[l])
          PROVE  \/ lists'[l][j] = Unset
                 \/ lists'[l][j] >= current_read_id
                 \/ l \in DOMAIN lists /\ j \in 1..Len(lists[l]) /\ lists[l][j] = lists'[l][j]
      BY <2>1, <2>4
    <3>2. \A l \in DOMAIN lists :
            /\ l \in DOMAIN lists' /\ Len(lists[l]) <= Len(lists'[l])
            /\ \A j \in 1..Len(lists[l]) : lists[l][j] # Unset => lists'[l][j] = lists[l][j]
      BY <1>0, <2>1
    <3>3. QED
      BY <3>1, <3>2 DEF ListsGrow
  <2>6. QED
    BY <1>0, <1>1, <2>1, <2>2, <2>3, <2>5 DEF Steady, QueryInv
<1>6. CASE AppendRecord(w)
  <2>1. /\ IndexInv' /\ StoreInv' /\ Reachable' = Reachable
        /\ \A u \in Threads : u # w => walk'[u] = walk[u]
    BY <1>6, AppendRecordStore
  <2>2. /\ view' = view /\ current_read_id' = current_read_id /\ lists' = lists
        /\ current_write_id' = current_write_id /\ claimed' = claimed /\ q' = q
        /\ op[w].pc # "idle" /\ length' = length
    BY <1>6 DEF AppendRecord
  <2>3. ListsGrow
    BY <2>2, SameLists
  <2>4. QED
    BY <1>0, <1>1, <2>1, <2>2, <2>3 DEF Steady, QueryInv
<1>7. CASE End(w)
  <2>1. /\ IndexInv' /\ StoreInv' /\ Reachable' = Reachable
        /\ current_read_id' = current_read_id + 1
        /\ \A u \in Threads : u # w => walk'[u] = walk[u]
    BY <1>7, EndStore
  <2>2. /\ view' = view /\ lists' = lists
        /\ current_write_id' = current_write_id /\ claimed' = claimed /\ q' = q
        /\ op[w].pc # "idle" /\ length' = length
    BY <1>7 DEF End
  <2>3. ListsGrow
    BY <2>2, SameLists
  <2>4. QED
    BY <1>0, <1>1, <2>1, <2>2, <2>3 DEF Steady, QueryInv
<1>8. QED
  BY <1>2, <1>3, <1>4, <1>5, <1>6, <1>7 DEF Insert

\* What Steady keeps of a query's fields.
LEMMA SteadyFields ==
  ASSUME QueryInv, NEW r \in Readers, Steady(r)
  PROVE  /\ q'[r].pc = q[r].pc /\ q'[r].plan = q[r].plan /\ q'[r].max_rid = q[r].max_rid
         /\ q'[r].tok = q[r].tok /\ q'[r].idx = q[r].idx /\ q'[r].list = q[r].list
         /\ q'[r].first = q[r].first /\ q'[r].hole = q[r].hole /\ q'[r].count = q[r].count
         /\ q'[r].results = q[r].results /\ q'[r].asked = q[r].asked
         /\ DOMAIN q'[r] = QueryFields
         /\ q'[r].quiet \in BOOLEAN /\ (q'[r].quiet => q[r].quiet)
<1>1. DOMAIN q[r] = QueryFields /\ q[r].quiet \in BOOLEAN
  BY DEF QueryInv, QueryOf, QueryType
<1>2. CASE q'[r] = q[r]
  BY <1>1, <1>2
<1>3. CASE q'[r] = [q[r] EXCEPT !.quiet = FALSE]
  BY <1>1, <1>3 DEF QueryFields
<1>4. QED
  BY <1>2, <1>3 DEF Steady

\* The ids a clause asks for below a bound that is already claimed.
LEMMA SameMatching ==
  ASSUME IdInv, view' = view, \A i \in 1..Len(claimed) : claimed'[i] = claimed[i],
         NEW c, NEW b \in 0..current_write_id
  PROVE  /\ Matching(c, b)' = Matching(c, b)
         /\ Matching(c, b) \subseteq 0..(b - 1)
         /\ \A id \in Matching(c, b) : claimed'[id + 1] = claimed[id + 1]
<1>1. Len(claimed) = current_write_id /\ current_write_id \in Nat
  BY NumberAssumption DEF IdInv
<1>2. \A id \in 0..(b - 1) : claimed'[id + 1] = claimed[id + 1]
  BY <1>1
<1>3. QED
  BY <1>2 DEF Matching

\* What a query seeks is published, wanted, and on the list of its key.
LEMMA SoughtOn ==
  ASSUME IndexInv, StoreInv, NEW c, NEW b \in 0..current_read_id, NEW id \in Matching(c, b)
  PROVE  /\ id \in 0..(current_read_id - 1) /\ id < b /\ id # Unset /\ Wanted(id)
         /\ claimed[id + 1].tok \in Nat /\ claimed[id + 1].tok \in c.lo..c.hi
         /\ \E l \in DOMAIN lists :
              /\ l \in Reachable /\ ListOf(l, id)
              /\ at(KeyPath(claimed[id + 1].tok)) = l
              /\ \E j \in 1..Len(lists[l]) : lists[l][j] = id
<1>1. /\ current_read_id \in 0..current_write_id /\ current_write_id \in Nat
      /\ claimed \in Seq(Records) /\ Len(claimed) = current_write_id
  BY NumberAssumption DEF StoreInv, IdInv
<1>2. /\ id \in 0..(b - 1) /\ claimed[id + 1].tok \in c.lo..c.hi
      /\ c.pf \/ view = "char" => claimed[id + 1].hit
  BY DEF Matching
<1>3. id \in 0..(current_read_id - 1) /\ id < b /\ id + 1 \in 1..Len(claimed) /\ id \in Nat
  BY <1>1, <1>2
<1>4. claimed[id + 1] \in Records
  BY <1>1, <1>3, ElementOfSeq
<1>5. claimed[id + 1].tok \in Nat
  BY <1>4, RecordAssumption
<1>6. Wanted(id)
  BY <1>2 DEF Wanted, StoreInv, ViewInv
<1>7. On(id)
  BY <1>3, <1>6 DEF StoreInv, OnInv
<1>8. PICK l \in DOMAIN lists : ListOf(l, id) /\ \E j \in 1..Len(lists[l]) : lists[l][j] = id
  BY <1>7 DEF On
<1>9. l \in Reachable
  BY DEF StoreInv, EntryInv
<1>10. at(KeyPath(claimed[id + 1].tok)) = l
  BY <1>5, <1>8, <1>9, AtKey DEF ListOf, StoreInv
<1>11. id # Unset
  BY <1>3, UnsetEntry
<1>12. QED
  BY <1>2, <1>3, <1>5, <1>6, <1>8, <1>9, <1>10, <1>11

\* The entries of the list a query is at.
LEMMA SteadyEntries ==
  ASSUME IndexInv, StoreInv, IndexInv', StoreInv', ListsGrow, NEW l
  PROVE  /\ Size(l) \in Nat /\ Size(l)' \in Nat /\ Size(l) <= Size(l)'
         /\ Entries(l) \in Seq(Nat \cup {Unset}) /\ Size(l) = Len(Entries(l))
         /\ \A j \in 1..Size(l) : Entries(l)[j] # Unset => Entries(l)'[j] = Entries(l)[j]
         /\ \A j \in 1..Size(l)' :
              \/ Entries(l)'[j] = Unset
              \/ Entries(l)'[j] >= current_read_id
              \/ j \in 1..Size(l) /\ Entries(l)[j] = Entries(l)'[j]
<1>1. /\ \A x \in DOMAIN lists : lists[x] \in Seq(Nat \cup {Unset}) /\ Len(lists[x]) \in Nat
      /\ \A x \in DOMAIN lists' : lists'[x] \in Seq(Nat \cup {Unset}) /\ Len(lists'[x]) \in Nat
  BY LenProperties DEF StoreInv, EntryInv
<1>2. CASE l \in DOMAIN lists
  <2>1. l \in DOMAIN lists'
    BY <1>2 DEF ListsGrow
  <2>2. Entries(l) = lists[l] /\ Entries(l)' = lists'[l] /\ Size(l) = Len(lists[l]) /\ Size(l)' = Len(lists'[l])
    BY <1>2, <2>1 DEF Entries, Size
  <2>3. QED
    BY <1>1, <1>2, <2>1, <2>2 DEF ListsGrow, Size
<1>3. CASE l \notin DOMAIN lists
  <2>1. Entries(l) = <<>> /\ Size(l) = 0
    BY <1>3 DEF Entries, Size
  <2>2. CASE l \in DOMAIN lists'
    <3>1. Entries(l)' = lists'[l] /\ Size(l)' = Len(lists'[l])
      BY <2>2 DEF Entries, Size
    <3>2. QED
      BY <1>1, <1>3, <2>1, <2>2, <3>1 DEF ListsGrow
  <2>3. CASE l \notin DOMAIN lists'
    <3>1. Entries(l)' = <<>> /\ Size(l)' = 0
      BY <2>3 DEF Entries, Size
    <3>2. QED
      BY <2>1, <3>1
  <2>4. QED
    BY <2>2, <2>3
<1>4. QED
  BY <1>2, <1>3

\* Ids are finitely many.
LEMMA FiniteIds ==
  ASSUME NEW n \in Nat, NEW S, S \subseteq 0..(n - 1)
  PROVE  IsFiniteSet(S) /\ Cardinality(S) \in Nat
<1>1. IsFiniteSet(0..(n - 1))
  BY FS_Interval
<1>2. IsFiniteSet(S)
  BY <1>1, FS_Subset
<1>3. QED
  BY <1>2, FS_CardinalityType

\* A query is where it was after a step of another thread.
LEMMA SteadyQuery ==
  ASSUME IndexInv, StoreInv, QueryInv, IndexInv', StoreInv', NEW r \in Readers, Steady(r)
  PROVE  QueryOf(r)'
<1>1. /\ q'[r].pc = q[r].pc /\ q'[r].plan = q[r].plan /\ q'[r].max_rid = q[r].max_rid
      /\ q'[r].tok = q[r].tok /\ q'[r].idx = q[r].idx /\ q'[r].list = q[r].list
      /\ q'[r].first = q[r].first /\ q'[r].hole = q[r].hole /\ q'[r].count = q[r].count
      /\ q'[r].results = q[r].results /\ q'[r].asked = q[r].asked
      /\ DOMAIN q'[r] = QueryFields
      /\ q'[r].quiet \in BOOLEAN /\ (q'[r].quiet => q[r].quiet)
  BY SteadyFields
<1>2. /\ view' = view /\ length' = length
      /\ Reachable \subseteq Reachable' /\ walk'[r] = walk[r]
      /\ current_read_id <= current_read_id' /\ current_write_id <= current_write_id'
      /\ \A i \in 1..Len(claimed) : claimed'[i] = claimed[i]
      /\ ListsGrow
      /\ q'[r].quiet /\ ~Changing =>
           /\ ~Changing'
           /\ current_write_id' = current_write_id /\ Reachable' = Reachable /\ lists' = lists
  BY DEF Steady
<1>3. /\ current_read_id \in Nat /\ current_write_id \in Nat /\ current_read_id <= current_write_id
      /\ current_read_id' \in Nat /\ current_write_id' \in Nat
      /\ Len(claimed) = current_write_id
  BY NumberAssumption DEF StoreInv, IdInv
<1>4. /\ QueryType(r) /\ PlanOf(r) /\ KeyOf(r) /\ FoundOf(r) /\ SeenOf(r) /\ QuietOf(r) /\ CountOf(r)
      /\ q[r].max_rid \in 0..current_read_id
  BY DEF QueryInv, QueryOf, QueryType
<1>5. q[r].max_rid \in 0..current_write_id
  BY <1>3, <1>4
<1>6. ASSUME NEW c
      PROVE  /\ (Matching(c, q[r].max_rid))' = Matching(c, q[r].max_rid)
             /\ \A id \in Matching(c, q[r].max_rid) : claimed'[id + 1] = claimed[id + 1]
  <2>1. PICK k \in 0..current_write_id : k = q[r].max_rid
    BY <1>5
  <2>2. Matching(c, k)' = Matching(c, k) /\ \A id \in Matching(c, k) : claimed'[id + 1] = claimed[id + 1]
    BY <1>2, SameMatching DEF StoreInv
  <2>3. QED
    BY <1>1, <2>1, <2>2
<1>7. Clause(r)' = Clause(r)
  BY <1>1 DEF Clause
<1>8. /\ Sought(r)' = Sought(r) /\ Behind(r)' = Behind(r) /\ Here(r)' = Here(r)
  <2>1. Sought(r)' = Sought(r) /\ \A id \in Sought(r) : claimed'[id + 1] = claimed[id + 1]
    BY <1>6, <1>7 DEF Sought
  <2>2. QED
    BY <1>1, <2>1 DEF Behind, Here
<1>9. \A a : Key(a)' = Key(a)
  BY <1>2, SamePaths
<1>10. QueryType(r)'
  <2>1. q'[r].max_rid \in 0..current_read_id'
    BY <1>1, <1>2, <1>3, <1>4
  <2>2. q'[r].list \in Reachable' \cup {Null}
    BY <1>1, <1>2, <1>4 DEF QueryType
  <2>3. QED
    BY <1>1, <1>4, <2>1, <2>2 DEF QueryType
<1>11. PlanOf(r)'
  <2>1. \A i \in 1..Len(q[r].asked) :
          (Matching(q[r].asked[i], q[r].max_rid))' = Matching(q[r].asked[i], q[r].max_rid)
    <3>1. TAKE i \in 1..Len(q[r].asked)
    <3>2. PICK c : c = q[r].asked[i]
      OBVIOUS
    <3>3. (Matching(c, q[r].max_rid))' = Matching(c, q[r].max_rid)
      BY <1>6
    <3>4. QED
      BY <1>1, <3>2, <3>3
  <2>2. QED
    BY <1>1, <1>4, <2>1 DEF PlanOf
<1>12. KeyOf(r)'
  BY <1>1, <1>4, <1>7, <1>8, <1>9 DEF KeyOf
<1>13. /\ Size(q[r].list) \in Nat /\ (Size(q[r].list))' \in Nat
       /\ Size(q[r].list) <= (Size(q[r].list))'
       /\ \A j \in 1..Size(q[r].list) : Entries(q[r].list)[j] # Unset =>
            (Entries(q[r].list))'[j] = Entries(q[r].list)[j]
       /\ \A j \in 1..(Size(q[r].list))' :
            \/ (Entries(q[r].list))'[j] = Unset
            \/ (Entries(q[r].list))'[j] >= current_read_id
            \/ j \in 1..Size(q[r].list) /\ Entries(q[r].list)[j] = (Entries(q[r].list))'[j]
  <2>1. PICK l : l = q[r].list
    OBVIOUS
  <2>2. /\ Size(l) \in Nat /\ Size(l)' \in Nat /\ Size(l) <= Size(l)'
        /\ \A j \in 1..Size(l) : Entries(l)[j] # Unset => Entries(l)'[j] = Entries(l)[j]
        /\ \A j \in 1..Size(l)' :
             \/ Entries(l)'[j] = Unset
             \/ Entries(l)'[j] >= current_read_id
             \/ j \in 1..Size(l) /\ Entries(l)[j] = Entries(l)'[j]
    BY <1>2, SteadyEntries
  <2>3. QED
    BY <1>1, <2>1, <2>2
<1>14. ASSUME NEW n, Passed(r, n)
       PROVE  Passed(r, n)'
  <2>1. SUFFICES ASSUME NEW j \in 1..(Size(q[r].list))', NEW e, e = (Entries(q[r].list))'[j],
                        j <= n, e \in Sought(r)
                 PROVE  e \in q[r].results
    BY <1>1, <1>8 DEF Passed
  <2>2. e # Unset /\ e \in 0..(current_read_id - 1)
    <3>1. PICK c : c = Clause(r)
      OBVIOUS
    <3>2. PICK b \in 0..current_read_id : b = q[r].max_rid
      BY <1>4
    <3>3. e \in Matching(c, b)
      BY <2>1, <3>1, <3>2 DEF Sought
    <3>4. QED
      BY <3>3, SoughtOn
  <2>3. ~(e >= current_read_id)
    BY <1>3, <2>2
  <2>4. j \in 1..Size(q[r].list) /\ Entries(q[r].list)[j] = e
    BY <1>13, <2>1, <2>2, <2>3
  <2>5. QED
    BY <1>14, <2>1, <2>4 DEF Passed
<1>15. FoundOf(r)'
  <2>1. ASSUME q[r].pc = "advance"
        PROVE  (Passed(r, q[r].idx + 1))'
    <3>1. PICK n : n = q[r].idx + 1
      OBVIOUS
    <3>2. Passed(r, n)
      BY <1>4, <2>1, <3>1 DEF FoundOf, Active
    <3>3. Passed(r, n)'
      BY <1>14, <3>2
    <3>4. QED
      BY <1>1, <3>1, <3>3
  <2>2. ASSUME q[r].pc \in {"check", "apply", "deref"}
        PROVE  (Passed(r, q[r].idx))'
    <3>1. PICK n : n = q[r].idx
      OBVIOUS
    <3>2. Passed(r, n)
      BY <1>4, <2>2, <3>1 DEF FoundOf, Active
    <3>3. Passed(r, n)'
      BY <1>14, <3>2
    <3>4. QED
      BY <1>1, <3>1, <3>3
  <2>3. QED
    BY <1>1, <1>4, <1>8, <2>1, <2>2 DEF FoundOf
<1>16. SeenOf(r)'
  <2>1. ASSUME q[r].pc \in {"apply", "deref"}, ~q[r].first, ~q[r].hole
        PROVE  Seen(r)'
    <3>1. Seen(r)
      BY <1>4, <2>1 DEF SeenOf
    <3>2. q[r].list # Null /\ q[r].idx >= 0 /\ q[r].idx \in Int
      BY <1>4, <2>1 DEF KeyOf, Active, QueryType
    <3>3. PICK e : e = Entries(q[r].list)[q[r].idx + 1]
      OBVIOUS
    <3>4. /\ q[r].idx + 1 \in 1..Size(q[r].list) /\ e # Unset /\ e < q[r].max_rid
          /\ q[r].pc = "deref" /\ Clause(r).pf => claimed[e + 1].hit
      BY <1>13, <3>1, <3>2, <3>3 DEF Seen, IsHole
    <3>5. (Entries(q[r].list))'[q[r].idx + 1] = e
      BY <1>13, <3>3, <3>4
    <3>6. ~(IsHole(q[r].list, q[r].idx))'
      BY <1>1, <1>13, <3>2, <3>4, <3>5 DEF IsHole
    <3>7. e \in Nat
      <4>1. Entries(q[r].list) \in Seq(Nat \cup {Unset}) /\ Len(Entries(q[r].list)) = Size(q[r].list)
        BY DEF Entries, Size, StoreInv, EntryInv
      <4>2. QED
        BY <3>3, <3>4, <4>1, ElementOfSeq
    <3>8. claimed'[e + 1] = claimed[e + 1]
      <4>1. e + 1 \in 1..Len(claimed)
        BY <1>3, <1>4, <3>4, <3>7
      <4>2. QED
        BY <1>2, <4>1
    <3>9. QED
      BY <1>1, <1>7, <3>4, <3>5, <3>6, <3>8 DEF Seen
  <2>2. QED
    BY <1>1, <1>4, <1>7, <2>1 DEF SeenOf
<1>17. Proper(r)' <=> Proper(r)
  BY <1>1, <1>2 DEF Proper, OutOfTable, Path, shape
<1>18. QuietOf(r)'
  <2>1. SUFFICES ASSUME q'[r].quiet
                 PROVE  /\ Proper(r) => q[r].pc # "crash"
                        /\ q[r].pc \in Active \cup {"begin"} =>
                             /\ ~Changing'
                             /\ q[r].max_rid = current_write_id'
                             /\ (\A k \in 1..Len(q[r].plan) : \A t \in q[r].plan[k].lo..q[r].plan[k].hi :
                                   \A l \in Reachable : Leads(l, Key(t)) => Size(l) > 0)'
                        /\ (q[r].pc \in Active /\ Proper(r) /\ q[r].list # Null) =>
                             /\ q[r].pc = "advance" => q[r].idx < (Size(q[r].list))'
                             /\ q[r].pc \in {"check", "apply", "deref"} => q[r].idx < (Size(q[r].list))'
                        /\ q[r].pc \in Active /\ Proper(r) => ~q[r].hole
    BY <1>1, <1>17 DEF QuietOf
  <2>2. q[r].quiet
    BY <1>1, <2>1
  <2>3. Proper(r) => q[r].pc # "crash"
    BY <1>4, <2>2 DEF QuietOf
  <2>4. ASSUME q[r].pc \in Active \cup {"begin"}
        PROVE  /\ ~Changing'
               /\ q[r].max_rid = current_write_id'
               /\ (\A k \in 1..Len(q[r].plan) : \A t \in q[r].plan[k].lo..q[r].plan[k].hi :
                     \A l \in Reachable : Leads(l, Key(t)) => Size(l) > 0)'
    <3>1. /\ ~Changing /\ q[r].max_rid = current_write_id
          /\ \A k \in 1..Len(q[r].plan) : \A t \in q[r].plan[k].lo..q[r].plan[k].hi :
               \A l \in Reachable : Leads(l, Key(t)) => Size(l) > 0
      BY <1>4, <2>2, <2>4 DEF QuietOf
    <3>2. ~Changing' /\ current_write_id' = current_write_id /\ Reachable' = Reachable /\ lists' = lists
      BY <1>2, <2>1, <3>1
    <3>3. \A l : Size(l)' = Size(l)
      BY <3>2 DEF Size, Entries
    <3>4. QED
      BY <1>1, <1>9, <3>1, <3>2, <3>3
  <2>5. ASSUME q[r].pc \in Active, Proper(r), q[r].list # Null
        PROVE  /\ q[r].pc = "advance" => q[r].idx < (Size(q[r].list))'
               /\ q[r].pc \in {"check", "apply", "deref"} => q[r].idx < (Size(q[r].list))'
    <3>1. /\ q[r].pc = "advance" => q[r].idx < Size(q[r].list)
          /\ q[r].pc \in {"check", "apply", "deref"} => q[r].idx < Size(q[r].list)
      BY <1>4, <2>2, <2>5 DEF QuietOf
    <3>2. q[r].idx \in Int
      BY <1>4 DEF QueryType
    <3>3. QED
      BY <1>13, <3>1, <3>2
  <2>6. q[r].pc \in Active /\ Proper(r) => ~q[r].hole
    BY <1>4, <2>2 DEF QuietOf
  <2>7. QED
    BY <2>3, <2>4, <2>5, <2>6
<1>19. CountOf(r)'
  <2>1. ASSUME q[r].pc = "count"
        PROVE  q[r].count <= Cardinality(Counted(r))'
    <3>1. ASSUME NEW id \in Counted(r)
          PROVE  id \in Counted(r)'
      <4>1. /\ id \in 0..(current_write_id - 1)
            /\ claimed[id + 1].tok \in Clause(r).lo..Clause(r).hi
            /\ Clause(r).pf \/ view = "char" => claimed[id + 1].hit
            /\ claimed[id + 1].tok < q[r].tok
        BY DEF Counted, Matching
      <4>2. claimed'[id + 1] = claimed[id + 1] /\ id \in 0..(current_write_id' - 1)
        BY <1>2, <1>3, <4>1
      <4>3. QED
        BY <1>1, <1>2, <1>7, <4>1, <4>2 DEF Counted, Matching
    <3>2. Counted(r)' \subseteq 0..(current_write_id' - 1)
      BY DEF Counted, Matching
    <3>3. PICK S, T : S = Counted(r) /\ T = Counted(r)'
      OBVIOUS
    <3>4. IsFiniteSet(T) /\ S \subseteq T
      BY <1>3, <3>1, <3>2, <3>3, FiniteIds
    <3>5. Cardinality(S) <= Cardinality(T) /\ IsFiniteSet(S)
      BY <3>4, FS_Subset
    <3>6. Cardinality(S) \in Nat /\ Cardinality(T) \in Nat
      BY <3>4, <3>5, FS_CardinalityType
    <3>7. q[r].count <= Cardinality(S) /\ q[r].count \in Nat
      BY <1>4, <2>1, <3>3 DEF CountOf, QueryType
    <3>8. QED
      BY <3>3, <3>5, <3>6, <3>7
  <2>2. QED
    BY <1>1, <1>2, <1>4, <1>7, <1>8, <1>9, <2>1 DEF CountOf, Arrived
<1>20. QED
  BY <1>10, <1>11, <1>12, <1>15, <1>16, <1>18, <1>19 DEF QueryOf

-----------------------------------------------------------------------------
(* The steps of a query                                                    *)

\* A step that changes nothing but queries.
LEMMA StoreStill ==
  ASSUME IndexInv, StoreInv, UNCHANGED <<index_vars, store_vars>>
  PROVE  /\ IndexInv' /\ StoreInv' /\ Reachable' = Reachable /\ walk' = walk
         /\ view' = view /\ length' = length /\ claimed' = claimed /\ op' = op
         /\ current_read_id' = current_read_id /\ current_write_id' = current_write_id
         /\ records' = records /\ lists' = lists
         /\ \A a : Key(a)' = Key(a)
         /\ \A l : Size(l)' = Size(l) /\ Entries(l)' = Entries(l)
         /\ \A l, i : IsHole(l, i)' <=> IsHole(l, i)
         /\ \A c, b : Matching(c, b)' = Matching(c, b)
         /\ \A t : Arrived(t)' <=> Arrived(t)
<1>1. /\ length' = length /\ idx' = idx /\ live' = live /\ walk' = walk
      /\ view' = view /\ claimed' = claimed /\ op' = op
      /\ current_read_id' = current_read_id /\ current_write_id' = current_write_id
      /\ records' = records /\ lists' = lists
  BY DEF index_vars, store_vars
<1>2. Reachable' = Reachable /\ Items' = Items
  BY <1>1 DEF Reachable, Items
<1>3. IndexInv'
  <2>1. SlotInv' /\ \A t \in Threads : WalkOf(t)'
    BY <1>1, <1>2 DEF IndexInv, SlotInv, WalkOf, Fresh
  <2>2. QED
    BY <1>1, <1>2, <2>1 DEF IndexInv
<1>4. StoreInv'
  BY <1>1, <1>2, StoreSame DEF store_vars
<1>5. \A l : Size(l)' = Size(l) /\ Entries(l)' = Entries(l)
  BY <1>1 DEF Size, Entries
<1>6. \A c, b : Matching(c, b)' = Matching(c, b)
  BY <1>1 DEF Matching
<1>7. QED
  BY <1>1, <1>2, <1>3, <1>4, <1>5, <1>6, SamePaths DEF IsHole, Arrived

\* One query goes on, the others stay.
LEMMA QueryUpdate ==
  ASSUME QueryInv, NEW r \in Readers, NEW u, q' = [q EXCEPT ![r] = u]
  PROVE  /\ q'[r] = u
         /\ \A s \in Readers : s # r => q'[s] = q[s]
         /\ q' = [s \in Readers |-> q'[s]]
<1>1. q = [s \in Readers |-> q[s]]
  BY DEF QueryInv
<1>2. QED
  BY <1>1

\* Such a step leaves the other queries alone.
LEMMA OwnStep ==
  ASSUME IndexInv, StoreInv, QueryInv, NEW r \in Readers, NEW u, q' = [q EXCEPT ![r] = u],
         UNCHANGED <<index_vars, store_vars>>, u.pc = "count" => view = "token"
  PROVE  /\ q'[r] = u
         /\ IndexInv' /\ StoreInv' /\ q' = [s \in Readers |-> q'[s]]
         /\ ~Changing => ~Changing'
         /\ \A s \in Readers : s # r => Steady(s)
<1>1. /\ q'[r] = u
      /\ \A s \in Readers : s # r => q'[s] = q[s]
      /\ q' = [s \in Readers |-> q'[s]]
  BY QueryUpdate
<1>2. /\ IndexInv' /\ StoreInv' /\ Reachable' = Reachable /\ walk' = walk
      /\ view' = view /\ length' = length /\ claimed' = claimed /\ op' = op
      /\ current_read_id' = current_read_id /\ current_write_id' = current_write_id
      /\ lists' = lists
  BY StoreStill
<1>3. ~Changing => ~Changing'
  BY <1>1, <1>2 DEF Changing
<1>4. current_read_id \in Nat /\ current_write_id \in Nat
  BY NumberAssumption DEF StoreInv, IdInv
<1>5. ListsGrow
  BY <1>2, SameLists
<1>6. ASSUME NEW s \in Readers, s # r
      PROVE  Steady(s)
  BY <1>1, <1>2, <1>3, <1>4, <1>5, <1>6 DEF Steady
<1>7. QED
  BY <1>1, <1>2, <1>3, <1>6

\* No query: after a return, and before the first one.
LEMMA NoQueryOf ==
  ASSUME IndexInv', StoreInv', NEW r \in Readers, q'[r] = NoQuery, Arrived(r)'
  PROVE  QueryOf(r)'
<1>1. /\ q'[r].pc = "idle" /\ q'[r].plan = <<>> /\ q'[r].max_rid = 0 /\ q'[r].tok = 0
      /\ q'[r].idx = 0 /\ q'[r].list = Null /\ q'[r].first = FALSE /\ q'[r].hole = FALSE
      /\ q'[r].count = 0 /\ q'[r].results = {} /\ q'[r].asked = <<>> /\ q'[r].quiet = FALSE
      /\ DOMAIN q'[r] = QueryFields
  BY DEF NoQuery, QueryFields
<1>2. <<>> \in Seq(Clauses) /\ Len(<<>>) = 0
  OBVIOUS
<1>3. 0 \in 0..current_read_id'
  BY NumberAssumption DEF StoreInv, IdInv
<1>4. QueryType(r)' /\ PlanOf(r)'
  <2>1. PlanOf(r)'
    BY <1>1, <1>2 DEF PlanOf, Active
  <2>2. q'[r].pc \in QueryPcs /\ q'[r].max_rid \in 0..current_read_id'
    BY <1>1, <1>3 DEF QueryPcs
  <2>3. q'[r].first \in BOOLEAN /\ q'[r].hole \in BOOLEAN /\ q'[r].quiet \in BOOLEAN
    BY <1>1
  <2>4. /\ q'[r].tok \in Nat /\ q'[r].idx \in Int /\ q'[r].idx >= -1 /\ q'[r].count \in Nat
        /\ q'[r].list \in Reachable' \cup {Null} /\ q'[r].results \subseteq 0..MaxId \cup Garbage
    BY <1>1
  <2>5. q'[r].plan \in Seq(Clauses) /\ q'[r].asked \in Seq(Clauses)
    BY <1>1, <1>2
  <2>6. QueryType(r)'
    BY <1>1, <2>2, <2>3, <2>4, <2>5 DEF QueryType
  <2>7. QED
    BY <2>1, <2>6
<1>5. KeyOf(r)' /\ FoundOf(r)' /\ SeenOf(r)' /\ QuietOf(r)' /\ CountOf(r)'
  BY <1>1 DEF KeyOf, FoundOf, SeenOf, QuietOf, CountOf, Active
<1>6. QED
  BY <1>4, <1>5 DEF QueryOf

\* The query faults.
LEMMA CrashOf ==
  ASSUME IndexInv', StoreInv', NEW r \in Readers, NEW s, q'[r] = Crash(s), Arrived(r)',
         s.asked \in Seq(Clauses), s.quiet \in BOOLEAN, s.quiet => ~Proper(r)'
  PROVE  QueryOf(r)'
<1>1. /\ q'[r].pc = "crash" /\ q'[r].plan = <<>> /\ q'[r].max_rid = 0 /\ q'[r].tok = 0
      /\ q'[r].idx = 0 /\ q'[r].list = Null /\ q'[r].first = FALSE /\ q'[r].hole = FALSE
      /\ q'[r].count = 0 /\ q'[r].results = {} /\ q'[r].asked = s.asked /\ q'[r].quiet = s.quiet
      /\ DOMAIN q'[r] = QueryFields
  BY DEF NoQuery, Crash, QueryFields
<1>2. <<>> \in Seq(Clauses) /\ Len(<<>>) = 0
  OBVIOUS
<1>3. 0 \in 0..current_read_id'
  BY NumberAssumption DEF StoreInv, IdInv
<1>4. QueryType(r)' /\ PlanOf(r)'
  <2>1. PlanOf(r)'
    BY <1>1, <1>2 DEF PlanOf, Active
  <2>2. q'[r].pc \in QueryPcs /\ q'[r].max_rid \in 0..current_read_id'
    BY <1>1, <1>3 DEF QueryPcs
  <2>3. q'[r].first \in BOOLEAN /\ q'[r].hole \in BOOLEAN /\ q'[r].quiet \in BOOLEAN
    BY <1>1
  <2>4. /\ q'[r].tok \in Nat /\ q'[r].idx \in Int /\ q'[r].idx >= -1 /\ q'[r].count \in Nat
        /\ q'[r].list \in Reachable' \cup {Null} /\ q'[r].results \subseteq 0..MaxId \cup Garbage
    BY <1>1
  <2>5. q'[r].plan \in Seq(Clauses) /\ q'[r].asked \in Seq(Clauses)
    BY <1>1, <1>2
  <2>6. QueryType(r)'
    BY <1>1, <2>2, <2>3, <2>4, <2>5 DEF QueryType
  <2>7. QED
    BY <2>1, <2>6
<1>5. KeyOf(r)' /\ FoundOf(r)' /\ SeenOf(r)' /\ QuietOf(r)' /\ CountOf(r)'
  BY <1>1 DEF KeyOf, FoundOf, SeenOf, QuietOf, CountOf, Active
<1>6. QED
  BY <1>4, <1>5 DEF QueryOf

\* The clause a query is at is one that was asked for.
LEMMA ClauseFacts ==
  ASSUME QueryInv, NEW r \in Readers, q[r].pc \notin {"idle", "crash"}
  PROVE  /\ Clause(r) \in Clauses /\ Clause(r) = q[r].plan[1] /\ Len(q[r].plan) \in Nat \ {0}
         /\ Clause(r).lo \in Nat /\ Clause(r).hi \in Nat /\ Clause(r).pf \in BOOLEAN
         /\ Clause(r).lo <= Clause(r).hi + 1
         /\ Clause(r) \in Range(q[r].asked)
<1>1. q[r].plan \in Seq(Clauses) /\ q[r].plan # <<>> /\ PlanOf(r)
  BY DEF QueryInv, QueryOf, QueryType
<1>2. Clause(r) = q[r].plan[1] /\ Len(q[r].plan) \in Nat \ {0} /\ Clause(r) \in Clauses
  BY <1>1, HeadTailProperties, ElementOfSeq, EmptySeq, LenProperties DEF Clause
<1>3. /\ Clause(r).lo \in Nat /\ Clause(r).hi \in Nat /\ Clause(r).pf \in BOOLEAN
      /\ Clause(r).lo <= Clause(r).hi + 1
  BY <1>2 DEF Clauses
<1>4. PICK i \in 1..Len(q[r].asked) : q[r].plan[1] = q[r].asked[i]
  <2>1. 1 \in 1..Len(q[r].plan)
    BY <1>2
  <2>2. QED
    BY <1>1, <2>1 DEF PlanOf
<1>5. Clause(r) \in Range(q[r].asked)
  <2>1. DOMAIN q[r].asked = 1..Len(q[r].asked)
    BY DEF QueryInv, QueryOf, QueryType
  <2>2. QED
    BY <1>2, <1>4, <2>1 DEF Range
<1>6. QED
  BY <1>2, <1>3, <1>5

\* What a read gives: the entry if it is set, otherwise a fault or garbage.
LEMMA ReadFacts ==
  ASSUME StoreInv, NEW l, NEW i \in Int, NEW v \in Read(l, i)
  PROVE  /\ l # Null /\ i >= 0 /\ ~IsHole(l, i) =>
              /\ i + 1 \in 1..Size(l) /\ v = Entries(l)[i + 1]
              /\ v \in 0..(current_write_id - 1) /\ v # Null
         /\ v # Null => v \in Nat /\ v \in 0..MaxId \cup Garbage /\ l # Null /\ i >= 0
         /\ Size(l) \in Nat
<1>1. /\ Entries(l) \in Seq(Nat \cup {Unset}) /\ Size(l) = Len(Entries(l)) /\ Size(l) \in Nat
  BY LenProperties DEF Entries, Size, StoreInv, EntryInv
<1>2. current_write_id \in Nat /\ current_write_id <= MaxId /\ MaxId \in Nat
  BY NumberAssumption DEF StoreInv, IdInv
<1>3. ASSUME i >= 0, i < Size(l), Entries(l)[i + 1] # Unset
      PROVE  i + 1 \in 1..Size(l) /\ Entries(l)[i + 1] \in 0..(current_write_id - 1)
  <2>1. i + 1 \in 1..Size(l)
    BY <1>1, <1>3
  <2>2. l \in DOMAIN lists
    BY <1>1, <1>3 DEF Entries, Size
  <2>3. Entries(l) = lists[l] /\ i + 1 \in 1..Len(lists[l])
    BY <1>1, <2>1, <2>2 DEF Entries
  <2>4. QED
    BY <1>3, <2>1, <2>2, <2>3 DEF StoreInv, EntryInv, EntryOf
<1>4. CASE l = Null \/ i < 0
  <2>1. v = Null
    BY <1>4 DEF Read
  <2>2. ~(l # Null /\ i >= 0)
    BY <1>4
  <2>3. QED
    BY <1>1, <2>1, <2>2
<1>5. CASE ~(l = Null \/ i < 0) /\ i < Size(l) /\ Entries(l)[i + 1] # Unset
  <2>1. v = Entries(l)[i + 1]
    BY <1>5 DEF Read
  <2>2. i + 1 \in 1..Size(l) /\ v \in 0..(current_write_id - 1)
    BY <1>3, <1>5, <2>1
  <2>3. v \in Nat /\ v \in 0..MaxId
    BY <1>2, <2>2
  <2>4. v # Null
    BY <2>3, NullNode
  <2>5. QED
    BY <1>1, <1>5, <2>1, <2>2, <2>3, <2>4
<1>6. CASE ~(l = Null \/ i < 0) /\ ~(i < Size(l) /\ Entries(l)[i + 1] # Unset)
  <2>1. v = Null \/ v \in Garbage
    BY <1>6 DEF Read
  <2>2. IsHole(l, i)
    BY <1>1, <1>6 DEF IsHole
  <2>3. v # Null => v \in Nat /\ v \in Garbage
    BY <2>1, UnsetEntry
  <2>4. QED
    BY <1>1, <1>6, <2>2, <2>3
<1>7. QED
  BY <1>4, <1>5, <1>6

\* Where nobody inserts, every entry is set.
LEMMA QuietEntry ==
  ASSUME StoreInv, ~Changing, NEW l, NEW i \in Int, i >= 0, i < Size(l)
  PROVE  ~IsHole(l, i)
<1>1. /\ Entries(l) \in Seq(Nat \cup {Unset}) /\ Size(l) = Len(Entries(l)) /\ Size(l) \in Nat
  BY LenProperties DEF Entries, Size, StoreInv, EntryInv
<1>2. i + 1 \in 1..Size(l) /\ l \in DOMAIN lists
  BY <1>1 DEF Entries, Size
<1>3. Entries(l) = lists[l] /\ i + 1 \in 1..Len(lists[l])
  BY <1>1, <1>2 DEF Entries
<1>4. lists[l][i + 1] # Unset
  BY <1>2, <1>3 DEF StoreInv, PushInv, Changing
<1>5. QED
  BY <1>1, <1>3, <1>4 DEF IsHole

\* The clause stays, and so does what it asks for.
LEMMA SoughtStill ==
  ASSUME IndexInv, StoreInv, UNCHANGED <<index_vars, store_vars>>, NEW r \in Readers,
         q'[r].plan = q[r].plan, q'[r].max_rid = q[r].max_rid
  PROVE  /\ Clause(r)' = Clause(r) /\ Sought(r)' = Sought(r)
         /\ q'[r].tok = q[r].tok => Behind(r)' = Behind(r) /\ Here(r)' = Here(r)
<1>1. Clause(r)' = Clause(r)
  BY DEF Clause
<1>2. claimed' = claimed /\ \A c, b : Matching(c, b)' = Matching(c, b)
  BY StoreStill
<1>3. Sought(r)' = Sought(r)
  BY <1>1, <1>2 DEF Sought
<1>4. QED
  BY <1>1, <1>2, <1>3 DEF Behind, Here

\* An iterator goes on within its clause: what remains to be shown of it.
LEMMA IteratorKept ==
  ASSUME IndexInv, StoreInv, QueryInv, UNCHANGED <<index_vars, store_vars>>, NEW r \in Readers,
         ~Changing => ~Changing',
         q[r].pc \in Active \cup {"begin"}, q'[r].pc \in Active,
         DOMAIN q'[r] = QueryFields,
         q'[r].plan = q[r].plan, q'[r].asked = q[r].asked, q'[r].max_rid = q[r].max_rid,
         q'[r].quiet = q[r].quiet, q'[r].count = q[r].count,
         q[r].results \subseteq q'[r].results, q'[r].results \subseteq 0..MaxId \cup Garbage,
         q'[r].tok \in Nat, q'[r].idx \in Int, q'[r].idx >= -1,
         q'[r].list \in Reachable \cup {Null},
         q'[r].first \in BOOLEAN, q'[r].hole \in BOOLEAN,
         q[r].quiet /\ Proper(r) /\ q'[r].list # Null /\ q'[r].pc # "scan" =>
           (q[r].idx < Size(q[r].list))',
         q[r].quiet /\ Proper(r) => ~q'[r].hole,
         KeyOf(r)', FoundOf(r)', SeenOf(r)'
  PROVE  QueryOf(r)'
<1>1. /\ QueryType(r) /\ PlanOf(r) /\ QuietOf(r) /\ CountOf(r)
  BY DEF QueryInv, QueryOf
<1>2. /\ Reachable' = Reachable /\ walk' = walk /\ current_read_id' = current_read_id
      /\ length' = length /\ current_write_id' = current_write_id
      /\ \A a : Key(a)' = Key(a)
      /\ \A l : Size(l)' = Size(l)
      /\ \A c, b : Matching(c, b)' = Matching(c, b)
  BY StoreStill
<1>3. QueryType(r)'
  <2>1. q'[r].pc \in QueryPcs /\ q[r].pc \notin {"idle", "crash"}
    BY DEF QueryPcs, Active
  <2>2. QED
    BY <1>1, <1>2, <2>1 DEF QueryType
<1>4. PlanOf(r)'
  <2>1. ASSUME NEW i \in 1..Len(q[r].asked)
        PROVE  \/ \E k \in 1..Len(q[r].plan) : q[r].plan[k] = q[r].asked[i]
               \/ (Matching(q[r].asked[i], q[r].max_rid) \subseteq q[r].results)'
    <3>1. \/ \E k \in 1..Len(q[r].plan) : q[r].plan[k] = q[r].asked[i]
          \/ Matching(q[r].asked[i], q[r].max_rid) \subseteq q[r].results
      BY <1>1 DEF PlanOf
    <3>2. (Matching(q[r].asked[i], q[r].max_rid))' = Matching(q[r].asked[i], q[r].max_rid)
      BY <1>2
    <3>3. QED
      BY <3>1, <3>2
  <2>2. q[r].pc \notin {"idle", "crash"} /\ q'[r].pc \notin {"idle", "crash"}
    BY DEF Active
  <2>3. QED
    BY <1>1, <2>1, <2>2 DEF PlanOf
<1>5. QuietOf(r)'
  <2>1. q'[r].pc # "crash" /\ q'[r].pc \in {"advance", "scan", "check", "apply", "deref"}
    BY DEF Active
  <2>2. Proper(r)' <=> Proper(r)
    BY <1>2 DEF Proper, OutOfTable, Path, shape
  <2>3. ASSUME q[r].quiet
        PROVE  /\ ~Changing'
               /\ q'[r].max_rid = current_write_id'
               /\ (\A k \in 1..Len(q[r].plan) : \A t \in q[r].plan[k].lo..q[r].plan[k].hi :
                     \A l \in Reachable : Leads(l, Key(t)) => Size(l) > 0)'
    <3>1. /\ ~Changing /\ q[r].max_rid = current_write_id
          /\ \A k \in 1..Len(q[r].plan) : \A t \in q[r].plan[k].lo..q[r].plan[k].hi :
               \A l \in Reachable : Leads(l, Key(t)) => Size(l) > 0
      BY <1>1, <2>3 DEF QuietOf
    <3>2. QED
      BY <1>2, <3>1
  <2>4. QED
    BY <2>1, <2>2, <2>3 DEF QuietOf
<1>6. CountOf(r)'
  BY <1>1, <1>2 DEF CountOf, Arrived, Active
<1>7. QED
  BY <1>3, <1>4, <1>5, <1>6 DEF QueryOf

\* The list at() finds for a key; what is sought under the key is on it.
LEMMA ListAt ==
  ASSUME IndexInv, StoreInv, NEW c, NEW b \in 0..current_read_id, NEW t \in Nat, NEW l, l = at(KeyPath(t))
  PROVE  /\ l \in Reachable \cup {Null}
         /\ l # Null => Leads(l, Key(t))
         /\ l = Null => \A id \in Matching(c, b) : claimed[id + 1].tok # t
<1>1. /\ l # Null => l \in Reachable /\ Leads(l, Key(t))
  BY AtKey DEF StoreInv
<1>2. ASSUME NEW id \in Matching(c, b), claimed[id + 1].tok = t
      PROVE  l # Null
  <2>1. \E x \in DOMAIN lists : x \in Reachable /\ at(KeyPath(claimed[id + 1].tok)) = x
    BY SoughtOn
  <2>2. Null \notin Reachable
    BY ChildFacts DEF IndexInv
  <2>3. QED
    BY <1>2, <2>1, <2>2
<1>3. QED
  BY <1>1, <1>2

\* What is sought under the key of a list is an entry of the list.
LEMMA SoughtHere ==
  ASSUME IndexInv, StoreInv, NEW c, NEW b \in 0..current_read_id, NEW id \in Matching(c, b),
         NEW l \in Reachable, Leads(l, Key(claimed[id + 1].tok))
  PROVE  l \in DOMAIN lists /\ \E j \in 1..Size(l) : Entries(l)[j] = id
<1>1. PICK x \in DOMAIN lists : /\ at(KeyPath(claimed[id + 1].tok)) = x
                                /\ \E j \in 1..Len(lists[x]) : lists[x][j] = id
  BY SoughtOn
<1>2. claimed[id + 1].tok \in Nat
  BY SoughtOn
<1>3. at(KeyPath(claimed[id + 1].tok)) = l
  BY <1>2, AtKey DEF StoreInv
<1>4. QED
  BY <1>1, <1>3 DEF Size, Entries

\* The iterator's constructor.
LEMMA BeginOf ==
  ASSUME IndexInv, StoreInv, QueryInv, NEW r \in Readers, Begin(r)
  PROVE  /\ IndexInv' /\ StoreInv' /\ q' = [s \in Readers |-> q'[s]]
         /\ \A s \in Readers : s # r => Steady(s)
         /\ QueryOf(r)'
<1> DEFINE u == [q[r] EXCEPT !.pc = "advance", !.tok = Clause(r).lo, !.idx = -1,
                             !.list = at(KeyPath(Clause(r).lo)), !.first = TRUE, !.hole = FALSE]
<1>1. /\ q[r].pc = "begin" /\ UNCHANGED <<index_vars, store_vars>>
      /\ q' = [q EXCEPT ![r] = u]
  BY DEF Begin
<1>2. QueryType(r) /\ q[r].max_rid \in 0..current_read_id
  BY DEF QueryInv, QueryOf, QueryType
<1>3. /\ u.pc = "advance" /\ u.tok = Clause(r).lo /\ u.idx = -1
      /\ u.list = at(KeyPath(Clause(r).lo)) /\ u.first = TRUE /\ u.hole = FALSE
      /\ u.plan = q[r].plan /\ u.max_rid = q[r].max_rid /\ u.count = q[r].count
      /\ u.results = q[r].results /\ u.asked = q[r].asked /\ u.quiet = q[r].quiet
      /\ DOMAIN u = QueryFields
  BY <1>2 DEF QueryType, QueryFields
<1> HIDE DEF u
<1>4. /\ q'[r] = u
      /\ IndexInv' /\ StoreInv' /\ q' = [s \in Readers |-> q'[s]]
      /\ ~Changing => ~Changing'
      /\ \A s \in Readers : s # r => Steady(s)
  BY <1>1, <1>3, OwnStep
<1>5. /\ Clause(r).lo \in Nat /\ Clause(r).hi \in Nat /\ Clause(r).lo <= Clause(r).hi + 1
  BY <1>1, ClauseFacts
<1>6. Clause(r)' = Clause(r) /\ Sought(r)' = Sought(r)
  BY <1>1, <1>3, <1>4, SoughtStill
<1>7. /\ \A a : Key(a)' = Key(a)
      /\ \A l : Size(l)' = Size(l)
      /\ claimed' = claimed
  BY <1>1, StoreStill
<1>8. PICK c, b, l : c = Clause(r) /\ b = q[r].max_rid /\ l = at(KeyPath(Clause(r).lo))
  OBVIOUS
<1>9. /\ l \in Reachable \cup {Null}
      /\ l # Null => Leads(l, Key(Clause(r).lo))
      /\ l = Null => \A id \in Sought(r) : claimed[id + 1].tok # Clause(r).lo
  BY <1>2, <1>5, <1>8, ListAt DEF Sought
<1>10. KeyOf(r)'
  <2>1. l = Null => Here(r)' = {}
    BY <1>3, <1>4, <1>6, <1>7, <1>9 DEF Here
  <2>2. QED
    BY <1>3, <1>4, <1>5, <1>6, <1>7, <1>8, <1>9, <2>1 DEF KeyOf
<1>11. \A id \in Sought(r) : ~(claimed[id + 1].tok < Clause(r).lo)
  BY <1>5 DEF Sought, Matching
<1>12. FoundOf(r)'
  <2>1. Behind(r)' = {}
    BY <1>3, <1>4, <1>6, <1>7, <1>11 DEF Behind
  <2>2. q'[r].idx + 1 = 0
    BY <1>3, <1>4
  <2>3. (Passed(r, q[r].idx + 1))'
    BY <2>2 DEF Passed
  <2>4. QED
    BY <1>3, <1>4, <2>1, <2>3 DEF FoundOf
<1>13. SeenOf(r)'
  BY <1>3, <1>4 DEF SeenOf
<1>14. (q[r].idx < Size(q[r].list))'
  <2>1. Size(l) \in Nat
    BY LenProperties DEF Size, Entries, StoreInv, EntryInv
  <2>2. q'[r].list = l /\ q'[r].idx = -1
    BY <1>3, <1>4, <1>8
  <2>3. (Size(q[r].list))' = Size(l)
    BY <1>7, <2>2
  <2>4. QED
    BY <2>1, <2>2, <2>3
<1>15. q'[r].results \subseteq 0..MaxId \cup Garbage /\ q[r].results = q'[r].results
  BY <1>2, <1>3, <1>4 DEF QueryType
<1>16. q'[r].pc \in Active /\ q[r].pc \in Active \cup {"begin"}
  BY <1>1, <1>3, <1>4 DEF Active
<1>17. /\ DOMAIN q'[r] = QueryFields
       /\ q'[r].plan = q[r].plan /\ q'[r].asked = q[r].asked /\ q'[r].max_rid = q[r].max_rid
       /\ q'[r].quiet = q[r].quiet /\ q'[r].count = q[r].count
       /\ q'[r].tok \in Nat /\ q'[r].idx \in Int /\ q'[r].idx >= -1
       /\ q'[r].list \in Reachable \cup {Null}
       /\ q'[r].first \in BOOLEAN /\ q'[r].hole \in BOOLEAN
  <2>1. q'[r].first \in BOOLEAN /\ q'[r].hole \in BOOLEAN
    BY <1>3, <1>4, Zenon
  <2>2. /\ q'[r].plan = q[r].plan /\ q'[r].asked = q[r].asked /\ q'[r].max_rid = q[r].max_rid
        /\ q'[r].quiet = q[r].quiet /\ q'[r].count = q[r].count /\ DOMAIN q'[r] = QueryFields
    BY <1>3, <1>4, Zenon
  <2>3. /\ q'[r].tok \in Nat /\ q'[r].idx = -1
        /\ q'[r].list \in Reachable \cup {Null}
    BY <1>3, <1>4, <1>5, <1>8, <1>9, Zenon
  <2>4. QED
    BY <2>1, <2>2, <2>3
<1>18. ~q'[r].hole
  BY <1>3, <1>4
<1>19. QueryOf(r)'
  BY <1>1, <1>4, <1>10, <1>12, <1>13, <1>14, <1>15, <1>16, <1>17, <1>18, IteratorKept
<1>20. QED
  BY <1>4, <1>19

\* A step of an iterator that leaves the clause, the key and the list alone.
LEMMA SameKeyOf ==
  ASSUME IndexInv, StoreInv, QueryInv, NEW r \in Readers, NEW u, q' = [q EXCEPT ![r] = u],
         UNCHANGED <<index_vars, store_vars>>,
         q[r].pc \in Active, u.pc \in Active, DOMAIN u = QueryFields,
         u.plan = q[r].plan, u.asked = q[r].asked, u.max_rid = q[r].max_rid,
         u.quiet = q[r].quiet, u.count = q[r].count, u.tok = q[r].tok, u.list = q[r].list,
         q[r].results \subseteq u.results, u.results \subseteq 0..MaxId \cup Garbage,
         u.first \in BOOLEAN, u.hole \in BOOLEAN,
         u.idx \in Int, u.idx >= -1,
         \/ u.tok <= Clause(r).hi
         \/ u.tok = Clause(r).hi + 1 /\ u.first /\ u.idx = -1 /\ u.pc \in {"advance", "deref"},
         u.pc \in {"check", "apply", "deref"} /\ u.tok <= Clause(r).hi => u.list # Null /\ u.idx >= 0,
         u.pc \in {"check", "apply"} => ~u.first,
         u.pc = "scan" => u.idx = 0 /\ Here(r) \subseteq u.results,
         u.pc = "advance" => \A j \in 1..Size(u.list) :
           j <= u.idx + 1 /\ Entries(u.list)[j] \in Sought(r) => Entries(u.list)[j] \in u.results,
         u.pc \in {"check", "apply", "deref"} => \A j \in 1..Size(u.list) :
           j <= u.idx /\ Entries(u.list)[j] \in Sought(r) => Entries(u.list)[j] \in u.results,
         q[r].quiet /\ Proper(r) /\ u.list # Null /\ u.pc # "scan" => u.idx < Size(u.list),
         q[r].quiet /\ Proper(r) => ~u.hole,
         SeenOf(r)'
  PROVE  /\ IndexInv' /\ StoreInv' /\ q' = [s \in Readers |-> q'[s]]
         /\ \A s \in Readers : s # r => Steady(s)
         /\ QueryOf(r)'
<1>1. QueryType(r) /\ KeyOf(r) /\ FoundOf(r)
  BY DEF QueryInv, QueryOf
<1>2. /\ q'[r] = u
      /\ IndexInv' /\ StoreInv' /\ q' = [s \in Readers |-> q'[s]]
      /\ ~Changing => ~Changing'
      /\ \A s \in Readers : s # r => Steady(s)
  BY OwnStep DEF Active
<1>3. /\ Clause(r)' = Clause(r) /\ Sought(r)' = Sought(r)
      /\ Behind(r)' = Behind(r) /\ Here(r)' = Here(r)
  BY <1>2, SoughtStill
<1>4. /\ \A a : Key(a)' = Key(a)
      /\ \A l : Size(l)' = Size(l) /\ Entries(l)' = Entries(l)
  BY StoreStill
<1>5. /\ Clause(r).lo <= q[r].tok /\ (q[r].list # Null => Leads(q[r].list, Key(q[r].tok)))
      /\ q[r].list = Null => Here(r) = {}
      /\ q[r].tok <= Clause(r).hi \/ Clause(r).lo = q[r].tok
      /\ Behind(r) \subseteq q[r].results
  BY <1>1 DEF KeyOf, FoundOf
<1>6. q[r].tok \in Nat /\ Clause(r).hi \in Nat
  BY <1>1, ClauseFacts DEF QueryType, Active
<1>7. KeyOf(r)'
  <2>1. u.tok = Clause(r).hi + 1 => Clause(r).lo = u.tok
    BY <1>5, <1>6
  <2>2. QED
    BY <1>2, <1>3, <1>4, <1>5, <2>1 DEF KeyOf
<1>8. FoundOf(r)'
  <2>1. u.pc = "advance" => (Passed(r, q[r].idx + 1))'
    BY <1>2, <1>3, <1>4 DEF Passed
  <2>2. u.pc \in {"check", "apply", "deref"} => (Passed(r, q[r].idx))'
    BY <1>2, <1>3, <1>4 DEF Passed
  <2>3. Behind(r)' \subseteq q'[r].results
    BY <1>2, <1>3, <1>5
  <2>4. u.pc = "scan" => Here(r)' \subseteq q'[r].results
    BY <1>2, <1>3
  <2>5. QED
    BY <1>2, <2>1, <2>2, <2>3, <2>4 DEF FoundOf
<1>9. q[r].quiet /\ Proper(r) /\ q'[r].list # Null /\ q'[r].pc # "scan" =>
        (q[r].idx < Size(q[r].list))'
  BY <1>2, <1>4
<1>10. u.list \in Reachable \cup {Null} /\ u.tok \in Nat
  BY <1>1 DEF QueryType
<1>11. /\ q[r].pc \in Active \cup {"begin"} /\ q'[r].pc \in Active
       /\ DOMAIN q'[r] = QueryFields
       /\ q'[r].plan = q[r].plan /\ q'[r].asked = q[r].asked /\ q'[r].max_rid = q[r].max_rid
       /\ q'[r].quiet = q[r].quiet /\ q'[r].count = q[r].count
       /\ q[r].results \subseteq q'[r].results /\ q'[r].results \subseteq 0..MaxId \cup Garbage
       /\ q'[r].tok \in Nat /\ q'[r].idx \in Int /\ q'[r].idx >= -1
       /\ q'[r].list \in Reachable \cup {Null}
       /\ q'[r].first \in BOOLEAN /\ q'[r].hole \in BOOLEAN
  BY <1>2, <1>10, Zenon
<1>12. q[r].quiet /\ Proper(r) => ~q'[r].hole
  BY <1>2
<1>13. QueryOf(r)'
  BY <1>2, <1>7, <1>8, <1>9, <1>11, <1>12, IteratorKept
<1>14. QED
  BY <1>2, <1>13

\* advance(): the next entry of the list.
LEMMA AdvanceOf ==
  ASSUME IndexInv, StoreInv, QueryInv, NEW r \in Readers, Advance(r)
  PROVE  /\ IndexInv' /\ StoreInv' /\ q' = [s \in Readers |-> q'[s]]
         /\ \A s \in Readers : s # r => Steady(s)
         /\ QueryOf(r)'
<1> DEFINE i == q[r].idx + 1
           u == IF q[r].tok = Clause(r).hi + 1 THEN Reached(q[r])
                ELSE IF q[r].list = Null \/ i = Size(q[r].list)
                  THEN [q[r] EXCEPT !.pc = "scan", !.idx = 0]
                  ELSE Reached([q[r] EXCEPT !.idx = i])
<1>1. /\ q[r].pc = "advance" /\ UNCHANGED <<index_vars, store_vars>>
      /\ q' = [q EXCEPT ![r] = u]
  BY DEF Advance
<1>2. /\ QueryType(r) /\ KeyOf(r) /\ FoundOf(r) /\ QuietOf(r) /\ SeenOf(r)
      /\ q[r].max_rid \in 0..current_read_id /\ q[r].idx \in Int /\ q[r].idx >= -1
      /\ DOMAIN q[r] = QueryFields /\ q[r].tok \in Nat
      /\ q[r].results \subseteq 0..MaxId \cup Garbage
      /\ q[r].first \in BOOLEAN /\ q[r].hole \in BOOLEAN
  BY DEF QueryInv, QueryOf, QueryType
<1>3. /\ Clause(r).lo \in Nat /\ Clause(r).hi \in Nat /\ Clause(r) \in Range(q[r].asked)
  BY <1>1, ClauseFacts
<1>4. Passed(r, i)
  BY <1>1, <1>2 DEF FoundOf, Active
<1>5. /\ Size(q[r].list) \in Nat
  BY LenProperties DEF Size, Entries, StoreInv, EntryInv
<1>6. q[r].pc \in Active
  BY <1>1 DEF Active
<1>7. /\ q[r].list # Null => Leads(q[r].list, Key(q[r].tok))
      /\ q[r].list = Null => Here(r) = {}
      /\ \/ q[r].tok <= Clause(r).hi
         \/ /\ q[r].tok = Clause(r).hi + 1 /\ Clause(r).lo = q[r].tok
            /\ q[r].first /\ q[r].idx = -1
  BY <1>2, <1>6 DEF KeyOf
<1>12. q[r].quiet /\ Proper(r) => ~q[r].hole
  BY <1>2, <1>6 DEF QuietOf
<1> HIDE DEF u
<1>8. CASE q[r].tok = Clause(r).hi + 1
  <2>1. u = [q[r] EXCEPT !.pc = IF q[r].first THEN "deref" ELSE "check"]
    BY <1>8 DEF u, Reached
  <2>2. Clause(r).lo = q[r].tok /\ q[r].first /\ q[r].idx = -1
    BY <1>2, <1>3, <1>7, <1>8
  <2>3. /\ u.pc = "deref" /\ u.tok = q[r].tok /\ u.idx = q[r].idx
        /\ u.list = q[r].list /\ u.first = q[r].first /\ u.hole = q[r].hole
        /\ u.plan = q[r].plan /\ u.max_rid = q[r].max_rid /\ u.count = q[r].count
        /\ u.results = q[r].results /\ u.asked = q[r].asked /\ u.quiet = q[r].quiet
        /\ DOMAIN u = QueryFields
    BY <1>2, <2>1, <2>2 DEF QueryFields
  <2>4. ~Proper(r)
    BY <1>3, <1>8, <2>2 DEF Proper
  <2>5. q'[r] = u
    BY <1>1, QueryUpdate
  <2>6. SeenOf(r)'
    BY <2>2, <2>3, <2>5 DEF SeenOf
  <2>7. /\ u.pc \in Active
        /\ \A j \in 1..Size(u.list) :
             j <= u.idx /\ Entries(u.list)[j] \in Sought(r) => Entries(u.list)[j] \in u.results
        /\ ~(u.tok <= Clause(r).hi)
    BY <1>3, <1>8, <2>2, <2>3 DEF Active
  <2>8. u.pc # "scan" /\ u.pc # "advance" /\ u.pc \notin {"check", "apply"} /\ u.pc \in {"advance", "deref"}
    BY <2>3
  <2>9. u.tok = Clause(r).hi + 1 /\ u.first /\ u.idx = -1 /\ u.idx \in Int /\ u.first \in BOOLEAN /\ u.hole \in BOOLEAN
    BY <1>2, <1>8, <2>2, <2>3, Zenon
  <2>10. QED
    BY <1>1, <1>2, <1>6, <1>12, <2>2, <2>3, <2>4, <2>6, <2>7, <2>8, <2>9, SameKeyOf
<1>9. CASE q[r].tok # Clause(r).hi + 1 /\ (q[r].list = Null \/ i = Size(q[r].list))
  <2>1. u = [q[r] EXCEPT !.pc = "scan", !.idx = 0]
    BY <1>9 DEF u
  <2>2. q[r].tok <= Clause(r).hi
    BY <1>7, <1>9
  <2>3. /\ u.pc = "scan" /\ u.tok = q[r].tok /\ u.idx = 0
        /\ u.list = q[r].list /\ u.first = q[r].first /\ u.hole = q[r].hole
        /\ u.plan = q[r].plan /\ u.max_rid = q[r].max_rid /\ u.count = q[r].count
        /\ u.results = q[r].results /\ u.asked = q[r].asked /\ u.quiet = q[r].quiet
        /\ DOMAIN u = QueryFields
    BY <1>2, <2>1 DEF QueryFields
  <2>4. Here(r) \subseteq q[r].results
    <3>1. SUFFICES ASSUME NEW id \in Here(r), q[r].list # Null
                   PROVE  id \in q[r].results
      BY <1>7
    <3>2. id \in Sought(r) /\ claimed[id + 1].tok = q[r].tok
      BY DEF Here
    <3>3. PICK l \in Reachable : l = q[r].list
      BY <1>2, <3>1 DEF QueryType
    <3>4. PICK j \in 1..Size(l) : Entries(l)[j] = id
      <4>1. PICK c, b : c = Clause(r) /\ b = q[r].max_rid
        OBVIOUS
      <4>2. id \in Matching(c, b) /\ b \in 0..current_read_id
        BY <1>2, <3>2, <4>1 DEF Sought
      <4>3. Leads(l, Key(claimed[id + 1].tok))
        BY <1>7, <3>1, <3>2, <3>3
      <4>4. QED
        BY <4>2, <4>3, SoughtHere
    <3>5. j \in 1..Size(q[r].list) /\ j <= i
      BY <1>5, <1>9, <3>1, <3>3, <3>4
    <3>6. QED
      BY <1>4, <3>2, <3>3, <3>4, <3>5 DEF Passed
  <2>5. q'[r] = u
    BY <1>1, QueryUpdate
  <2>6. SeenOf(r)'
    BY <2>3, <2>5 DEF SeenOf
  <2>7. u.pc \in Active /\ u.pc \notin {"advance", "check", "apply", "deref"} /\ u.first \in BOOLEAN /\ u.hole \in BOOLEAN
    BY <1>2, <2>3 DEF Active
  <2>8. u.idx \in Int /\ u.idx >= -1 /\ u.tok <= Clause(r).hi /\ Here(r) \subseteq u.results
        /\ q[r].results \subseteq u.results /\ u.results \subseteq 0..MaxId \cup Garbage
        /\ u.pc # "advance" /\ u.pc \notin {"check", "apply", "deref"} /\ u.pc \notin {"check", "apply"}
    BY <1>2, <2>2, <2>3, <2>4
  <2>9. QED
    BY <1>1, <1>6, <1>12, <2>3, <2>6, <2>7, <2>8, SameKeyOf
<1>10. CASE q[r].tok # Clause(r).hi + 1 /\ ~(q[r].list = Null \/ i = Size(q[r].list))
  <2>0. u = [[q[r] EXCEPT !.idx = i] EXCEPT !.pc = IF [q[r] EXCEPT !.idx = i].first THEN "deref" ELSE "check"]
    BY <1>10 DEF u, Reached
  <2>1. u = [[q[r] EXCEPT !.idx = i] EXCEPT !.pc = IF q[r].first THEN "deref" ELSE "check"]
    BY <1>2, <2>0 DEF QueryFields
  <2>2. q[r].tok <= Clause(r).hi
    BY <1>7, <1>10
  <2>3. /\ u.pc = (IF q[r].first THEN "deref" ELSE "check") /\ u.tok = q[r].tok /\ u.idx = i
        /\ u.list = q[r].list /\ u.first = q[r].first /\ u.hole = q[r].hole
        /\ u.plan = q[r].plan /\ u.max_rid = q[r].max_rid /\ u.count = q[r].count
        /\ u.results = q[r].results /\ u.asked = q[r].asked /\ u.quiet = q[r].quiet
        /\ DOMAIN u = QueryFields
    BY <1>2, <2>1 DEF QueryFields
  <2>4. q[r].quiet /\ Proper(r) => i < Size(u.list)
    <3>1. q[r].quiet /\ Proper(r) => q[r].idx < Size(q[r].list)
      BY <1>1, <1>2, <1>6, <1>10 DEF QuietOf
    <3>2. QED
      BY <1>2, <1>5, <1>10, <2>3, <3>1
  <2>5. q'[r] = u
    BY <1>1, QueryUpdate
  <2>6. SeenOf(r)'
    BY <1>2, <2>3, <2>5 DEF SeenOf
  <2>7. /\ u.pc \in Active /\ u.pc \in {"check", "deref"} /\ (u.pc = "check" => ~u.first)
        /\ u.first \in BOOLEAN /\ u.hole \in BOOLEAN
    BY <1>2, <2>3 DEF Active
  <2>8. \A j \in 1..Size(u.list) :
          j <= u.idx /\ Entries(u.list)[j] \in Sought(r) => Entries(u.list)[j] \in u.results
    BY <1>4, <2>3 DEF Passed
  <2>9. u.idx \in Int /\ u.idx >= 0 /\ u.idx >= -1
    BY <1>2, <2>3
  <2>10. QED
    BY <1>1, <1>2, <1>6, <1>10, <1>12, <2>2, <2>3, <2>4, <2>6, <2>7, <2>8, <2>9, SameKeyOf
<1>11. QED
  BY <1>8, <1>9, <1>10

\* A path within the first tier's table if that of a larger key is.
LEMMA TableBound ==
  ASSUME IndexInv, StoreInv, NEW a \in Nat, NEW b \in Nat, a <= b, ~OutOfTable(Path(b))
  PROVE  ~OutOfTable(KeyPath(a))
<1>1. Short(a)[1] <= Short(b)[1] /\ Key(a)[1] = Short(a)[1]
  BY KeyFacts DEF IndexInv, StoreInv
<1>2. KeyPath(a) = Key(a) /\ Path(b) = Short(b)
  BY SameKey
<1>3. Short(a) \in Seq(Nat) /\ Len(Short(a)) \in 1..4 /\ Short(b) \in Seq(Nat) /\ Len(Short(b)) \in 1..4
  BY KeyFacts DEF IndexInv, StoreInv
<1>4. Short(a)[1] \in Nat /\ Short(b)[1] \in Nat
  BY <1>3, ElementOfSeq
<1>5. shape[1] \in Nat
  <2>1. length \in 1..8
    BY LengthAssumption DEF IndexInv
  <2>2. shape \in Seq(Nat \ {0}) /\ Len(shape) \in 1..4
    BY <2>1, ShapeFacts DEF shape
  <2>3. QED
    BY <2>2, ElementOfSeq
<1>6. QED
  BY <1>1, <1>2, <1>4, <1>5 DEF OutOfTable

\* The loop of advance() over the keys.
LEMMA ScanOf ==
  ASSUME IndexInv, StoreInv, QueryInv, NEW r \in Readers, Scan(r)
  PROVE  /\ IndexInv' /\ StoreInv' /\ q' = [s \in Readers |-> q'[s]]
         /\ \A s \in Readers : s # r => Steady(s)
         /\ QueryOf(r)'
<1> DEFINE t == q[r].tok + 1
           l == at(KeyPath(t))
           s0 == [q[r] EXCEPT !.tok = t, !.list = l]
           u == IF t = Clause(r).hi + 1 THEN NextClause(s0)
                ELSE IF l = Null /\ t <= Clause(r).hi THEN s0
                ELSE Reached(s0)
<1>1. /\ q[r].pc = "scan" /\ UNCHANGED <<index_vars, store_vars>>
      /\ \/ q' = [q EXCEPT ![r] = u]
         \/ OutOfTable(KeyPath(t)) /\ q' = [q EXCEPT ![r] = Crash(q[r])]
  BY DEF Scan
<1>2. /\ QueryType(r) /\ PlanOf(r) /\ KeyOf(r) /\ FoundOf(r) /\ QuietOf(r) /\ CountOf(r)
      /\ q[r].max_rid \in 0..current_read_id /\ q[r].idx \in Int
      /\ DOMAIN q[r] = QueryFields /\ q[r].tok \in Nat
      /\ q[r].results \subseteq 0..MaxId \cup Garbage
      /\ q[r].first \in BOOLEAN /\ q[r].hole \in BOOLEAN /\ q[r].quiet \in BOOLEAN
      /\ q[r].asked \in Seq(Clauses) /\ q[r].plan \in Seq(Clauses)
  BY DEF QueryInv, QueryOf, QueryType
<1>3. /\ Clause(r).lo \in Nat /\ Clause(r).hi \in Nat /\ Clause(r) \in Range(q[r].asked)
      /\ Clause(r) = q[r].plan[1] /\ Len(q[r].plan) \in Nat \ {0}
  BY <1>1, ClauseFacts
<1>4. q[r].pc \in Active
  BY <1>1 DEF Active
<1>5. /\ Clause(r).lo <= q[r].tok /\ q[r].tok <= Clause(r).hi /\ q[r].idx = 0
      /\ Behind(r) \subseteq q[r].results /\ Here(r) \subseteq q[r].results
  BY <1>1, <1>2, <1>4 DEF KeyOf, FoundOf
<1>6. t \in Nat /\ t <= Clause(r).hi + 1 /\ Clause(r).lo <= t /\ t \in Clause(r).lo..(Clause(r).hi + 1)
  BY <1>2, <1>3, <1>5
<1>7. Arrived(r)
  BY <1>1, <1>2 DEF CountOf
<1>8. \A id \in Sought(r) : claimed[id + 1].tok < t => id \in q[r].results
  <2>1. ASSUME NEW id \in Sought(r), claimed[id + 1].tok < t
        PROVE  id \in q[r].results
    <3>1. claimed[id + 1].tok \in Nat
      <4>1. PICK c, b : c = Clause(r) /\ b = q[r].max_rid
        OBVIOUS
      <4>2. id \in Matching(c, b) /\ b \in 0..current_read_id
        BY <1>2, <4>1 DEF Sought
      <4>3. QED
        BY <4>2, SoughtOn
    <3>2. claimed[id + 1].tok < q[r].tok \/ claimed[id + 1].tok = q[r].tok
      BY <1>2, <2>1, <3>1
    <3>3. QED
      BY <1>5, <3>2 DEF Behind, Here
  <2>2. QED
    BY <2>1
<1> HIDE DEF t, u
<1>9. CASE OutOfTable(KeyPath(t)) /\ q' = [q EXCEPT ![r] = Crash(q[r])]
  <2>1. Crash(q[r]).pc = "crash"
    BY DEF Crash, NoQuery
  <2>2. /\ q'[r] = Crash(q[r])
        /\ IndexInv' /\ StoreInv' /\ q' = [s \in Readers |-> q'[s]]
        /\ \A s \in Readers : s # r => Steady(s)
    BY <1>1, <1>9, <2>1, OwnStep
  <2>3. ~Proper(r)
    <3>1. SUFFICES ASSUME Proper(r) PROVE FALSE
      OBVIOUS
    <3>2. ~OutOfTable(Path(Clause(r).hi + 1)) /\ Clause(r).hi + 1 \in Nat
      BY <1>3, <3>1 DEF Proper
    <3>3. ~OutOfTable(KeyPath(t))
      BY <1>6, <3>2, TableBound
    <3>4. QED
      BY <1>9, <3>3
  <2>4. ~Proper(r)'
    <3>1. q'[r].asked = q[r].asked
      BY <2>2 DEF Crash, NoQuery
    <3>2. length' = length
      BY <1>1, StoreStill
    <3>3. QED
      BY <2>3, <3>1, <3>2 DEF Proper, OutOfTable, Path, shape
  <2>5. Arrived(r)'
    BY <1>1, <1>7, StoreStill
  <2>6. QueryOf(r)'
    BY <1>2, <2>2, <2>4, <2>5, CrashOf
  <2>7. QED
    BY <2>2, <2>6
<1>10. CASE q' = [q EXCEPT ![r] = u]
  <2>0. /\ \A a : Key(a)' = Key(a)
        /\ \A x : Size(x)' = Size(x)
        /\ claimed' = claimed /\ Arrived(r)' /\ length' = length /\ walk' = walk
        /\ current_read_id' = current_read_id /\ current_write_id' = current_write_id
        /\ Reachable' = Reachable
        /\ \A c, b : Matching(c, b)' = Matching(c, b)
    BY <1>1, <1>7, StoreStill
  <2>1. /\ s0.pc = "scan" /\ s0.tok = t /\ s0.idx = 0
        /\ s0.list = l /\ s0.first = q[r].first /\ s0.hole = q[r].hole
        /\ s0.plan = q[r].plan /\ s0.max_rid = q[r].max_rid /\ s0.count = q[r].count
        /\ s0.results = q[r].results /\ s0.asked = q[r].asked /\ s0.quiet = q[r].quiet
        /\ DOMAIN s0 = QueryFields
    BY <1>1, <1>2, <1>5 DEF QueryFields
  <2> HIDE DEF s0, l
  <2>2. CASE t = Clause(r).hi + 1 /\ Len(q[r].plan) = 1
    <3>1. u = NoQuery
      BY <2>1, <2>2 DEF u, NextClause
    <3>2. u.pc = "idle"
      BY <3>1 DEF NoQuery
    <3>3. /\ q'[r] = u
          /\ IndexInv' /\ StoreInv' /\ q' = [s \in Readers |-> q'[s]]
          /\ \A s \in Readers : s # r => Steady(s)
      BY <1>1, <1>10, <3>2, OwnStep
    <3>4. QED
      BY <2>0, <3>1, <3>3, NoQueryOf
  <2>3. CASE t = Clause(r).hi + 1 /\ Len(q[r].plan) # 1
    <3>1. u = [s0 EXCEPT !.pc = "begin", !.plan = Tail(s0.plan), !.list = Null, !.idx = 0]
      BY <2>1, <2>3 DEF u, NextClause
    <3>2. /\ u.pc = "begin" /\ u.plan = Tail(q[r].plan) /\ u.list = Null /\ u.idx = 0
          /\ u.tok = t /\ u.first = q[r].first /\ u.hole = q[r].hole
          /\ u.max_rid = q[r].max_rid /\ u.count = q[r].count
          /\ u.results = q[r].results /\ u.asked = q[r].asked /\ u.quiet = q[r].quiet
          /\ DOMAIN u = QueryFields
      BY <2>1, <3>1 DEF QueryFields
    <3>3. /\ q'[r] = u
          /\ IndexInv' /\ StoreInv' /\ q' = [s \in Readers |-> q'[s]]
          /\ ~Changing => ~Changing'
          /\ \A s \in Readers : s # r => Steady(s)
      BY <1>1, <1>10, <3>2, OwnStep
    <3>4. /\ u.plan \in Seq(Clauses) /\ Len(u.plan) = Len(q[r].plan) - 1 /\ u.plan # <<>>
          /\ \A k \in 1..Len(u.plan) : u.plan[k] = q[r].plan[k + 1]
      <4>1. q[r].plan # <<>>
        BY <1>3
      <4>2. /\ Tail(q[r].plan) \in Seq(Clauses) /\ Len(Tail(q[r].plan)) = Len(q[r].plan) - 1
            /\ \A k \in 1..Len(Tail(q[r].plan)) : Tail(q[r].plan)[k] = q[r].plan[k + 1]
        BY <1>2, <4>1, HeadTailProperties
      <4>3. u.plan = Tail(q[r].plan)
        BY <3>2
      <4>4. Len(u.plan) = Len(q[r].plan) - 1
        BY <4>2, <4>3
      <4>5. Len(u.plan) \in Nat \ {0}
        BY <1>3, <2>3, <4>4
      <4>6. u.plan # <<>>
        BY <4>5
      <4>7. QED
        BY <4>2, <4>3, <4>4, <4>6
    <3>5. Sought(r) \subseteq q[r].results
      <4>1. \A id \in Sought(r) : claimed[id + 1].tok < t
        BY <1>3, <2>3 DEF Sought, Matching
      <4>2. QED
        BY <1>8, <4>1
    <3>6. QueryType(r)'
      <4>1. q'[r].pc \in QueryPcs /\ q'[r].list \in Reachable' \cup {Null} /\ q'[r].idx \in Int /\ q'[r].idx >= -1
        BY <3>2, <3>3 DEF QueryPcs
      <4>2. q'[r].first \in BOOLEAN /\ q'[r].hole \in BOOLEAN /\ q'[r].quiet \in BOOLEAN
        BY <1>2, <3>2, <3>3, Zenon
      <4>3. /\ q'[r].plan \in Seq(Clauses) /\ q'[r].asked \in Seq(Clauses) /\ q'[r].plan # <<>>
            /\ q'[r].max_rid \in 0..current_read_id' /\ q'[r].tok \in Nat /\ q'[r].count \in Nat
            /\ q'[r].results \subseteq 0..MaxId \cup Garbage /\ DOMAIN q'[r] = QueryFields
        BY <1>2, <1>6, <2>0, <3>2, <3>3, <3>4 DEF QueryType
      <4>4. QED
        BY <4>1, <4>2, <4>3 DEF QueryType
    <3>7. PlanOf(r)'
      <4>1. ASSUME NEW i \in 1..Len(q[r].asked)
            PROVE  \/ \E k \in 1..Len(u.plan) : u.plan[k] = q[r].asked[i]
                   \/ Matching(q[r].asked[i], q[r].max_rid) \subseteq q[r].results
        <5>1. CASE \E k \in 1..Len(q[r].plan) : q[r].plan[k] = q[r].asked[i]
          <6>1. PICK k \in 1..Len(q[r].plan) : q[r].plan[k] = q[r].asked[i]
            BY <5>1
          <6>2. CASE k = 1
            <7>1. q[r].asked[i] = Clause(r)
              BY <1>3, <6>1, <6>2
            <7>2. QED
              BY <3>5, <7>1 DEF Sought
          <6>3. CASE k # 1
            <7>1. k - 1 \in 1..Len(u.plan) /\ (k - 1) + 1 = k
              <8>1. PICK m \in Nat : m = Len(q[r].plan)
                BY <1>3
              <8>2. k \in 1..m /\ k # 1 /\ Len(u.plan) = m - 1
                BY <3>4, <6>1, <6>3, <8>1
              <8>3. QED
                BY <8>2
            <7>2. u.plan[k - 1] = q[r].plan[k]
              BY <3>4, <7>1
            <7>3. QED
              BY <6>1, <7>1, <7>2
          <6>4. QED
            BY <6>2, <6>3
        <5>2. QED
          BY <1>2, <1>4, <5>1 DEF PlanOf
      <4>2. ASSUME NEW k \in 1..Len(u.plan)
            PROVE  \E i \in 1..Len(q[r].asked) : u.plan[k] = q[r].asked[i]
        <5>1. k + 1 \in 1..Len(q[r].plan)
          BY <1>3, <3>4
        <5>2. QED
          BY <1>2, <3>4, <5>1 DEF PlanOf
      <4>3. \E p \in Plans : q[r].asked = p
        BY <1>1, <1>2 DEF PlanOf
      <4>4. ASSUME NEW i \in 1..Len(q[r].asked)
            PROVE  (Matching(q[r].asked[i], q[r].max_rid))' = Matching(q[r].asked[i], q[r].max_rid)
        BY <2>0, <3>2, <3>3
      <4>5. /\ q'[r].plan = u.plan /\ q'[r].asked = q[r].asked
            /\ q'[r].results = q[r].results /\ q'[r].max_rid = q[r].max_rid
        BY <3>2, <3>3
      <4>6. (\A i \in 1..Len(q[r].asked) :
               \/ \E k \in 1..Len(q[r].plan) : q[r].plan[k] = q[r].asked[i]
               \/ Matching(q[r].asked[i], q[r].max_rid) \subseteq q[r].results)'
        <5>1. SUFFICES ASSUME NEW i \in 1..Len(q[r].asked)
                       PROVE  \/ \E k \in 1..Len(u.plan) : u.plan[k] = q[r].asked[i]
                              \/ (Matching(q[r].asked[i], q[r].max_rid))' \subseteq q[r].results
          BY <4>5
        <5>2. QED
          BY <4>1, <4>4
      <4>7. (\A k \in 1..Len(q[r].plan) : \E i \in 1..Len(q[r].asked) : q[r].plan[k] = q[r].asked[i])'
        BY <4>2, <4>5
      <4>8. (\E p \in Plans : q[r].asked = p)'
        BY <4>3, <4>5
      <4>9. QED
        BY <4>6, <4>7, <4>8 DEF PlanOf
    <3>8. KeyOf(r)' /\ FoundOf(r)' /\ SeenOf(r)'
      BY <3>2, <3>3 DEF KeyOf, FoundOf, SeenOf, Active
    <3>9. CountOf(r)'
      BY <2>0, <3>2, <3>3 DEF CountOf
    <3>10. QuietOf(r)'
      <4>1. ASSUME q[r].quiet
            PROVE  /\ ~Changing'
                   /\ q'[r].max_rid = current_write_id'
                   /\ (\A k \in 1..Len(q[r].plan) : \A a \in q[r].plan[k].lo..q[r].plan[k].hi :
                         \A x \in Reachable : Leads(x, Key(a)) => Size(x) > 0)'
        <5>1. /\ ~Changing /\ q[r].max_rid = current_write_id
              /\ \A k \in 1..Len(q[r].plan) : \A a \in q[r].plan[k].lo..q[r].plan[k].hi :
                   \A x \in Reachable : Leads(x, Key(a)) => Size(x) > 0
          BY <1>2, <1>4, <4>1 DEF QuietOf
        <5>2. ASSUME NEW k \in 1..Len(u.plan)
              PROVE  \A a \in u.plan[k].lo..u.plan[k].hi :
                       \A x \in Reachable : Leads(x, Key(a)) => Size(x) > 0
          <6>1. k + 1 \in 1..Len(q[r].plan) /\ u.plan[k] = q[r].plan[k + 1]
            BY <1>3, <3>4
          <6>2. QED
            BY <5>1, <6>1
        <5>3. QED
          BY <2>0, <3>2, <3>3, <5>1, <5>2
      <4>2. q'[r].pc = "begin" /\ q'[r].quiet = q[r].quiet
        BY <3>2, <3>3
      <4>3. QED
        BY <4>1, <4>2 DEF QuietOf, Active
    <3>11. QED
      BY <3>3, <3>6, <3>7, <3>8, <3>9, <3>10 DEF QueryOf
  <2>4. CASE t # Clause(r).hi + 1
    <3>1. t <= Clause(r).hi /\ ~(t = Clause(r).hi + 1)
      BY <1>3, <1>6, <2>4
    <3>2. /\ u.pc = (IF l = Null THEN "scan" ELSE IF q[r].first THEN "deref" ELSE "check")
          /\ u.tok = t /\ u.idx = 0
          /\ u.list = l /\ u.first = q[r].first /\ u.hole = q[r].hole
          /\ u.plan = q[r].plan /\ u.max_rid = q[r].max_rid /\ u.count = q[r].count
          /\ u.results = q[r].results /\ u.asked = q[r].asked /\ u.quiet = q[r].quiet
          /\ DOMAIN u = QueryFields
      <4>1. CASE l = Null
        <5>1. u = s0
          BY <3>1, <4>1 DEF u
        <5>2. QED
          BY <2>1, <4>1, <5>1
      <4>2. CASE l # Null
        <5>1. u = [s0 EXCEPT !.pc = IF s0.first THEN "deref" ELSE "check"]
          BY <3>1, <4>2 DEF u, Reached
        <5>2. QED
          BY <2>1, <4>2, <5>1 DEF QueryFields
      <4>3. QED
        BY <4>1, <4>2
    <3>3. u.pc \in {"scan", "deref", "check"} /\ (u.pc = "scan" <=> l = Null)
          /\ (u.pc = "deref" => q[r].first) /\ (u.pc = "check" => ~q[r].first) /\ u.pc \in Active
      BY <3>2 DEF Active
    <3>4. /\ q'[r] = u
          /\ IndexInv' /\ StoreInv' /\ q' = [s \in Readers |-> q'[s]]
          /\ ~Changing => ~Changing'
          /\ \A s \in Readers : s # r => Steady(s)
      BY <1>1, <1>10, <3>3, OwnStep
    <3>5. Clause(r)' = Clause(r) /\ Sought(r)' = Sought(r)
      BY <1>1, <3>2, <3>4, SoughtStill
    <3>6. /\ l \in Reachable \cup {Null}
          /\ l # Null => Leads(l, Key(t))
          /\ l = Null => \A id \in Sought(r) : claimed[id + 1].tok # t
      <4>1. PICK c, b, x : c = Clause(r) /\ b = q[r].max_rid /\ x = at(KeyPath(t))
        OBVIOUS
      <4>2. /\ x \in Reachable \cup {Null}
            /\ x # Null => Leads(x, Key(t))
            /\ x = Null => \A id \in Matching(c, b) : claimed[id + 1].tok # t
        BY <1>2, <1>6, <4>1, ListAt
      <4>3. l = x /\ Sought(r) = Matching(c, b)
        BY <4>1 DEF l, Sought
      <4>4. QED
        BY <4>2, <4>3
    <3>7. KeyOf(r)'
      <4>1. l = Null => Here(r)' = {}
        BY <2>0, <3>2, <3>4, <3>5, <3>6 DEF Here
      <4>2. QED
        BY <1>6, <2>0, <3>1, <3>2, <3>3, <3>4, <3>5, <3>6, <4>1 DEF KeyOf
    <3>8. FoundOf(r)'
      <4>1. Behind(r)' \subseteq q[r].results
        BY <1>8, <2>0, <3>2, <3>4, <3>5 DEF Behind
      <4>2. l = Null => Here(r)' = {}
        BY <2>0, <3>2, <3>4, <3>5, <3>6 DEF Here
      <4>3. q'[r].idx = 0
        BY <3>2, <3>4
      <4>4. (Passed(r, q[r].idx))'
        BY <4>3 DEF Passed
      <4>5. QED
        BY <3>2, <3>3, <3>4, <4>1, <4>2, <4>4 DEF FoundOf
    <3>9. SeenOf(r)'
      BY <3>2, <3>3, <3>4 DEF SeenOf
    <3>10. q[r].quiet /\ Proper(r) /\ q'[r].list # Null /\ q'[r].pc # "scan" =>
             (q[r].idx < Size(q[r].list))'
      <4>1. SUFFICES ASSUME q[r].quiet, l # Null PROVE 0 < Size(l)
        BY <2>0, <3>2, <3>4
      <4>2. \A k \in 1..Len(q[r].plan) : \A a \in q[r].plan[k].lo..q[r].plan[k].hi :
              \A x \in Reachable : Leads(x, Key(a)) => Size(x) > 0
        BY <1>2, <1>4, <4>1 DEF QuietOf
      <4>3. 1 \in 1..Len(q[r].plan) /\ t \in q[r].plan[1].lo..q[r].plan[1].hi
        BY <1>3, <1>6, <3>1
      <4>4. Size(l) > 0
        BY <3>6, <4>1, <4>2, <4>3
      <4>5. Size(l) \in Nat
        BY LenProperties DEF Size, Entries, StoreInv, EntryInv
      <4>6. QED
        BY <4>4, <4>5
    <3>11. /\ q[r].pc \in Active \cup {"begin"} /\ q'[r].pc \in Active
           /\ DOMAIN q'[r] = QueryFields
           /\ q'[r].plan = q[r].plan /\ q'[r].asked = q[r].asked /\ q'[r].max_rid = q[r].max_rid
           /\ q'[r].quiet = q[r].quiet /\ q'[r].count = q[r].count
           /\ q[r].results \subseteq q'[r].results /\ q'[r].results \subseteq 0..MaxId \cup Garbage
           /\ q'[r].list \in Reachable \cup {Null}
           /\ q'[r].first \in BOOLEAN /\ q'[r].hole \in BOOLEAN
           /\ q'[r].tok \in Nat /\ q'[r].idx = 0
      BY <1>2, <1>4, <1>6, <3>2, <3>3, <3>4, <3>6, Zenon
    <3>12. q'[r].idx \in Int /\ q'[r].idx >= -1
      BY <3>11
    <3>13. q[r].quiet /\ Proper(r) => ~q'[r].hole
      BY <1>2, <1>4, <3>2, <3>4 DEF QuietOf
    <3>14. QueryOf(r)'
      BY <1>1, <3>4, <3>7, <3>8, <3>9, <3>10, <3>11, <3>12, <3>13, IteratorKept
    <3>15. QED
      BY <3>4, <3>14
  <2>5. QED
    BY <2>2, <2>3, <2>4
<1>11. QED
  BY <1>1, <1>9, <1>10


\* Entries that a query must find: reading one gives it, and its record is written.
LEMMA ReadSought ==
  ASSUME IndexInv, StoreInv, NEW c, NEW b \in 0..current_read_id, NEW l, NEW i \in Int, i >= 0,
         l # Null, NEW v \in Read(l, i), i + 1 \in 1..Size(l), Entries(l)[i + 1] \in Matching(c, b)
  PROVE  /\ v = Entries(l)[i + 1] /\ v < b /\ v \in DOMAIN records
         /\ c.pf => records[v].hit
<1>1. /\ Entries(l)[i + 1] \in 0..(current_read_id - 1) /\ Entries(l)[i + 1] < b
      /\ Entries(l)[i + 1] # Unset
  BY SoughtOn
<1>2. Size(l) \in Nat
  BY ReadFacts
<1>3. ~IsHole(l, i)
  BY <1>1, <1>2 DEF IsHole
<1>4. v = Entries(l)[i + 1]
  BY <1>3, ReadFacts
<1>5. v \in DOMAIN records /\ records[v] = claimed[v + 1]
  BY <1>1, <1>4 DEF StoreInv, RecordInv
<1>6. c.pf => claimed[v + 1].hit
  BY <1>4 DEF Matching
<1>7. QED
  BY <1>1, <1>4, <1>5, <1>6

\* A query that is undisturbed reads entries that are set, of records that are
\* written.
LEMMA ReadQuiet ==
  ASSUME IndexInv, StoreInv, QueryInv, NEW r \in Readers,
         q[r].pc \in {"check", "apply", "deref"}, q[r].quiet, Proper(r),
         NEW v \in Read(q[r].list, q[r].idx)
  PROVE  /\ v # Null /\ v \in DOMAIN records /\ ~IsHole(q[r].list, q[r].idx)
         /\ q[r].list # Null /\ q[r].idx >= 0 /\ q[r].tok <= Clause(r).hi
         /\ v \in 0..(current_write_id - 1) /\ v < q[r].max_rid
<1>1. QueryType(r) /\ KeyOf(r) /\ QuietOf(r)
  BY DEF QueryInv, QueryOf
<1>2. q[r].pc \in Active
  BY DEF Active
<1>3. /\ Clause(r).lo \in Nat /\ Clause(r).hi \in Nat /\ Clause(r) \in Range(q[r].asked)
  BY ClauseFacts
<1>4. Clause(r).lo <= Clause(r).hi
  BY <1>3 DEF Proper
<1>5. q[r].tok \in Nat /\ q[r].idx \in Int
  BY <1>1 DEF QueryType
<1>6. q[r].tok <= Clause(r).hi
  BY <1>1, <1>2, <1>3, <1>4, <1>5 DEF KeyOf
<1>7. q[r].list # Null /\ q[r].idx >= 0
  BY <1>1, <1>2, <1>6 DEF KeyOf
<1>8. ~Changing /\ q[r].max_rid = current_write_id /\ q[r].idx < Size(q[r].list)
  BY <1>1, <1>2, <1>7 DEF QuietOf
<1>9. ~IsHole(q[r].list, q[r].idx)
  BY <1>5, <1>7, <1>8, QuietEntry
<1>10. v \in 0..(current_write_id - 1) /\ v # Null
  BY <1>5, <1>7, <1>9, ReadFacts
<1>11. current_write_id \in Nat /\ current_read_id \in 0..current_write_id
       /\ q[r].max_rid \in 0..current_read_id
  BY <1>1 DEF QueryType, StoreInv, IdInv
<1>12. v \in 0..(current_read_id - 1) /\ v < q[r].max_rid
  BY <1>8, <1>10, <1>11
<1>13. v \in DOMAIN records
  BY <1>12 DEF StoreInv, RecordInv
<1>14. QED
  BY <1>6, <1>7, <1>9, <1>10, <1>12, <1>13

LEMMA CrashStep ==
  ASSUME IndexInv, StoreInv, QueryInv, NEW r \in Readers, NEW s, q' = [q EXCEPT ![r] = Crash(s)],
         UNCHANGED <<index_vars, store_vars>>, Arrived(r),
         s.asked \in Seq(Clauses), s.quiet \in BOOLEAN,
         s.quiet => \E c \in Range(s.asked) : ~(c.lo <= c.hi /\ ~OutOfTable(Path(c.hi + 1)))
  PROVE  /\ IndexInv' /\ StoreInv' /\ q' = [x \in Readers |-> q'[x]]
         /\ \A x \in Readers : x # r => Steady(x)
         /\ QueryOf(r)'
<1>1. Crash(s).pc = "crash" /\ Crash(s).asked = s.asked
  BY DEF Crash, NoQuery
<1>2. /\ q'[r] = Crash(s)
      /\ IndexInv' /\ StoreInv' /\ q' = [x \in Readers |-> q'[x]]
      /\ \A x \in Readers : x # r => Steady(x)
  BY <1>1, OwnStep
<1>3. Arrived(r)' /\ length' = length
  BY StoreStill
<1>4. s.quiet => ~Proper(r)'
  BY <1>1, <1>2, <1>3 DEF Proper, OutOfTable, Path, shape
<1>5. QueryOf(r)'
  BY <1>2, <1>3, <1>4, CrashOf
<1>6. QED
  BY <1>2, <1>5

\* operator++ looks at an entry.
LEMMA CheckOf ==
  ASSUME IndexInv, StoreInv, QueryInv, NEW r \in Readers, Check(r)
  PROVE  /\ IndexInv' /\ StoreInv' /\ q' = [s \in Readers |-> q'[s]]
         /\ \A s \in Readers : s # r => Steady(s)
         /\ QueryOf(r)'
<1> DEFINE l == q[r].list
           i == q[r].idx
           s0 == [q[r] EXCEPT !.hole = IsHole(q[r].list, q[r].idx)]
           u(p) == [s0 EXCEPT !.pc = p]
           p0 == IF Clause(r).pf THEN "apply" ELSE "deref"
<1>1. q[r].pc = "check" /\ UNCHANGED <<index_vars, store_vars>>
  BY DEF Check
<1>2. PICK v \in Read(l, i) :
        q' = [q EXCEPT ![r] = IF v = Null THEN Crash(s0)
                              ELSE IF v >= s0.max_rid THEN u("advance") ELSE u(p0)]
  BY DEF Check
<1>3. QueryType(r) /\ KeyOf(r) /\ FoundOf(r) /\ QuietOf(r) /\ CountOf(r)
  BY DEF QueryInv, QueryOf
<1>4. q[r].pc \in Active
  BY <1>1 DEF Active
<1>5. /\ Clause(r).lo \in Nat /\ Clause(r).hi \in Nat /\ Clause(r).pf \in BOOLEAN
  BY <1>1, ClauseFacts
<1>6. /\ ~q[r].first /\ q[r].tok <= Clause(r).hi /\ l # Null /\ i >= 0 /\ i \in Int
      /\ q[r].tok \in Nat /\ q[r].max_rid \in Nat /\ q[r].max_rid \in 0..current_read_id
      /\ Passed(r, i)
  BY <1>1, <1>3, <1>4 DEF KeyOf, QueryType, FoundOf, StoreInv, IdInv
<1>7. Arrived(r)
  BY <1>1, <1>3 DEF CountOf
<1>8. /\ s0.max_rid = q[r].max_rid /\ s0.asked = q[r].asked /\ s0.quiet = q[r].quiet
      /\ q[r].asked \in Seq(Clauses)
  BY <1>3 DEF QueryType, QueryFields
<1>9. q[r].quiet \in BOOLEAN /\ q[r].first \in BOOLEAN
  BY <1>3 DEF QueryType
<1>10. CASE v = Null
  <2>1. q' = [q EXCEPT ![r] = Crash(s0)]
    BY <1>2, <1>10
  <2>2. ~(q[r].quiet /\ Proper(r))
    BY <1>1, <1>10, ReadQuiet
  <2>3. s0.quiet => \E c \in Range(s0.asked) : ~(c.lo <= c.hi /\ ~OutOfTable(Path(c.hi + 1)))
    BY <1>8, <2>2 DEF Proper
  <2>4. s0.asked \in Seq(Clauses) /\ s0.quiet \in BOOLEAN
    BY <1>8, <1>9, Zenon
  <2> HIDE DEF s0
  <2>5. QED
    BY <1>1, <1>7, <2>1, <2>3, <2>4, CrashStep
<1>11. ASSUME v # Null, NEW p \in {"advance", "apply", "deref"}, q' = [q EXCEPT ![r] = u(p)],
              p = "advance" => v >= q[r].max_rid,
              p # "advance" => v < q[r].max_rid /\ p = p0
       PROVE  /\ IndexInv' /\ StoreInv' /\ q' = [s \in Readers |-> q'[s]]
              /\ \A s \in Readers : s # r => Steady(s)
              /\ QueryOf(r)'
  <2>1. /\ u(p).pc = p /\ DOMAIN u(p) = QueryFields
        /\ u(p).plan = q[r].plan /\ u(p).asked = q[r].asked /\ u(p).max_rid = q[r].max_rid
        /\ u(p).quiet = q[r].quiet /\ u(p).count = q[r].count /\ u(p).tok = q[r].tok
        /\ u(p).list = q[r].list /\ u(p).idx = q[r].idx /\ u(p).results = q[r].results
        /\ u(p).first = q[r].first
    BY <1>3 DEF QueryType, QueryFields
  <2>2. u(p).hole = IsHole(l, i)
    BY <1>3 DEF QueryType, QueryFields
  <2>3. PICK w : w = u(p)
    OBVIOUS
  <2>4. q' = [q EXCEPT ![r] = w] /\ w.hole = IsHole(l, i) /\ w.hole \in BOOLEAN
    BY <1>11, <2>2, <2>3, Zenon DEF IsHole
  <2>5. /\ w.pc = p /\ DOMAIN w = QueryFields
        /\ w.plan = q[r].plan /\ w.asked = q[r].asked /\ w.max_rid = q[r].max_rid
        /\ w.quiet = q[r].quiet /\ w.count = q[r].count /\ w.tok = q[r].tok
        /\ w.list = l /\ w.idx = i /\ w.results = q[r].results
        /\ w.first = q[r].first
    BY <2>1, <2>3
  <2> HIDE DEF u, s0
  <2>6. w.pc \in Active
    BY <2>5 DEF Active
  <2>7. v \in Nat /\ Size(l) \in Nat
    BY <1>6, <1>11, ReadFacts
  <2>8. ASSUME w.pc = "advance", NEW j \in 1..Size(w.list), j <= w.idx + 1,
               Entries(w.list)[j] \in Sought(r)
        PROVE  Entries(w.list)[j] \in w.results
    <3>1. CASE j <= i
      BY <1>6, <2>5, <2>8, <3>1 DEF Passed
    <3>2. CASE j = i + 1
      <4>1. PICK c, b : c = Clause(r) /\ b = q[r].max_rid
        OBVIOUS
      <4>2. i + 1 \in 1..Size(l) /\ Entries(l)[i + 1] \in Matching(c, b)
        BY <2>5, <2>8, <3>2, <4>1 DEF Sought
      <4>3. v < b
        BY <1>6, <4>1, <4>2, ReadSought
      <4>4. QED
        BY <1>6, <1>11, <2>5, <2>7, <2>8, <4>1, <4>3
    <3>3. QED
      BY <1>6, <2>5, <2>8, <3>1, <3>2
  <2>9. ASSUME NEW j \in 1..Size(w.list), j <= w.idx, Entries(w.list)[j] \in Sought(r)
        PROVE  Entries(w.list)[j] \in w.results
    BY <1>6, <2>5, <2>9 DEF Passed
  <2>10. q[r].quiet /\ Proper(r) /\ w.list # Null /\ w.pc # "scan" => w.idx < Size(w.list)
    BY <1>1, <1>3, <1>4, <2>5 DEF QuietOf
  <2>11. SeenOf(r)'
    <3>1. q'[r] = w
      BY <2>4, QueryUpdate
    <3>2. /\ \A x : Entries(x)' = Entries(x)
          /\ \A x, k : IsHole(x, k)' <=> IsHole(x, k)
      BY <1>1, StoreStill
    <3>3. Clause(r)' = Clause(r)
      BY <2>5, <3>1 DEF Clause
    <3>4. SUFFICES ASSUME p \in {"apply", "deref"}
                   PROVE  /\ ~w.hole => Seen(r)'
                          /\ p = "apply" => Clause(r).pf
      BY <2>5, <3>1, <3>3 DEF SeenOf
    <3>5. p = p0 /\ v < q[r].max_rid
      BY <1>11, <3>4
    <3>6. ASSUME ~w.hole
          PROVE  Seen(r)'
      <4>1. ~IsHole(l, i)
        BY <2>4, <3>6
      <4>2. v = Entries(l)[i + 1]
        BY <1>6, <4>1, ReadFacts
      <4>3. ~IsHole(q[r].list, q[r].idx)'
        BY <2>5, <3>1, <3>2, <4>1
      <4>4. (Entries(q[r].list)[q[r].idx + 1] < q[r].max_rid)'
        BY <2>5, <3>1, <3>2, <3>5, <4>2
      <4>5. ~(q'[r].pc = "deref" /\ Clause(r)'.pf)
        BY <2>5, <3>1, <3>3, <3>5
      <4>6. QED
        BY <4>3, <4>4, <4>5 DEF Seen
    <3>7. QED
      BY <3>5, <3>6
  <2>12. /\ w.results \subseteq 0..MaxId \cup Garbage /\ q[r].results \subseteq w.results
         /\ w.first \in BOOLEAN /\ w.idx \in Int /\ w.idx >= -1
         /\ w.tok <= Clause(r).hi
         /\ w.list # Null /\ w.idx >= 0 /\ ~w.first /\ w.pc # "scan"
    BY <1>3, <1>6, <1>9, <2>5 DEF QueryType
  <2>13. q[r].quiet /\ Proper(r) => ~w.hole
    BY <1>1, <2>4, ReadQuiet
  <2>14. QED
    BY <1>1, <1>4, <2>4, <2>5, <2>6, <2>8, <2>9, <2>10, <2>11, <2>12, <2>13, SameKeyOf
<1> HIDE DEF u
<1>12. CASE v # Null /\ v >= q[r].max_rid
  <2>1. q' = [q EXCEPT ![r] = u("advance")]
    BY <1>2, <1>8, <1>12
  <2>2. QED
    BY <1>11, <1>12, <2>1
<1>13. CASE v # Null /\ ~(v >= q[r].max_rid)
  <2>1. q' = [q EXCEPT ![r] = u(p0)]
    BY <1>2, <1>8, <1>13
  <2>2. v \in Nat
    BY <1>6, <1>13, ReadFacts
  <2>3. v < q[r].max_rid
    BY <1>6, <1>13, <2>2
  <2>4. p0 \in {"apply", "deref"}
    OBVIOUS
  <2>5. QED
    BY <1>11, <1>13, <2>1, <2>3, <2>4
<1>14. QED
  BY <1>10, <1>12, <1>13


\* The packet filter is applied to the record of an entry.
LEMMA ApplyOf ==
  ASSUME IndexInv, StoreInv, QueryInv, NEW r \in Readers, Apply(r)
  PROVE  /\ IndexInv' /\ StoreInv' /\ q' = [s \in Readers |-> q'[s]]
         /\ \A s \in Readers : s # r => Steady(s)
         /\ QueryOf(r)'
<1> DEFINE l == q[r].list
           i == q[r].idx
           u(p) == [q[r] EXCEPT !.pc = p]
<1>1. q[r].pc = "apply" /\ UNCHANGED <<index_vars, store_vars>>
  BY DEF Apply
<1>2. PICK v \in Read(l, i) :
        \/ v \notin DOMAIN records /\ q' = [q EXCEPT ![r] = Crash(q[r])]
        \/ v \notin DOMAIN records /\ \E p \in {"deref", "advance"} : q' = [q EXCEPT ![r] = u(p)]
        \/ /\ v \in DOMAIN records
           /\ q' = [q EXCEPT ![r] = u(IF records[v].hit THEN "deref" ELSE "advance")]
  BY DEF Apply
<1>3. QueryType(r) /\ KeyOf(r) /\ FoundOf(r) /\ SeenOf(r) /\ QuietOf(r) /\ CountOf(r)
  BY DEF QueryInv, QueryOf
<1>4. q[r].pc \in Active
  BY <1>1 DEF Active
<1>5. /\ Clause(r).lo \in Nat /\ Clause(r).hi \in Nat /\ Clause(r).pf
  BY <1>1, <1>3, ClauseFacts DEF SeenOf
<1>6. /\ ~q[r].first /\ q[r].tok <= Clause(r).hi /\ l # Null /\ i >= 0 /\ i \in Int
      /\ q[r].tok \in Nat /\ q[r].max_rid \in Nat /\ q[r].max_rid \in 0..current_read_id
      /\ Passed(r, i) /\ current_read_id \in Nat
  BY <1>1, <1>3, <1>4 DEF KeyOf, QueryType, FoundOf, StoreInv, IdInv
<1>7. Arrived(r)
  BY <1>1, <1>3 DEF CountOf
<1>8. q[r].quiet \in BOOLEAN /\ q[r].first \in BOOLEAN /\ q[r].hole \in BOOLEAN
      /\ q[r].asked \in Seq(Clauses)
  BY <1>3 DEF QueryType
<1>9. CASE v \notin DOMAIN records /\ q' = [q EXCEPT ![r] = Crash(q[r])]
  <2>1. ~(q[r].quiet /\ Proper(r))
    BY <1>1, <1>9, ReadQuiet
  <2>2. q[r].quiet => \E c \in Range(q[r].asked) : ~(c.lo <= c.hi /\ ~OutOfTable(Path(c.hi + 1)))
    BY <2>1 DEF Proper
  <2>3. QED
    BY <1>1, <1>7, <1>8, <1>9, <2>2, CrashStep
<1>10. ASSUME NEW p \in {"advance", "deref"}, q' = [q EXCEPT ![r] = u(p)],
              v \in DOMAIN records => p = IF records[v].hit THEN "deref" ELSE "advance"
       PROVE  /\ IndexInv' /\ StoreInv' /\ q' = [s \in Readers |-> q'[s]]
              /\ \A s \in Readers : s # r => Steady(s)
              /\ QueryOf(r)'
  <2>1. /\ u(p).pc = p /\ DOMAIN u(p) = QueryFields
        /\ u(p).plan = q[r].plan /\ u(p).asked = q[r].asked /\ u(p).max_rid = q[r].max_rid
        /\ u(p).quiet = q[r].quiet /\ u(p).count = q[r].count /\ u(p).tok = q[r].tok
        /\ u(p).list = q[r].list /\ u(p).idx = q[r].idx /\ u(p).results = q[r].results
        /\ u(p).first = q[r].first /\ u(p).hole = q[r].hole
    BY <1>3 DEF QueryType, QueryFields
  <2>2. PICK w : w = u(p)
    OBVIOUS
  <2>3. q' = [q EXCEPT ![r] = w]
    BY <1>10, <2>2
  <2>4. /\ w.pc = p /\ DOMAIN w = QueryFields
        /\ w.plan = q[r].plan /\ w.asked = q[r].asked /\ w.max_rid = q[r].max_rid
        /\ w.quiet = q[r].quiet /\ w.count = q[r].count /\ w.tok = q[r].tok
        /\ w.list = l /\ w.idx = i /\ w.results = q[r].results
        /\ w.first = q[r].first /\ w.hole = q[r].hole
    BY <2>1, <2>2
  <2> HIDE DEF u
  <2>5. w.pc \in Active
    BY <2>4 DEF Active
  <2>6. ASSUME w.pc = "advance", NEW j \in 1..Size(w.list), j <= w.idx + 1,
               Entries(w.list)[j] \in Sought(r)
        PROVE  Entries(w.list)[j] \in w.results
    <3>1. CASE j <= i
      BY <1>6, <2>4, <2>6, <3>1 DEF Passed
    <3>2. CASE j = i + 1
      <4>1. PICK c, b : c = Clause(r) /\ b = q[r].max_rid
        OBVIOUS
      <4>2. i + 1 \in 1..Size(l) /\ Entries(l)[i + 1] \in Matching(c, b)
        BY <2>4, <2>6, <3>2, <4>1 DEF Sought
      <4>3. v \in DOMAIN records /\ (c.pf => records[v].hit)
        BY <1>6, <4>1, <4>2, ReadSought
      <4>4. QED
        BY <1>5, <1>10, <2>4, <2>6, <4>1, <4>3
    <3>3. QED
      <4>1. Size(l) \in Nat
        BY <1>6, ReadFacts
      <4>2. QED
        BY <1>6, <2>4, <2>6, <3>1, <3>2, <4>1
  <2>7. ASSUME NEW j \in 1..Size(w.list), j <= w.idx, Entries(w.list)[j] \in Sought(r)
        PROVE  Entries(w.list)[j] \in w.results
    BY <1>6, <2>4, <2>7 DEF Passed
  <2>8. q[r].quiet /\ Proper(r) /\ w.list # Null /\ w.pc # "scan" => w.idx < Size(w.list)
    BY <1>1, <1>3, <1>4, <2>4 DEF QuietOf
  <2>9. SeenOf(r)'
    <3>1. q'[r] = w
      BY <2>3, QueryUpdate
    <3>2. /\ \A x : Entries(x)' = Entries(x)
          /\ \A x, k : IsHole(x, k)' <=> IsHole(x, k)
          /\ claimed' = claimed
      BY <1>1, StoreStill
    <3>3. SUFFICES ASSUME ~q[r].hole, p = "deref"
                   PROVE  Seen(r)'
      BY <2>4, <3>1 DEF SeenOf
    <3>4. Seen(r)
      BY <1>1, <1>3, <1>6, <3>3 DEF SeenOf
    <3>5. ~IsHole(l, i) /\ Entries(l)[i + 1] < q[r].max_rid
      BY <3>4 DEF Seen
    <3>6. v = Entries(l)[i + 1] /\ v \in 0..(current_write_id - 1)
      BY <1>6, <3>5, ReadFacts
    <3>7. v \in 0..(current_read_id - 1)
      BY <1>6, <3>5, <3>6
    <3>8. v \in DOMAIN records /\ records[v] = claimed[v + 1]
      BY <3>7 DEF StoreInv, RecordInv
    <3>9. claimed[v + 1].hit
      BY <1>10, <3>3, <3>8
    <3>10. ~IsHole(q[r].list, q[r].idx)'
      BY <2>4, <3>1, <3>2, <3>5
    <3>11. (Entries(q[r].list)[q[r].idx + 1] < q[r].max_rid)'
      BY <2>4, <3>1, <3>2, <3>5
    <3>12. (claimed[Entries(q[r].list)[q[r].idx + 1] + 1].hit)'
      BY <2>4, <3>1, <3>2, <3>6, <3>9
    <3>13. QED
      BY <3>10, <3>11, <3>12 DEF Seen
  <2>10. /\ w.results \subseteq 0..MaxId \cup Garbage /\ q[r].results \subseteq w.results
         /\ w.first \in BOOLEAN /\ w.hole \in BOOLEAN /\ w.idx \in Int /\ w.idx >= -1
         /\ w.tok <= Clause(r).hi
         /\ w.list # Null /\ w.idx >= 0 /\ ~w.first /\ w.pc # "scan"
    BY <1>3, <1>6, <1>8, <2>4 DEF QueryType
  <2>11. q[r].quiet /\ Proper(r) => ~w.hole
    BY <1>3, <1>4, <2>4 DEF QuietOf
  <2>12. QED
    BY <1>1, <1>4, <2>3, <2>4, <2>5, <2>6, <2>7, <2>8, <2>9, <2>10, <2>11, SameKeyOf
<1> HIDE DEF u
<1>11. QED
  BY <1>2, <1>9, <1>10

\* operator* reads the entry.
LEMMA DerefOf ==
  ASSUME IndexInv, StoreInv, QueryInv, NEW r \in Readers, Deref(r)
  PROVE  /\ IndexInv' /\ StoreInv' /\ q' = [s \in Readers |-> q'[s]]
         /\ \A s \in Readers : s # r => Steady(s)
         /\ QueryOf(r)'
<1> DEFINE l == q[r].list
           i == q[r].idx
           u(v) == [q[r] EXCEPT !.pc = "advance", !.first = FALSE, !.hole = FALSE,
                                !.results = q[r].results \cup {v}]
<1>1. q[r].pc = "deref" /\ UNCHANGED <<index_vars, store_vars>>
  BY DEF Deref
<1>2. PICK v \in Read(l, i) : q' = [q EXCEPT ![r] = IF v = Null THEN Crash(q[r]) ELSE u(v)]
  BY DEF Deref
<1>3. QueryType(r) /\ KeyOf(r) /\ FoundOf(r) /\ SeenOf(r) /\ QuietOf(r) /\ CountOf(r)
  BY DEF QueryInv, QueryOf
<1>4. q[r].pc \in Active
  BY <1>1 DEF Active
<1>5. /\ Clause(r).lo \in Nat /\ Clause(r).hi \in Nat
  BY <1>1, ClauseFacts
<1>6. /\ i \in Int /\ q[r].tok \in Nat /\ q[r].max_rid \in 0..current_read_id
      /\ Passed(r, i)
  BY <1>1, <1>3, <1>4 DEF QueryType, FoundOf
<1>7. Arrived(r)
  BY <1>1, <1>3 DEF CountOf
<1>8. q[r].quiet \in BOOLEAN /\ q[r].asked \in Seq(Clauses)
  BY <1>3 DEF QueryType
<1>9. CASE v = Null
  <2>1. ~(q[r].quiet /\ Proper(r))
    BY <1>1, <1>9, ReadQuiet
  <2>2. q[r].quiet => \E c \in Range(q[r].asked) : ~(c.lo <= c.hi /\ ~OutOfTable(Path(c.hi + 1)))
    BY <2>1 DEF Proper
  <2>3. QED
    BY <1>1, <1>2, <1>7, <1>8, <1>9, <2>2, CrashStep
<1>10. CASE v # Null
  <2>1. /\ u(v).pc = "advance" /\ DOMAIN u(v) = QueryFields
        /\ u(v).plan = q[r].plan /\ u(v).asked = q[r].asked /\ u(v).max_rid = q[r].max_rid
        /\ u(v).quiet = q[r].quiet /\ u(v).count = q[r].count /\ u(v).tok = q[r].tok
        /\ u(v).list = q[r].list /\ u(v).idx = q[r].idx /\ u(v).results = q[r].results \cup {v}
        /\ u(v).first = FALSE /\ u(v).hole = FALSE
    BY <1>3 DEF QueryType, QueryFields
  <2>2. PICK w : w = u(v)
    OBVIOUS
  <2>3. q' = [q EXCEPT ![r] = w]
    BY <1>2, <1>10, <2>2
  <2>4. /\ w.pc = "advance" /\ DOMAIN w = QueryFields
        /\ w.plan = q[r].plan /\ w.asked = q[r].asked /\ w.max_rid = q[r].max_rid
        /\ w.quiet = q[r].quiet /\ w.count = q[r].count /\ w.tok = q[r].tok
        /\ w.list = l /\ w.idx = i /\ w.results = q[r].results \cup {v}
        /\ w.first = FALSE /\ w.hole = FALSE
    BY <2>1, <2>2
  <2> HIDE DEF u
  <2>5. w.pc \in Active
    BY <2>4 DEF Active
  <2>6. v \in Nat /\ v \in 0..MaxId \cup Garbage /\ l # Null /\ i >= 0 /\ Size(l) \in Nat
    BY <1>6, <1>10, ReadFacts
  <2>7. q[r].tok <= Clause(r).hi
    BY <1>3, <1>4, <2>6 DEF KeyOf
  <2>8. ASSUME NEW j \in 1..Size(w.list), j <= w.idx + 1, Entries(w.list)[j] \in Sought(r)
        PROVE  Entries(w.list)[j] \in w.results
    <3>1. CASE j <= i
      BY <1>6, <2>4, <2>8, <3>1 DEF Passed
    <3>2. CASE j = i + 1
      <4>1. PICK c, b : c = Clause(r) /\ b = q[r].max_rid
        OBVIOUS
      <4>2. i + 1 \in 1..Size(l) /\ Entries(l)[i + 1] \in Matching(c, b)
        BY <2>4, <2>8, <3>2, <4>1 DEF Sought
      <4>3. v = Entries(l)[i + 1]
        BY <1>6, <2>6, <4>1, <4>2, ReadSought
      <4>4. QED
        BY <2>4, <3>2, <4>3
    <3>3. QED
      BY <1>6, <2>4, <2>6, <2>8, <3>1, <3>2
  <2>9. q[r].quiet /\ Proper(r) /\ w.list # Null /\ w.pc # "scan" => w.idx < Size(w.list)
    BY <1>1, <1>3, <1>4, <2>4 DEF QuietOf
  <2>10. SeenOf(r)'
    <3>1. q'[r] = w
      BY <2>3, QueryUpdate
    <3>2. QED
      BY <2>4, <3>1 DEF SeenOf
  <2>11. w.results \subseteq 0..MaxId \cup Garbage /\ q[r].results \subseteq w.results
    <3>1. q[r].results \subseteq 0..MaxId \cup Garbage
      BY <1>3 DEF QueryType
    <3>2. QED
      BY <2>4, <2>6, <3>1
  <2>12. w.idx \in Int /\ w.idx >= -1 /\ w.tok <= Clause(r).hi
    BY <1>6, <2>4, <2>6, <2>7
  <2>13. w.first \in BOOLEAN /\ w.hole \in BOOLEAN
    BY <2>4
  <2>14. QED
    BY <1>1, <1>4, <2>3, <2>4, <2>5, <2>8, <2>9, <2>10, <2>11, <2>12, <2>13, SameKeyOf
<1>11. QED
  BY <1>9, <1>10

\* A query on an index that filter() does not know.
LEMMA UnknownOf ==
  ASSUME IndexInv, StoreInv, QueryInv, NEW r \in Readers, Unknown(r)
  PROVE  /\ IndexInv' /\ StoreInv' /\ q' = [s \in Readers |-> q'[s]]
         /\ \A s \in Readers : s # r => Steady(s)
         /\ QueryOf(r)'
<1> DEFINE none == [lo |-> 1, hi |-> 0, pf |-> FALSE]
           u == [q[r] EXCEPT !.asked = <<none>>]
<1>1. q[r].pc = "idle" /\ UNCHANGED <<index_vars, store_vars>> /\ q' = [q EXCEPT ![r] = Crash(u)]
  BY DEF Unknown
<1>2. QueryType(r) /\ CountOf(r)
  BY DEF QueryInv, QueryOf
<1>3. Arrived(r)
  BY <1>1, <1>2 DEF CountOf
<1>4. u.asked = <<none>> /\ u.quiet = q[r].quiet
  BY <1>2 DEF QueryType, QueryFields
<1>5. q[r].quiet \in BOOLEAN
  BY <1>2 DEF QueryType
<1>6. u.quiet \in BOOLEAN
  BY <1>4, <1>5, Zenon
<1>7. none \in Clauses
  BY DEF Clauses
<1>8. none \in Range(<<none>>)
  <2>1. 1 \in DOMAIN <<none>> /\ <<none>>[1] = none
    OBVIOUS
  <2>2. QED
    BY <2>1 DEF Range
<1>9. ~(none.lo <= none.hi)
  OBVIOUS
<1> HIDE DEF none, u
<1>10. u.asked \in Seq(Clauses)
  BY <1>4, <1>7
<1>11. u.quiet => \E c \in Range(u.asked) : ~(c.lo <= c.hi /\ ~OutOfTable(Path(c.hi + 1)))
  BY <1>4, <1>8, <1>9
<1>12. QED
  BY <1>1, <1>3, <1>6, <1>10, <1>11, CrashStep


\* A reader that creates nodes: the other queries are told, or were told before.
LEMMA ReaderStep ==
  ASSUME IndexInv, StoreInv, QueryInv, NEW r \in Readers, NEW u,
         IndexInv', Reachable \subseteq Reachable', length' = length, UNCHANGED store_vars,
         \A t \in Threads : t # r => walk'[t] = walk[t],
         \/ q' = [Disturb EXCEPT ![r] = u]
         \/ q' = [q EXCEPT ![r] = u] /\ Changing
  PROVE  /\ StoreInv' /\ q'[r] = u /\ q' = [s \in Readers |-> q'[s]]
         /\ \A s \in Readers : s # r => Steady(s)
<1>1. /\ view' = view /\ current_write_id' = current_write_id /\ current_read_id' = current_read_id
      /\ records' = records /\ lists' = lists /\ op' = op /\ claimed' = claimed
  BY DEF store_vars
<1>2. \A w \in Writers : walk'[w] = walk[w]
  BY ThreadAssumption
<1>3. StoreInv'
  BY <1>2, StoreSame
<1>4. ListsGrow
  BY <1>1, SameLists
<1>5. current_read_id \in Nat /\ current_write_id \in Nat
  BY NumberAssumption DEF StoreInv, IdInv
<1>6. CASE q' = [Disturb EXCEPT ![r] = u]
  <2>1. /\ q'[r] = u /\ q' = [s \in Readers |-> q'[s]]
        /\ \A s \in Readers : s # r => q'[s] = [q[s] EXCEPT !.quiet = FALSE]
    BY <1>6 DEF Disturb
  <2>2. ASSUME NEW s \in Readers, s # r
        PROVE  Steady(s)
    <3>1. q'[s] = [q[s] EXCEPT !.quiet = FALSE]
      BY <2>1, <2>2
    <3>2. DOMAIN q[s] = QueryFields
      BY DEF QueryInv, QueryOf, QueryType
    <3>3. ~q'[s].quiet
      BY <3>1, <3>2 DEF QueryFields
    <3>4. walk'[s] = walk[s]
      BY <2>2, ThreadAssumption
    <3>5. QED
      BY <1>1, <1>4, <1>5, <3>1, <3>3, <3>4 DEF Steady
  <2>3. QED
    BY <1>3, <2>1, <2>2
<1>7. CASE q' = [q EXCEPT ![r] = u] /\ Changing
  <2>1. /\ q'[r] = u
        /\ \A s \in Readers : s # r => q'[s] = q[s]
        /\ q' = [s \in Readers |-> q'[s]]
    BY <1>7, QueryUpdate
  <2>2. ASSUME NEW s \in Readers, s # r
        PROVE  Steady(s)
    <3>1. q'[s] = q[s] /\ walk'[s] = walk[s]
      BY <2>1, <2>2, ThreadAssumption
    <3>2. QED
      BY <1>1, <1>4, <1>5, <1>7, <3>1 DEF Steady
  <2>3. QED
    BY <1>3, <2>1, <2>2
<1>8. QED
  BY <1>6, <1>7

\* The plans.
LEMMA PlanFacts ==
  ASSUME NEW p \in Plans
  PROVE  /\ p \in Seq(Clauses) /\ Len(p) \in Nat \ {0} /\ p # <<>> /\ p[1] \in Clauses
         /\ p[1].lo \in Nat /\ p[1].hi \in Nat /\ p[1].lo <= p[1].hi + 1
         /\ \A c \in Range(p) : c \in Clauses
<1>1. p \in Seq([lo : Nat, hi : Nat, pf : BOOLEAN]) /\ p # <<>>
  BY PlanAssumption
<1>2. \A c \in Range(p) : c.lo <= c.hi + 1
  BY PlanAssumption
<1>3. Len(p) \in Nat /\ DOMAIN p = 1..Len(p) /\ Len(p) # 0
  BY <1>1
<1>4. ASSUME NEW i \in 1..Len(p)
      PROVE  p[i] \in Clauses
  <2>1. p[i] \in [lo : Nat, hi : Nat, pf : BOOLEAN]
    BY <1>1, <1>4, ElementOfSeq
  <2>2. p[i] \in Range(p)
    BY <1>3 DEF Range
  <2>3. QED
    BY <1>2, <2>1, <2>2 DEF Clauses
<1>5. p \in Seq(Clauses)
  <2>1. p = [i \in 1..Len(p) |-> p[i]]
    BY <1>1
  <2>2. p \in [1..Len(p) -> Clauses]
    BY <1>4, <2>1
  <2>3. QED
    BY <1>3, <2>2, SeqDef
<1>6. p[1] \in Clauses
  BY <1>3, <1>4
<1>7. \A c \in Range(p) : c \in Clauses
  BY <1>3, <1>4 DEF Range
<1>8. QED
  BY <1>3, <1>1, <1>5, <1>6, <1>7 DEF Clauses

\* With nobody inserting, every claimed id is published.
LEMMA AtRestPublished ==
  ASSUME StoreInv, ~Changing
  PROVE  current_read_id = current_write_id
<1>1. current_write_id \in Nat /\ current_read_id \in 0..current_write_id
  BY NumberAssumption DEF StoreInv, IdInv
<1>2. \A id \in current_read_id..(current_write_id - 1) : \E w \in Writers : op[w].pc # "idle"
  BY DEF StoreInv, IdInv, Held
<1>3. \A id \in current_read_id..(current_write_id - 1) : FALSE
  BY <1>2 DEF Changing
<1>4. QED
  BY <1>1, <1>3

\* What no empty lists means for the keys of a plan.
LEMMA NoEmptyLists ==
  ASSUME IndexInv, StoreInv, EmptyLists = {}, NEW p \in Plans
  PROVE  \A k \in 1..Len(p) : \A a \in p[k].lo..p[k].hi :
           \A l \in Reachable : Leads(l, Key(a)) => Size(l) > 0
<1>1. SUFFICES ASSUME NEW k \in 1..Len(p), NEW a \in p[k].lo..p[k].hi,
                      NEW l \in Reachable, Leads(l, Key(a))
               PROVE  Size(l) > 0
  OBVIOUS
<1>2. p \in Seq(Clauses) /\ DOMAIN p = 1..Len(p)
  BY PlanFacts
<1>3. p[k] \in Range(p)
  BY <1>2 DEF Range
<1>4. p[k] \in Clauses
  BY <1>3, PlanFacts
<1>5. a \in Nat
  BY <1>4 DEF Clauses
<1>6. at(KeyPath(a)) = l
  BY <1>1, <1>5, AtKey DEF StoreInv
<1>7. l # Null
  BY NullNode DEF IndexInv, Nodes
<1>8. a \in UNION {c.lo..c.hi : c \in UNION {Range(x) : x \in Plans}}
  BY <1>3
<1>9. Size(l) # 0
  BY <1>6, <1>7, <1>8 DEF EmptyLists
<1>10. Size(l) \in Nat
  BY LenProperties DEF Size, Entries, StoreInv, EntryInv
<1>11. QED
  BY <1>9, <1>10


\* The state a query starts in.
LEMMA StartQuery ==
  ASSUME IndexInv, StoreInv, QueryInv, NEW r \in Readers, NEW p \in Plans, NEW o \in {"begin", "count"},
         IndexInv', StoreInv', UNCHANGED store_vars, length' = length,
         q'[r] = [NoQuery EXCEPT !.pc = o, !.plan = p, !.asked = p, !.tok = p[1].lo,
                    !.max_rid = current_read_id, !.quiet = EmptyLists = {} /\ ~Changing],
         o = "begin" => Arrived(r)' /\ Reachable' = Reachable /\ (~Changing => ~Changing'),
         o = "count" => Len(p) = 1 /\ ~p[1].pf,
         ~Arrived(r)' => view = "char" /\ p[1].lo <= p[1].hi,
         view = "char" /\ o = "count" /\ p[1].lo <= p[1].hi =>
           OnWay(walk'[r].node, walk'[r].path, Key(p[1].lo))
  PROVE  QueryOf(r)'
<1>1. /\ q'[r].pc = o /\ q'[r].plan = p /\ q'[r].asked = p /\ q'[r].tok = p[1].lo
      /\ q'[r].max_rid = current_read_id
      /\ q'[r].idx = 0 /\ q'[r].list = Null /\ q'[r].first = FALSE /\ q'[r].hole = FALSE
      /\ q'[r].count = 0 /\ q'[r].results = {} /\ DOMAIN q'[r] = QueryFields
  BY DEF NoQuery, QueryFields
<1>2. q'[r].quiet = (EmptyLists = {} /\ ~Changing)
  BY DEF NoQuery
<1>3. /\ p \in Seq(Clauses) /\ Len(p) \in Nat \ {0} /\ p # <<>>
      /\ p[1].lo \in Nat /\ p[1].hi \in Nat /\ p[1].lo <= p[1].hi + 1
  BY PlanFacts
<1>4. /\ view' = view /\ current_write_id' = current_write_id /\ current_read_id' = current_read_id
      /\ records' = records /\ lists' = lists /\ op' = op /\ claimed' = claimed
  BY DEF store_vars
<1>5. /\ current_write_id \in Nat /\ current_read_id \in 0..current_write_id
      /\ current_read_id \in Nat
  BY NumberAssumption DEF StoreInv, IdInv
<1>6. /\ \A a : Key(a)' = Key(a)
      /\ \A l : Size(l)' = Size(l)
      /\ \A c, b : Matching(c, b)' = Matching(c, b)
  BY <1>4, SamePaths DEF Size, Entries, Matching
<1>7. QueryType(r)'
  <2>1. q'[r].quiet \in BOOLEAN
    BY <1>2, Zenon
  <2>2. /\ q'[r].pc \in QueryPcs /\ q'[r].max_rid \in 0..current_read_id'
        /\ q'[r].first \in BOOLEAN /\ q'[r].hole \in BOOLEAN
    <3>1. q'[r].max_rid \in 0..current_read_id'
      BY <1>1, <1>4, <1>5
    <3>2. q'[r].pc \in QueryPcs
      BY <1>1 DEF QueryPcs
    <3>3. q'[r].first \in BOOLEAN /\ q'[r].hole \in BOOLEAN
      BY <1>1, Zenon
    <3>4. QED
      BY <3>1, <3>2, <3>3
  <2>3. /\ q'[r].tok \in Nat /\ q'[r].idx \in Int /\ q'[r].idx >= -1 /\ q'[r].count \in Nat
        /\ q'[r].list \in Reachable' \cup {Null} /\ q'[r].results \subseteq 0..MaxId \cup Garbage
        /\ q'[r].plan \in Seq(Clauses) /\ q'[r].asked \in Seq(Clauses) /\ q'[r].plan # <<>>
    BY <1>1, <1>3
  <2>4. QED
    BY <1>1, <2>1, <2>2, <2>3 DEF QueryType
<1>8. PlanOf(r)'
  BY <1>1 DEF PlanOf
<1>9. KeyOf(r)' /\ FoundOf(r)' /\ SeenOf(r)'
  BY <1>1 DEF KeyOf, FoundOf, SeenOf, Active
<1>10. QuietOf(r)'
  <2>1. SUFFICES ASSUME EmptyLists = {}, ~Changing, o = "begin"
                 PROVE  /\ ~Changing'
                        /\ q'[r].max_rid = current_write_id'
                        /\ (\A k \in 1..Len(q[r].plan) : \A t \in q[r].plan[k].lo..q[r].plan[k].hi :
                              \A l \in Reachable : Leads(l, Key(t)) => Size(l) > 0)'
    BY <1>1, <1>2 DEF QuietOf, Active
  <2>2. ~Changing' /\ q'[r].max_rid = current_write_id'
    BY <1>1, <1>4, <2>1, AtRestPublished
  <2>3. \A k \in 1..Len(p) : \A a \in p[k].lo..p[k].hi :
          \A l \in Reachable : Leads(l, Key(a)) => Size(l) > 0
    BY <2>1, NoEmptyLists
  <2>4. Reachable' = Reachable
    BY <2>1
  <2>5. QED
    BY <1>1, <1>6, <2>2, <2>3, <2>4
<1>11. CountOf(r)'
  <2>1. ~Arrived(r)' => q'[r].pc = "count"
    BY <1>1
  <2>2. ASSUME o = "count"
        PROVE  /\ Len(q'[r].plan) = 1 /\ q'[r].asked = q'[r].plan /\ ~Clause(r)'.pf
               /\ Clause(r)' = p[1]
               /\ q'[r].tok \in Clause(r)'.lo..(Clause(r)'.hi + 1)
               /\ ~Arrived(r)' => view' = "char" /\ q'[r].tok <= Clause(r)'.hi
               /\ view' = "char" /\ q'[r].tok <= Clause(r)'.hi =>
                    OnWay(walk'[r].node, walk'[r].path, (Key(q[r].tok))')
               /\ Cardinality(Behind(r)') <= q'[r].count
               /\ q'[r].count <= Cardinality(Counted(r)')
    <3>1. Head(q'[r].plan) = p[1]
      BY <1>1, <1>3
    <3>2. Clause(r)' = p[1]
      BY <3>1 DEF Clause
    <3>3. Behind(r)' = {}
      <4>1. \A id \in Matching(p[1], current_read_id) : ~(claimed[id + 1].tok < p[1].lo)
        BY <1>3 DEF Matching
      <4>2. Sought(r)' = Matching(p[1], current_read_id)
        BY <1>1, <1>6, <3>2 DEF Sought
      <4>3. QED
        BY <1>1, <1>4, <4>1, <4>2 DEF Behind
    <3>4. Counted(r)' = {}
      <4>1. \A id \in Matching(p[1], current_write_id) : ~(claimed[id + 1].tok < p[1].lo)
        BY <1>3 DEF Matching
      <4>2. QED
        BY <1>1, <1>4, <1>6, <3>2, <4>1 DEF Counted
    <3>5. Cardinality(Behind(r)') = 0 /\ Cardinality(Counted(r)') = 0
      BY <3>3, <3>4, FS_EmptySet
    <3>6. Cardinality(Behind(r)') <= q'[r].count /\ q'[r].count <= Cardinality(Counted(r)')
      BY <1>1, <3>5
    <3>7. (Key(q[r].tok))' = Key(p[1].lo)
      BY <1>1, <1>6
    <3>8. view' = "char" /\ q'[r].tok <= Clause(r)'.hi => OnWay(walk'[r].node, walk'[r].path, (Key(q[r].tok))')
      BY <1>1, <1>4, <2>2, <3>2, <3>7
    <3>9. q'[r].tok \in Clause(r)'.lo..(Clause(r)'.hi + 1)
      BY <1>1, <1>3, <3>2
    <3>10. QED
      BY <1>1, <1>4, <2>2, <3>2, <3>6, <3>8, <3>9
  <2>3. q'[r].pc = o
    BY <1>1
  <2>4. CASE o = "count"
    BY <2>1, <2>2, <2>3, <2>4 DEF CountOf
  <2>5. CASE o = "begin"
    BY <2>1, <2>3, <2>5 DEF CountOf
  <2>6. QED
    BY <2>4, <2>5
<1>12. QED
  BY <1>7, <1>8, <1>9, <1>10, <1>11 DEF QueryOf

\* A query starts.
LEMMA StartOf ==
  ASSUME IndexInv, StoreInv, QueryInv, NEW r \in Readers, Start(r)
  PROVE  /\ IndexInv' /\ StoreInv' /\ q' = [s \in Readers |-> q'[s]]
         /\ \A s \in Readers : s # r => Steady(s)
         /\ QueryOf(r)'
<1> DEFINE new(p, o) == [NoQuery EXCEPT !.pc = o, !.plan = p, !.asked = p, !.tok = p[1].lo,
                           !.max_rid = current_read_id, !.quiet = EmptyLists = {} /\ ~Changing]
<1>1. PICK p \in Plans, o \in {"filter", "count"} :
        /\ view = "char" \/ o = "count" => Len(p) = 1 /\ ~p[1].pf
        /\ q' = [(IF o = "count" /\ view = "char" THEN Disturb ELSE q) EXCEPT ![r] =
                   new(p, IF o = "filter" THEN "begin" ELSE "count")]
        /\ IF o = "count" /\ view = "char" /\ p[1].lo <= p[1].hi
             THEN Enter(r, Root, KeyPath(p[1].lo))
             ELSE UNCHANGED walk
  BY DEF Start
<1>2. q[r].pc = "idle" /\ UNCHANGED <<length, idx, live, store_vars>>
  BY DEF Start
<1>3. PICK e \in {"begin", "count"} : e = IF o = "filter" THEN "begin" ELSE "count"
  OBVIOUS
<1>4. Arrived(r) /\ r \in Threads
  BY <1>2, ThreadAssumption DEF QueryInv, QueryOf, CountOf
<1>5. new(p, e).pc = e
  BY DEF NoQuery
<1>6. /\ p \in Seq(Clauses) /\ Len(p) \in Nat \ {0} /\ p # <<>>
      /\ p[1].lo \in Nat /\ p[1].hi \in Nat /\ p[1].lo <= p[1].hi + 1
  BY PlanFacts
<1>7. CASE ~(o = "count" /\ view = "char")
  <2>1. q' = [q EXCEPT ![r] = new(p, e)] /\ UNCHANGED <<index_vars, store_vars>>
    BY <1>1, <1>2, <1>3, <1>7 DEF index_vars
  <2>2. e = "count" => view = "token"
    BY <1>3, <1>7 DEF StoreInv, ViewInv
  <2>3. PICK w : w = new(p, e)
    OBVIOUS
  <2>4. w.pc = e /\ q' = [q EXCEPT ![r] = w]
    BY <1>5, <2>1, <2>3
  <2> HIDE DEF new
  <2>5. /\ q'[r] = w
        /\ IndexInv' /\ StoreInv' /\ q' = [s \in Readers |-> q'[s]]
        /\ ~Changing => ~Changing'
        /\ \A s \in Readers : s # r => Steady(s)
    BY <2>1, <2>2, <2>4, OwnStep
  <2>6. Arrived(r)' /\ Reachable' = Reachable /\ length' = length /\ UNCHANGED store_vars
    BY <1>4, <2>1, StoreStill
  <2>7. q'[r] = [NoQuery EXCEPT !.pc = e, !.plan = p, !.asked = p, !.tok = p[1].lo,
                   !.max_rid = current_read_id, !.quiet = EmptyLists = {} /\ ~Changing]
    BY <2>3, <2>5 DEF new
  <2>8. e = "count" => Len(p) = 1 /\ ~p[1].pf
    BY <1>1, <1>3
  <2>9. ~(view = "char" /\ e = "count")
    BY <1>3, <1>7
  <2>10. QueryOf(r)'
    BY <2>5, <2>6, <2>7, <2>8, <2>9, StartQuery
  <2>11. QED
    BY <2>5, <2>10
<1>8. CASE o = "count" /\ view = "char"
  <2>1. PICK w : w = new(p, e)
    OBVIOUS
  <2>2. q' = [Disturb EXCEPT ![r] = w] /\ e = "count"
    BY <1>1, <1>3, <1>8, <2>1
  <2> HIDE DEF new
  <2>3. /\ IndexInv' /\ Reachable' = Reachable
        /\ \A t \in Threads : t # r => walk'[t] = walk[t]
        /\ ~Arrived(r)' => p[1].lo <= p[1].hi
        /\ p[1].lo <= p[1].hi => OnWay(walk'[r].node, walk'[r].path, Key(p[1].lo))
    <3>1. CASE p[1].lo <= p[1].hi
      <4>1. Enter(r, Root, KeyPath(p[1].lo))
        BY <1>1, <1>8, <3>1
      <4>2. KeyPath(p[1].lo) = Key(p[1].lo) /\ Key(p[1].lo) \in Seq(Nat)
        BY <1>6, SameKey, KeyFacts DEF IndexInv, StoreInv
      <4>3. PICK k \in Seq(Nat) : k = Key(p[1].lo)
        BY <4>2
      <4>4. walk' = [walk EXCEPT ![r] = [path |-> k, node |-> Root, item |-> Null]]
        BY <4>1, <4>2, <4>3 DEF Enter
      <4>5. Root \in Reachable
        BY DEF Reachable
      <4>6. walk[r].item = Null
        BY <1>4, AtRest
      <4>7. /\ IndexInv' /\ Reachable' = Reachable
            /\ walk'[r] = [path |-> k, node |-> Root, item |-> Null]
        BY <1>2, <1>4, <4>4, <4>5, <4>6, EnterIndex
      <4>8. \A t \in Threads : t # r => walk'[t] = walk[t]
        BY <4>4 DEF IndexInv
      <4>9. OnWay(Root, k, k)
        <5>1. Len(Root) = 0 /\ Len(k) \in Nat
          BY <4>3 DEF Root
        <5>2. QED
          BY <5>1 DEF OnWay
      <4>10. QED
        BY <3>1, <4>3, <4>7, <4>8, <4>9
    <3>2. CASE ~(p[1].lo <= p[1].hi)
      <4>1. UNCHANGED <<index_vars, store_vars>>
        BY <1>1, <1>2, <3>2 DEF index_vars
      <4>2. QED
        BY <1>4, <3>2, <4>1, StoreStill
    <3>3. QED
      BY <3>1, <3>2
  <2>4. UNCHANGED store_vars /\ length' = length /\ Reachable \subseteq Reachable'
    BY <1>2, <2>3
  <2>5. /\ StoreInv' /\ q'[r] = w /\ q' = [s \in Readers |-> q'[s]]
        /\ \A s \in Readers : s # r => Steady(s)
    BY <2>2, <2>3, <2>4, ReaderStep
  <2>6. q'[r] = [NoQuery EXCEPT !.pc = e, !.plan = p, !.asked = p, !.tok = p[1].lo,
                   !.max_rid = current_read_id, !.quiet = EmptyLists = {} /\ ~Changing]
    BY <2>1, <2>5 DEF new
  <2>7. e = "count" => Len(p) = 1 /\ ~p[1].pf
    BY <1>1, <1>3
  <2>8. QueryOf(r)'
    BY <1>8, <2>2, <2>3, <2>4, <2>5, <2>6, <2>7, StartQuery
  <2>9. QED
    BY <2>3, <2>5, <2>8
<1>9. QED
  BY <1>7, <1>8


-----------------------------------------------------------------------------
(* Counts                                                                  *)

\* The published ids of a key are no more than the entries of its list.
LEMMA ListedAtLeast ==
  ASSUME IndexInv, StoreInv, NEW c, NEW b \in 0..current_read_id, NEW t \in Nat, NEW l,
         \/ l \in Reachable /\ Leads(l, Key(t))
         \/ l = at(KeyPath(t))
  PROVE  /\ Size(l) \in Nat
         /\ IsFiniteSet({id \in Matching(c, b) : claimed[id + 1].tok = t})
         /\ Cardinality({id \in Matching(c, b) : claimed[id + 1].tok = t}) <= Size(l)
<1> DEFINE H == {id \in Matching(c, b) : claimed[id + 1].tok = t}
           f == [id \in H |-> CHOOSE j \in 1..Size(l) : Entries(l)[j] = id]
<1>1. Size(l) \in Nat
  BY LenProperties DEF Size, Entries, StoreInv, EntryInv
<1>2. ASSUME NEW id \in H
      PROVE  \E j \in 1..Size(l) : Entries(l)[j] = id
  <2>1. l # Null => l \in Reachable /\ Leads(l, Key(t))
    BY ListAt
  <2>2. l \in Reachable => l # Null
    BY NullNode DEF IndexInv, Nodes
  <2>3. l # Null
    BY <1>2, <2>2, ListAt
  <2>4. QED
    BY <1>2, <2>1, <2>3, SoughtHere
<1>3. \A id \in H : f[id] \in 1..Size(l) /\ Entries(l)[f[id]] = id
  BY <1>2
<1>4. f \in [H -> 1..Size(l)]
  BY <1>3
<1> HIDE DEF H, f
<1>5. f \in Injection(H, 1..Size(l))
  <2>1. DOMAIN f = H
    BY <1>4
  <2>2. \A i, j \in H : f[i] = f[j] => i = j
    BY <1>3
  <2>3. QED
    BY <1>4, <2>1, <2>2 DEF Injection, IsInjective
<1>6. IsFiniteSet(1..Size(l)) /\ Cardinality(1..Size(l)) = Size(l)
  BY <1>1, FS_Interval
<1>7. IsFiniteSet(H) /\ Cardinality(H) <= Size(l)
  BY <1>5, <1>6, FS_Injection
<1>8. QED
  BY <1>1, <1>7 DEF H

\* The insertion that an entry that is not set belongs to.
Setter(l, j) == CHOOSE w \in Writers : op[w].pc = "set" /\ walk[w].node = l /\ op[w].place + 1 = j
EntryId(l, j) == IF Entries(l)[j] = Unset THEN op[Setter(l, j)].id ELSE Entries(l)[j]

LEMMA SetterFacts ==
  ASSUME IndexInv, StoreInv, NEW t \in Nat, NEW l \in DOMAIN lists, Leads(l, Key(t)),
         NEW j \in 1..Size(l), Entries(l)[j] = Unset
  PROVE  /\ Setter(l, j) \in Writers /\ op[Setter(l, j)].pc = "set"
         /\ op[Setter(l, j)].place + 1 = j
         /\ op[Setter(l, j)].id \in current_read_id..(current_write_id - 1)
         /\ Wanted(op[Setter(l, j)].id)
         /\ claimed[op[Setter(l, j)].id + 1].tok = t
<1>1. Entries(l) = lists[l] /\ Size(l) = Len(lists[l])
  BY DEF Entries, Size
<1>2. \E w \in Writers : op[w].pc = "set" /\ walk[w].node = l /\ op[w].place + 1 = j
  BY <1>1 DEF StoreInv, PushInv
<1>3. PICK w \in Writers : w = Setter(l, j) /\ op[w].pc = "set" /\ walk[w].node = l /\ op[w].place + 1 = j
  BY <1>2 DEF Setter
<1>4. Held(w) /\ Arrived(w) /\ AtList(w) /\ Wanted(op[w].id)
  BY <1>3 DEF Held, StoreInv, RecordInv, WriterWalk
<1>5. OnWay(walk[w].node, walk[w].path, Target(w)) /\ walk[w].path = <<>>
  BY <1>4 DEF StoreInv, WriterWalk, Arrived
<1>6. Target(w) = Key(op[w].rec.tok) /\ Target(w) \in Seq(Nat) /\ op[w].rec.tok \in Nat
  BY <1>4, TargetPath DEF Target
<1>7. Leads(l, Key(op[w].rec.tok))
  <2>1. PICK k \in Seq(Nat) : k = Target(w)
    BY <1>6
  <2>2. OnWay(l, <<>>, k)
    BY <1>3, <1>5, <2>1
  <2>3. Leads(l, k)
    BY <2>2, ArrivedLeads
  <2>4. QED
    BY <1>6, <2>1, <2>3
<1>8. op[w].rec.tok = t
  BY <1>6, <1>7, LeadsKey DEF IndexInv, StoreInv
<1>9. op[w].rec = claimed[op[w].id + 1] /\ op[w].id \in current_read_id..(current_write_id - 1)
  BY <1>4 DEF StoreInv, IdInv
<1>10. QED
  BY <1>3, <1>4, <1>8, <1>9

\* The entries of a list are no more than the claimed ids of its key.
LEMMA ListedAtMost ==
  ASSUME IndexInv, StoreInv, NEW c \in Clauses, ~c.pf, NEW t \in c.lo..c.hi, NEW l,
         \/ l \in Reachable /\ Leads(l, Key(t))
         \/ l = at(KeyPath(t))
  PROVE  Size(l) <= Cardinality({id \in Matching(c, current_write_id) : claimed[id + 1].tok = t})
<1> DEFINE H == {id \in Matching(c, current_write_id) : claimed[id + 1].tok = t}
           f == [j \in 1..Size(l) |-> EntryId(l, j)]
<1>1. Size(l) \in Nat
  BY LenProperties DEF Size, Entries, StoreInv, EntryInv
<1>2. current_write_id \in Nat /\ current_read_id \in 0..current_write_id
  BY NumberAssumption DEF StoreInv, IdInv
<1>3. IsFiniteSet(H) /\ Cardinality(H) \in Nat
  <2>1. H \subseteq 0..(current_write_id - 1)
    BY DEF Matching
  <2>2. QED
    BY <1>2, <2>1, FiniteIds
<1>4. CASE l \notin DOMAIN lists
  <2>1. Size(l) = 0
    BY <1>4 DEF Size, Entries
  <2>2. QED
    BY <1>3, <2>1
<1>5. CASE l \in DOMAIN lists
  <2>1. Entries(l) = lists[l] /\ Size(l) = Len(lists[l]) /\ l \in Reachable
    BY <1>5 DEF Entries, Size, StoreInv, EntryInv
  <2>2. t \in Nat
    BY DEF Clauses
  <2>3. Leads(l, Key(t))
    <3>1. l # Null
      BY <2>1, NullNode DEF IndexInv, Nodes
    <3>2. QED
      BY <2>2, <3>1, AtKey DEF StoreInv
  <2>4. ASSUME NEW j \in 1..Size(l), Entries(l)[j] # Unset
        PROVE  /\ Entries(l)[j] \in H
               /\ \/ Entries(l)[j] < current_read_id
                  \/ \E w \in Writers : Pushed(w) /\ op[w].id = Entries(l)[j]
    <3>1. PICK id : id = Entries(l)[j]
      OBVIOUS
    <3>2. EntryOf(l, id)
      BY <1>5, <2>1, <2>4, <3>1 DEF StoreInv, EntryInv
    <3>3. id \in 0..(current_write_id - 1) /\ Wanted(id) /\ Leads(l, Key(claimed[id + 1].tok))
      BY <3>2 DEF EntryOf, ListOf
    <3>4. claimed[id + 1].tok \in Nat
      <4>1. claimed \in Seq(Records) /\ id + 1 \in 1..Len(claimed)
        BY <1>2, <3>3 DEF StoreInv, IdInv
      <4>2. claimed[id + 1] \in Records
        BY <4>1, ElementOfSeq
      <4>3. QED
        BY <4>2, RecordAssumption
    <3>5. claimed[id + 1].tok = t
      BY <2>2, <2>3, <3>3, <3>4, LeadsKey DEF IndexInv, StoreInv
    <3>6. view = "char" => claimed[id + 1].hit
      BY <3>3 DEF Wanted
    <3>7. id \in H
      BY <3>3, <3>5, <3>6 DEF Matching
    <3>8. QED
      BY <3>1, <3>2, <3>7 DEF EntryOf
  <2>5. ASSUME NEW j \in 1..Size(l), Entries(l)[j] = Unset
        PROVE  op[Setter(l, j)].id \in H
    <3>1. PICK id : id = op[Setter(l, j)].id
      OBVIOUS
    <3>2. /\ id \in current_read_id..(current_write_id - 1) /\ Wanted(id)
          /\ claimed[id + 1].tok = t
      BY <1>5, <2>2, <2>3, <2>5, <3>1, SetterFacts
    <3>3. id \in 0..(current_write_id - 1)
      BY <1>2, <3>2
    <3>4. view = "char" => claimed[id + 1].hit
      BY <3>2 DEF Wanted
    <3>5. QED
      BY <3>1, <3>2, <3>3, <3>4 DEF Matching
  <2>6. ASSUME NEW j \in 1..Size(l)
        PROVE  EntryId(l, j) \in H
    BY <2>4, <2>5, <2>6 DEF EntryId
  <2>7. ASSUME NEW i \in 1..Size(l), NEW j \in 1..Size(l), EntryId(l, i) = EntryId(l, j)
        PROVE  i = j
    <3>1. ASSUME NEW x \in 1..Size(l), NEW y \in 1..Size(l), Entries(l)[x] = Unset, Entries(l)[y] # Unset,
                 EntryId(l, x) = EntryId(l, y)
          PROVE  FALSE
      <4> DEFINE w == Setter(l, x)
                 id == op[w].id
      <4>1. w \in Writers
        BY <1>5, <2>2, <2>3, <3>1, SetterFacts
      <4>2. op[w].pc = "set" /\ id \in current_read_id..(current_write_id - 1)
        BY <1>5, <2>2, <2>3, <3>1, <4>1, SetterFacts
      <4>3. id = Entries(l)[y]
        BY <3>1, <4>1 DEF EntryId
      <4>4. ~(id < current_read_id)
        BY <1>2, <4>2
      <4>5. PICK v \in Writers : Pushed(v) /\ op[v].id = id
        BY <2>4, <3>1, <4>3, <4>4
      <4>6. Held(v) /\ Held(w) /\ op[v].id = op[w].id
        BY <4>1, <4>2, <4>5 DEF Held, Pushed
      <4>7. v = w
        BY <4>1, <4>6 DEF StoreInv, IdInv
      <4>8. QED
        BY <4>2, <4>5, <4>7 DEF Pushed
    <3>2. CASE Entries(l)[i] = Unset /\ Entries(l)[j] = Unset
      <4>1. PICK v \in Writers, w \in Writers : v = Setter(l, i) /\ w = Setter(l, j)
        BY <1>5, <2>2, <2>3, <3>2, SetterFacts
      <4>2. /\ op[v].pc = "set" /\ op[w].pc = "set" /\ op[v].place + 1 = i /\ op[w].place + 1 = j
        BY <1>5, <2>2, <2>3, <3>2, <4>1, SetterFacts
      <4>3. Held(v) /\ Held(w) /\ op[v].id = op[w].id
        BY <2>7, <3>2, <4>1, <4>2 DEF Held, EntryId
      <4>4. v = w
        BY <4>3 DEF StoreInv, IdInv
      <4>5. QED
        BY <4>2, <4>4
    <3>3. CASE Entries(l)[i] # Unset /\ Entries(l)[j] # Unset
      <4>1. lists[l][i] # Unset /\ lists[l][i] = lists[l][j]
        BY <2>1, <2>7, <3>3 DEF EntryId
      <4>2. QED
        BY <1>5, <2>1, <4>1 DEF StoreInv, OnceInv
    <3>4. QED
      BY <2>7, <3>1, <3>2, <3>3
  <2>8. f \in [1..Size(l) -> H]
    BY <2>6
  <2>9. f \in Injection(1..Size(l), H)
    BY <2>7, <2>8 DEF Injection, IsInjective
  <2>10. Cardinality(1..Size(l)) = Size(l)
    BY <1>1, FS_Interval
  <2> HIDE DEF H, f
  <2>11. Cardinality(1..Size(l)) <= Cardinality(H)
    BY <1>3, <2>9, FS_Injection
  <2>12. QED
    BY <2>10, <2>11 DEF H
<1>6. QED
  BY <1>4, <1>5


\* A key is counted.
LEMMA CountedKey ==
  ASSUME IndexInv, StoreInv, QueryInv, NEW r \in Readers, q[r].pc = "count",
         q[r].tok <= Clause(r).hi, NEW l,
         \/ l \in Reachable /\ Leads(l, Key(q[r].tok))
         \/ l = at(KeyPath(q[r].tok)),
         UNCHANGED <<view, claimed, current_write_id>>,
         q'[r].plan = q[r].plan, q'[r].max_rid = q[r].max_rid, q'[r].tok = q[r].tok + 1,
         q'[r].count = q[r].count + Size(l)
  PROVE  /\ Cardinality(Behind(r)') <= q'[r].count /\ q'[r].count <= Cardinality(Counted(r)')
         /\ q'[r].count \in Nat
<1> DEFINE C == {id \in Matching(Clause(r), current_write_id) : claimed[id + 1].tok = q[r].tok}
<1>1. QueryType(r) /\ CountOf(r)
  BY DEF QueryInv, QueryOf
<1>2. /\ Clause(r) \in Clauses /\ Clause(r).lo \in Nat /\ Clause(r).hi \in Nat
  BY ClauseFacts
<1>3. /\ q[r].tok \in Clause(r).lo..(Clause(r).hi + 1) /\ ~Clause(r).pf
      /\ Cardinality(Behind(r)) <= q[r].count /\ q[r].count <= Cardinality(Counted(r))
  BY <1>1 DEF CountOf
<1>4. q[r].tok \in Nat /\ q[r].tok \in Clause(r).lo..Clause(r).hi
      /\ q[r].max_rid \in 0..current_read_id /\ q[r].count \in Nat
  BY <1>1, <1>2, <1>3 DEF QueryType
<1>5. current_write_id \in Nat /\ current_read_id \in 0..current_write_id
  BY NumberAssumption DEF StoreInv, IdInv
<1>6. /\ Clause(r)' = Clause(r) /\ claimed' = claimed
      /\ \A c, b : Matching(c, b)' = Matching(c, b)
  BY DEF Clause, Matching
<1>7. \A id \in 0..(current_write_id - 1) : claimed[id + 1].tok \in Nat
  <2>1. claimed \in Seq(Records) /\ Len(claimed) = current_write_id
    BY DEF StoreInv, IdInv
  <2>2. ASSUME NEW id \in 0..(current_write_id - 1)
        PROVE  claimed[id + 1].tok \in Nat
    <3>1. id + 1 \in 1..Len(claimed)
      BY <1>5, <2>1
    <3>2. claimed[id + 1] \in Records
      BY <2>1, <3>1, ElementOfSeq
    <3>3. QED
      BY <3>2, RecordAssumption
  <2>3. QED
    BY <2>2
<1>8. Sought(r) \subseteq 0..(current_write_id - 1)
  BY <1>4, <1>5 DEF Sought, Matching
<1>9. Matching(Clause(r), current_write_id) \subseteq 0..(current_write_id - 1)
  BY DEF Matching
<1>10. /\ Size(l) \in Nat /\ IsFiniteSet(Here(r)) /\ Cardinality(Here(r)) <= Size(l)
  <2>0. PICK c : c = Clause(r)
    OBVIOUS
  <2>1. PICK b \in 0..current_read_id, t \in Nat : b = q[r].max_rid /\ t = q[r].tok
    BY <1>4
  <2>2. Here(r) = {id \in Matching(c, b) : claimed[id + 1].tok = t}
    BY <2>0, <2>1 DEF Here, Sought
  <2>3. \/ l \in Reachable /\ Leads(l, Key(t))
        \/ l = at(KeyPath(t))
    BY <2>1
  <2>4. /\ Size(l) \in Nat
        /\ IsFiniteSet({id \in Matching(c, b) : claimed[id + 1].tok = t})
        /\ Cardinality({id \in Matching(c, b) : claimed[id + 1].tok = t}) <= Size(l)
    BY <2>3, ListedAtLeast
  <2>5. QED
    BY <2>2, <2>4
<1>11. Size(l) <= Cardinality(C)
  <2> DEFINE t == q[r].tok
  <2>1. PICK c \in Clauses : c = Clause(r)
    BY <1>2
  <2>2. /\ t \in c.lo..c.hi /\ ~c.pf
        /\ \/ l \in Reachable /\ Leads(l, Key(t))
           \/ l = at(KeyPath(t))
    BY <1>3, <1>4, <2>1
  <2>3. Size(l) <= Cardinality({id \in Matching(c, current_write_id) : claimed[id + 1].tok = t})
    BY <2>2, ListedAtMost
  <2>4. QED
    BY <2>1, <2>3
<1>12. Behind(r)' = Behind(r) \cup Here(r) /\ Behind(r) \cap Here(r) = {}
  <2>1. Behind(r)' = {id \in Sought(r) : claimed[id + 1].tok < q[r].tok + 1}
    BY <1>6 DEF Behind, Sought
  <2>2. \A id \in Sought(r) : claimed[id + 1].tok < q[r].tok + 1 <=>
          claimed[id + 1].tok < q[r].tok \/ claimed[id + 1].tok = q[r].tok
    BY <1>4, <1>7, <1>8
  <2>3. \A id \in Sought(r) : ~(claimed[id + 1].tok < q[r].tok /\ claimed[id + 1].tok = q[r].tok)
    BY <1>4
  <2>4. QED
    BY <2>1, <2>2, <2>3 DEF Behind, Here
<1>13. Counted(r)' = Counted(r) \cup C /\ Counted(r) \cap C = {}
  <2>1. Counted(r)' = {id \in Matching(Clause(r), current_write_id) : claimed[id + 1].tok < q[r].tok + 1}
    BY <1>6 DEF Counted
  <2>2. \A id \in Matching(Clause(r), current_write_id) : claimed[id + 1].tok < q[r].tok + 1 <=>
          claimed[id + 1].tok < q[r].tok \/ claimed[id + 1].tok = q[r].tok
    BY <1>4, <1>7, <1>9
  <2>3. \A id \in Matching(Clause(r), current_write_id) :
          ~(claimed[id + 1].tok < q[r].tok /\ claimed[id + 1].tok = q[r].tok)
    BY <1>4
  <2>4. QED
    BY <2>1, <2>2, <2>3 DEF Counted
<1>14. /\ IsFiniteSet(Behind(r)) /\ Cardinality(Behind(r)) \in Nat
       /\ Cardinality(Here(r)) \in Nat
       /\ IsFiniteSet(Counted(r)) /\ Cardinality(Counted(r)) \in Nat
       /\ IsFiniteSet(C) /\ Cardinality(C) \in Nat
  <2>1. /\ Behind(r) \subseteq 0..(current_write_id - 1) /\ Here(r) \subseteq 0..(current_write_id - 1)
        /\ Counted(r) \subseteq 0..(current_write_id - 1) /\ C \subseteq 0..(current_write_id - 1)
    BY <1>8, <1>9 DEF Behind, Here, Counted
  <2> HIDE DEF C
  <2>2. QED
    BY <1>5, <2>1, FiniteIds
<1> HIDE DEF C
<1>15. /\ Cardinality(Behind(r) \cup Here(r)) = Cardinality(Behind(r)) + Cardinality(Here(r))
       /\ Cardinality(Counted(r) \cup C) = Cardinality(Counted(r)) + Cardinality(C)
  <2>1. PICK A, B, D : A = Behind(r) /\ B = Here(r) /\ D = Counted(r)
    OBVIOUS
  <2>2. /\ Cardinality(A \cup B) = Cardinality(A) + Cardinality(B) - Cardinality(A \cap B)
        /\ Cardinality(D \cup C) = Cardinality(D) + Cardinality(C) - Cardinality(D \cap C)
    BY <1>10, <1>14, <2>1, FS_Union
  <2>3. Cardinality(A \cap B) = 0 /\ Cardinality(D \cap C) = 0
    BY <1>12, <1>13, <2>1, FS_EmptySet
  <2>4. QED
    BY <1>14, <2>1, <2>2, <2>3
<1>16. QED
  BY <1>3, <1>4, <1>10, <1>11, <1>12, <1>13, <1>14, <1>15

\* A count goes on to the next key.
LEMMA CountQuery ==
  ASSUME IndexInv, StoreInv, QueryInv, IndexInv', StoreInv', NEW r \in Readers, q[r].pc = "count",
         q[r].tok <= Clause(r).hi, NEW l,
         \/ l \in Reachable /\ Leads(l, Key(q[r].tok))
         \/ l = at(KeyPath(q[r].tok)),
         UNCHANGED store_vars, length' = length, Reachable \subseteq Reachable',
         q'[r] = [q[r] EXCEPT !.tok = q[r].tok + 1, !.count = q[r].count + Size(l)],
         ~Arrived(r)' => view = "char" /\ q[r].tok + 1 <= Clause(r).hi,
         view = "char" /\ q[r].tok + 1 <= Clause(r).hi =>
           OnWay(walk'[r].node, walk'[r].path, Key(q[r].tok + 1))
  PROVE  QueryOf(r)'
<1>1. QueryType(r) /\ PlanOf(r) /\ CountOf(r)
  BY DEF QueryInv, QueryOf
<1>2. /\ q'[r].pc = "count" /\ q'[r].plan = q[r].plan /\ q'[r].asked = q[r].asked
      /\ q'[r].tok = q[r].tok + 1 /\ q'[r].count = q[r].count + Size(l)
      /\ q'[r].max_rid = q[r].max_rid /\ q'[r].idx = q[r].idx /\ q'[r].list = q[r].list
      /\ q'[r].first = q[r].first /\ q'[r].hole = q[r].hole /\ q'[r].quiet = q[r].quiet
      /\ q'[r].results = q[r].results /\ DOMAIN q'[r] = QueryFields
  BY <1>1 DEF QueryType, QueryFields
<1>3. /\ view' = view /\ current_write_id' = current_write_id /\ current_read_id' = current_read_id
      /\ claimed' = claimed
  BY DEF store_vars
<1>4. /\ Cardinality(Behind(r)') <= q'[r].count /\ q'[r].count <= Cardinality(Counted(r)')
      /\ q'[r].count \in Nat
  BY <1>2, <1>3, CountedKey
<1>5. Clause(r)' = Clause(r) /\ \A a : Key(a)' = Key(a)
  BY <1>2, <1>3, SamePaths DEF Clause
<1>6. Clause(r).lo \in Nat /\ Clause(r).hi \in Nat
  BY ClauseFacts
<1>7. q[r].tok \in Nat /\ q[r].tok \in Clause(r).lo..(Clause(r).hi + 1)
  BY <1>1 DEF QueryType, CountOf
<1>8. QueryType(r)'
  <2>1. q'[r].first \in BOOLEAN /\ q'[r].hole \in BOOLEAN /\ q'[r].quiet \in BOOLEAN
    BY <1>1, <1>2, Zenon DEF QueryType
  <2>2. q'[r].tok \in Nat
    BY <1>2, <1>7
  <2>3. q'[r].pc \in QueryPcs
    BY <1>2 DEF QueryPcs
  <2>4. /\ q'[r].idx \in Int /\ q'[r].idx >= -1
        /\ q'[r].list \in Reachable' \cup {Null} /\ q'[r].results \subseteq 0..MaxId \cup Garbage
        /\ q'[r].plan \in Seq(Clauses) /\ q'[r].asked \in Seq(Clauses) /\ q'[r].plan # <<>>
        /\ q'[r].max_rid \in 0..current_read_id'
    BY <1>1, <1>2, <1>3 DEF QueryType
  <2>5. QED
    BY <1>2, <1>4, <2>1, <2>2, <2>3, <2>4 DEF QueryType
<1>9. PlanOf(r)'
  BY <1>1, <1>2 DEF PlanOf, Active
<1>10. KeyOf(r)' /\ FoundOf(r)' /\ SeenOf(r)' /\ QuietOf(r)'
  BY <1>2 DEF KeyOf, FoundOf, SeenOf, QuietOf, Active
<1>11. CountOf(r)'
  <2>1. /\ Len(q'[r].plan) = 1 /\ q'[r].asked = q'[r].plan /\ ~Clause(r)'.pf
    BY <1>1, <1>2, <1>5 DEF CountOf
  <2>2. q'[r].tok \in Clause(r)'.lo..(Clause(r)'.hi + 1)
    BY <1>2, <1>5, <1>6, <1>7
  <2>3. ~Arrived(r)' => view' = "char" /\ q'[r].tok <= Clause(r)'.hi
    BY <1>2, <1>3, <1>5
  <2>4. (Key(q[r].tok))' = Key(q[r].tok + 1)
    BY <1>2, <1>5
  <2>5. view' = "char" /\ q'[r].tok <= Clause(r)'.hi => OnWay(walk'[r].node, walk'[r].path, (Key(q[r].tok))')
    BY <1>2, <1>3, <1>5, <2>4
  <2>6. QED
    BY <1>2, <1>4, <2>1, <2>2, <2>3, <2>5 DEF CountOf
<1>12. QED
  BY <1>8, <1>9, <1>10, <1>11 DEF QueryOf

\* approx_pkt_count counts a list, or returns.
LEMMA FilterCountOf ==
  ASSUME IndexInv, StoreInv, QueryInv, NEW r \in Readers, FilterCount(r)
  PROVE  /\ IndexInv' /\ StoreInv' /\ q' = [s \in Readers |-> q'[s]]
         /\ \A s \in Readers : s # r => Steady(s)
         /\ QueryOf(r)'
<1> DEFINE l == at(Path(q[r].tok))
           u == [q[r] EXCEPT !.tok = q[r].tok + 1, !.count = q[r].count + Size(l)]
<1>1. q[r].pc = "count" /\ view = "token" /\ UNCHANGED <<index_vars, store_vars>>
  BY DEF FilterCount
<1>2. q' = [q EXCEPT ![r] = IF q[r].tok > Clause(r).hi THEN NoQuery ELSE u]
  BY DEF FilterCount
<1>3. QueryType(r) /\ CountOf(r)
  BY DEF QueryInv, QueryOf
<1>4. Arrived(r)
  BY <1>1, <1>3 DEF CountOf
<1>5. Arrived(r)' /\ Reachable' = Reachable /\ length' = length
  BY <1>1, <1>4, StoreStill
<1>6. CASE q[r].tok > Clause(r).hi
  <2>1. q' = [q EXCEPT ![r] = NoQuery]
    BY <1>2, <1>6
  <2>2. NoQuery.pc = "idle"
    BY DEF NoQuery
  <2>3. /\ q'[r] = NoQuery
        /\ IndexInv' /\ StoreInv' /\ q' = [s \in Readers |-> q'[s]]
        /\ \A s \in Readers : s # r => Steady(s)
    BY <1>1, <2>1, <2>2, OwnStep
  <2>4. QED
    BY <1>5, <2>3, NoQueryOf
<1>7. CASE ~(q[r].tok > Clause(r).hi)
  <2>1. q' = [q EXCEPT ![r] = u]
    BY <1>2, <1>7
  <2>2. u.pc = "count" => view = "token"
    BY <1>1
  <2>3. q[r].tok <= Clause(r).hi
    <3>1. q[r].tok \in Nat /\ Clause(r).hi \in Nat
      BY <1>1, <1>3, ClauseFacts DEF QueryType
    <3>2. QED
      BY <1>7, <3>1
  <2>4. PICK x : x = l
    OBVIOUS
  <2>5. PICK w : w = u
    OBVIOUS
  <2>6. q' = [q EXCEPT ![r] = w] /\ (w.pc = "count" => view = "token")
    BY <2>1, <2>2, <2>5
  <2>7. x = at(KeyPath(q[r].tok))
    BY <1>1, <2>4 DEF KeyPath
  <2>8. w = [q[r] EXCEPT !.tok = q[r].tok + 1, !.count = q[r].count + Size(x)]
    BY <2>4, <2>5
  <2> HIDE DEF u, l
  <2>9. /\ q'[r] = w
        /\ IndexInv' /\ StoreInv' /\ q' = [s \in Readers |-> q'[s]]
        /\ \A s \in Readers : s # r => Steady(s)
    BY <1>1, <2>6, OwnStep
  <2>10. q'[r] = [q[r] EXCEPT !.tok = q[r].tok + 1, !.count = q[r].count + Size(x)]
    BY <2>8, <2>9
  <2>11. QueryOf(r)'
    BY <1>1, <1>5, <2>3, <2>7, <2>9, <2>10, CountQuery
  <2>12. QED
    BY <2>9, <2>11
<1>8. QED
  BY <1>6, <1>7


\* A count on its way in get().
LEMMA CountWalk ==
  ASSUME IndexInv, StoreInv, QueryInv, NEW r \in Readers, q[r].pc = "count", view = "char",
         GetStep(r), UNCHANGED <<store_vars, q>>
  PROVE  /\ IndexInv' /\ StoreInv' /\ q' = [s \in Readers |-> q'[s]]
         /\ \A s \in Readers : s # r => Steady(s)
         /\ QueryOf(r)'
<1>1. r \in Threads /\ Changing
  BY ThreadAssumption DEF Changing
<1>2. /\ IndexInv' /\ Reachable \subseteq Reachable' /\ length' = length
      /\ ~Arrived(r)
      /\ \A u \in Threads : u # r => walk'[u] = walk[u]
      /\ \A path \in Seq(Nat) : OnWay(walk[r].node, walk[r].path, path) =>
           OnWay(walk'[r].node, walk'[r].path, path)
  BY <1>1, GetStepIndex
<1>3. q' = [q EXCEPT ![r] = q[r]]
  BY DEF QueryInv
<1>4. /\ StoreInv' /\ q'[r] = q[r] /\ q' = [s \in Readers |-> q'[s]]
      /\ \A s \in Readers : s # r => Steady(s)
  BY <1>1, <1>2, <1>3, ReaderStep
<1>5. /\ QueryType(r) /\ PlanOf(r) /\ CountOf(r)
  BY DEF QueryInv, QueryOf
<1>6. /\ view' = view /\ current_write_id' = current_write_id /\ current_read_id' = current_read_id
      /\ claimed' = claimed
  BY DEF store_vars
<1>7. Clause(r)' = Clause(r) /\ (\A a : Key(a)' = Key(a)) /\ \A c, b : Matching(c, b)' = Matching(c, b)
  BY <1>2, <1>4, <1>6, SamePaths DEF Clause, Matching
<1>8. QueryType(r)'
  BY <1>2, <1>4, <1>5, <1>6 DEF QueryType
<1>9. PlanOf(r)' /\ KeyOf(r)' /\ FoundOf(r)' /\ SeenOf(r)' /\ QuietOf(r)'
  BY <1>4, <1>5 DEF PlanOf, KeyOf, FoundOf, SeenOf, QuietOf, Active
<1>10. CountOf(r)'
  <2>1. Behind(r)' = Behind(r) /\ Counted(r)' = Counted(r)
    BY <1>4, <1>6, <1>7 DEF Behind, Counted, Sought
  <2>2. q[r].tok \in Nat /\ q[r].tok <= Clause(r).hi
    BY <1>2, <1>5 DEF QueryType, CountOf
  <2>3. Key(q[r].tok) \in Seq(Nat)
    BY <2>2, KeyFacts DEF IndexInv, StoreInv
  <2>4. OnWay(walk[r].node, walk[r].path, Key(q[r].tok))
    BY <1>5, <2>2 DEF CountOf
  <2>5. PICK k \in Seq(Nat) : k = Key(q[r].tok)
    BY <2>3
  <2>6. OnWay(walk'[r].node, walk'[r].path, k)
    BY <1>2, <2>4, <2>5
  <2>7. (Key(q[r].tok))' = k
    BY <1>4, <1>7, <2>5
  <2>8. /\ Len(q'[r].plan) = 1 /\ q'[r].asked = q'[r].plan /\ ~Clause(r)'.pf
        /\ q'[r].tok \in Clause(r)'.lo..(Clause(r)'.hi + 1)
        /\ Cardinality(Behind(r)') <= q'[r].count /\ q'[r].count <= Cardinality(Counted(r)')
    BY <1>4, <1>5, <1>7, <2>1 DEF CountOf
  <2>9. ~Arrived(r)' => view' = "char" /\ q'[r].tok <= Clause(r)'.hi
    BY <1>4, <1>6, <1>7, <2>2
  <2>10. q'[r].pc = "count"
    BY <1>4
  <2>11. (OnWay(walk[r].node, walk[r].path, Key(q[r].tok)))'
    BY <2>6, <2>7 DEF OnWay
  <2>12. QED
    BY <2>8, <2>9, <2>10, <2>11 DEF CountOf
<1>11. QED
  BY <1>2, <1>4, <1>8, <1>9, <1>10 DEF QueryOf

\* query_character: a step of get(), a list counted, or the return.
LEMMA QueryCharacterOf ==
  ASSUME IndexInv, StoreInv, QueryInv, NEW r \in Readers, QueryCharacter(r)
  PROVE  /\ IndexInv' /\ StoreInv' /\ q' = [s \in Readers |-> q'[s]]
         /\ \A s \in Readers : s # r => Steady(s)
         /\ QueryOf(r)'
<1> DEFINE l == walk[r].node
           k == q[r].tok + 1
           u == [q[r] EXCEPT !.tok = q[r].tok + 1, !.count = q[r].count + Size(walk[r].node)]
<1>1. q[r].pc = "count" /\ view = "char" /\ UNCHANGED store_vars /\ r \in Threads /\ Changing
  BY ThreadAssumption DEF QueryCharacter, Changing
<1>2. QueryType(r) /\ CountOf(r)
  BY DEF QueryInv, QueryOf
<1>3. /\ Clause(r).lo \in Nat /\ Clause(r).hi \in Nat /\ q[r].tok \in Nat
  BY <1>1, <1>2, ClauseFacts DEF QueryType
<1>4. CASE GetStep(r) /\ UNCHANGED q
  BY <1>1, <1>4, CountWalk
<1>5. CASE /\ Arrived(r) /\ q[r].tok <= Clause(r).hi
           /\ q' = [q EXCEPT ![r] = u]
           /\ IF q[r].tok < Clause(r).hi THEN Enter(r, Root, KeyPath(q[r].tok + 1))
                                           ELSE walk' = [walk EXCEPT ![r] = NoWalk]
           /\ UNCHANGED <<length, idx, live>>
  <2>1. l \in Reachable /\ Leads(l, Key(q[r].tok))
    <3>1. l \in Reachable
      BY <1>1 DEF IndexInv, WalkOf
    <3>2. PICK p \in Seq(Nat) : p = Key(q[r].tok)
      BY <1>3, KeyFacts DEF IndexInv, StoreInv
    <3>3. OnWay(l, <<>>, p)
      BY <1>1, <1>2, <1>5, <3>2 DEF CountOf, Arrived
    <3>4. Leads(l, p)
      BY <3>3, ArrivedLeads
    <3>5. QED
      BY <3>1, <3>2, <3>4
  <2>2. PICK p \in Seq(Nat) : p = Key(k)
    <3>1. k \in Nat
      BY <1>3
    <3>2. Key(k) \in Seq(Nat)
      BY <3>1, KeyFacts DEF IndexInv, StoreInv
    <3>3. QED
      BY <3>2
  <2>3. /\ walk' = [walk EXCEPT ![r] = [path |-> IF q[r].tok < Clause(r).hi THEN p ELSE <<>>,
                                         node |-> Root, item |-> Null]]
    BY <1>5, <2>2, SameKey DEF Enter, NoWalk
  <2>4. PICK y \in Seq(Nat) : y = IF q[r].tok < Clause(r).hi THEN p ELSE <<>>
    <3>1. <<>> \in Seq(Nat)
      OBVIOUS
    <3>2. (IF q[r].tok < Clause(r).hi THEN p ELSE <<>>) \in Seq(Nat)
      BY <2>2, <3>1
    <3>3. QED
      BY <3>2
  <2>5. walk[r].item = Null
    BY <1>1, <1>5, AtRest
  <2>6. Root \in Reachable
    BY DEF Reachable
  <2>7. walk' = [walk EXCEPT ![r] = [path |-> y, node |-> Root, item |-> Null]]
    BY <2>3, <2>4
  <2>8. /\ IndexInv' /\ Reachable' = Reachable /\ walk'[r] = [path |-> y, node |-> Root, item |-> Null]
    BY <1>1, <1>5, <2>5, <2>6, <2>7, EnterIndex
  <2>9. \A t \in Threads : t # r => walk'[t] = walk[t]
    BY <2>7 DEF IndexInv
  <2>10. PICK x \in Reachable : x = l
    BY <2>1
  <2>11. PICK w : w = u
    OBVIOUS
  <2>12. q' = [q EXCEPT ![r] = w] /\ length' = length /\ Reachable \subseteq Reachable'
    BY <1>5, <2>8, <2>11
  <2>13. w = [q[r] EXCEPT !.tok = q[r].tok + 1, !.count = q[r].count + Size(x)]
    BY <2>10, <2>11
  <2> HIDE DEF u, l
  <2>14. /\ StoreInv' /\ q'[r] = w /\ q' = [s \in Readers |-> q'[s]]
         /\ \A s \in Readers : s # r => Steady(s)
    BY <1>1, <2>8, <2>9, <2>12, ReaderStep
  <2>15. q'[r] = [q[r] EXCEPT !.tok = q[r].tok + 1, !.count = q[r].count + Size(x)]
    BY <2>13, <2>14
  <2>16. ~Arrived(r)' => q[r].tok + 1 <= Clause(r).hi
    BY <1>3, <2>4, <2>8 DEF Arrived
  <2>17. q[r].tok + 1 <= Clause(r).hi => OnWay(walk'[r].node, walk'[r].path, Key(q[r].tok + 1))
    <3>1. SUFFICES ASSUME q[r].tok + 1 <= Clause(r).hi PROVE OnWay(walk'[r].node, walk'[r].path, Key(q[r].tok + 1))
      OBVIOUS
    <3>2. y = p
      BY <1>3, <2>4, <3>1
    <3>3. walk'[r].node = Root /\ walk'[r].path = p
      BY <2>8, <3>2
    <3>4. OnWay(Root, p, p)
      <4>1. Len(Root) = 0 /\ Len(p) \in Nat
        BY <2>2 DEF Root
      <4>2. QED
        BY <4>1 DEF OnWay
    <3>5. QED
      BY <2>2, <3>3, <3>4
  <2>18. Leads(x, Key(q[r].tok)) /\ x \in Reachable
    BY <2>1, <2>10
  <2>19. QueryOf(r)'
    BY <1>1, <1>5, <2>8, <2>12, <2>14, <2>15, <2>16, <2>17, <2>18, CountQuery
  <2>20. QED
    BY <2>8, <2>14, <2>19
<1>6. CASE /\ q[r].tok > Clause(r).hi
           /\ q' = [q EXCEPT ![r] = NoQuery]
           /\ UNCHANGED index_vars
  <2>1. NoQuery.pc = "idle"
    BY DEF NoQuery
  <2>2. UNCHANGED <<index_vars, store_vars>>
    BY <1>1, <1>6
  <2>3. /\ q'[r] = NoQuery
        /\ IndexInv' /\ StoreInv' /\ q' = [s \in Readers |-> q'[s]]
        /\ \A s \in Readers : s # r => Steady(s)
    BY <1>6, <2>1, <2>2, OwnStep
  <2>4. Arrived(r)
    BY <1>2, <1>3, <1>6 DEF CountOf
  <2>5. Arrived(r)'
    BY <2>2, <2>4, StoreStill
  <2>6. QED
    BY <2>3, <2>5, NoQueryOf
<1>7. QED
  BY <1>4, <1>5, <1>6 DEF QueryCharacter

-----------------------------------------------------------------------------
(* The invariant                                                           *)

LEMMA AskStep ==
  ASSUME IndexInv, StoreInv, QueryInv, NEW r \in Readers, Ask(r)
  PROVE  /\ IndexInv' /\ StoreInv' /\ q' = [s \in Readers |-> q'[s]]
         /\ \A s \in Readers : s # r => Steady(s)
         /\ QueryOf(r)'
<1>1. CASE Start(r)
  BY <1>1, StartOf
<1>2. CASE Unknown(r)
  BY <1>2, UnknownOf
<1>3. CASE Begin(r)
  BY <1>3, BeginOf
<1>4. CASE Advance(r)
  BY <1>4, AdvanceOf
<1>5. CASE Scan(r)
  BY <1>5, ScanOf
<1>6. CASE Check(r)
  BY <1>6, CheckOf
<1>7. CASE Apply(r)
  BY <1>7, ApplyOf
<1>8. CASE Deref(r)
  BY <1>8, DerefOf
<1>9. CASE FilterCount(r)
  BY <1>9, FilterCountOf
<1>10. CASE QueryCharacter(r)
  BY <1>10, QueryCharacterOf
<1>11. QED
  BY <1>1, <1>2, <1>3, <1>4, <1>5, <1>6, <1>7, <1>8, <1>9, <1>10 DEF Ask

LEMMA AskInv ==
  ASSUME IndexInv, StoreInv, QueryInv, NEW r \in Readers, Ask(r)
  PROVE  Inv'
<1>1. /\ IndexInv' /\ StoreInv' /\ q' = [s \in Readers |-> q'[s]]
      /\ \A s \in Readers : s # r => Steady(s)
      /\ QueryOf(r)'
  BY AskStep
<1>2. ASSUME NEW s \in Readers, s # r
      PROVE  QueryOf(s)'
  BY <1>1, <1>2, SteadyQuery
<1>3. \A s \in Readers : QueryOf(s)'
  BY <1>1, <1>2
<1>4. QED
  BY <1>1, <1>3 DEF Inv, QueryInv

LEMMA StepInv ==
  ASSUME Inv, [Next]_vars
  PROVE  Inv'
<1>1. IndexInv /\ StoreInv /\ QueryInv
  BY DEF Inv
<1>2. ASSUME NEW w \in Writers, Insert(w)
      PROVE  Inv'
  <2>1. /\ IndexInv' /\ StoreInv' /\ q' = [r \in Readers |-> q'[r]]
        /\ \A r \in Readers : Steady(r)
    BY <1>1, <1>2, InsertSteady
  <2>2. \A r \in Readers : QueryOf(r)'
    BY <1>1, <2>1, SteadyQuery
  <2>3. QED
    BY <2>1, <2>2 DEF Inv, QueryInv
<1>3. ASSUME NEW r \in Readers, Ask(r)
      PROVE  Inv'
  BY <1>1, <1>3, AskInv
<1>4. CASE UNCHANGED vars
  <2>1. UNCHANGED <<index_vars, store_vars>> /\ q' = q
    BY <1>4 DEF vars
  <2>2. /\ IndexInv' /\ StoreInv' /\ Reachable' = Reachable /\ walk' = walk
        /\ view' = view /\ length' = length /\ claimed' = claimed /\ op' = op
        /\ current_read_id' = current_read_id /\ current_write_id' = current_write_id
        /\ lists' = lists
    BY <1>1, <2>1, StoreStill
  <2>3. ListsGrow
    BY <1>1, <2>2, SameLists
  <2>4. current_read_id \in Nat /\ current_write_id \in Nat
    BY <1>1, NumberAssumption DEF StoreInv, IdInv
  <2>5. ~Changing => ~Changing'
    BY <2>1, <2>2 DEF Changing
  <2>6. \A r \in Readers : Steady(r)
    BY <2>1, <2>2, <2>3, <2>4, <2>5 DEF Steady
  <2>7. \A r \in Readers : QueryOf(r)'
    BY <1>1, <2>2, <2>6, SteadyQuery
  <2>8. QED
    BY <1>1, <2>1, <2>2, <2>7 DEF Inv, QueryInv
<1>5. QED
  BY <1>2, <1>3, <1>4 DEF Next

LEMMA InitInv ==
  ASSUME Init
  PROVE  Inv
<1>1. /\ length \in Lengths /\ idx = [c \in {} |-> Null] /\ live = {Root}
      /\ walk = [t \in Threads |-> NoWalk]
      /\ view \in Views /\ (view = "char" => length = 4)
      /\ current_write_id = 0 /\ current_read_id = 0
      /\ records = [id \in {} |-> Null] /\ lists = [l \in {} |-> <<>>]
      /\ op = [w \in Writers |-> NoInsert]
      /\ q = [r \in Readers |-> NoQuery]
      /\ claimed = <<>>
  BY DEF Init, IndexInit
<1>2. DOMAIN idx = {} /\ DOMAIN lists = {} /\ DOMAIN records = {} /\ Reachable = {Root}
  BY <1>1 DEF Reachable
<1>3. \A t \in Threads : walk[t] = [path |-> <<>>, node |-> Root, item |-> Null]
  BY <1>1 DEF NoWalk
<1>4. IndexInv
  <2>1. Reachable \subseteq Nodes
    BY <1>2 DEF Root, Nodes
  <2>2. SlotInv
    BY <1>2 DEF SlotInv
  <2>3. walk = [t \in Threads |-> walk[t]]
    BY <1>1
  <2>4. \A t \in Threads : WalkOf(t)
    <3>1. <<>> \in Seq(Nat)
      OBVIOUS
    <3>2. \A t \in Threads : walk[t].path = <<>> /\ walk[t].node = Root /\ walk[t].item = Null
      BY <1>3
    <3>3. QED
      BY <1>2, <1>3, <3>1, <3>2 DEF WalkOf
  <2>5. Items = {}
    BY <1>3 DEF Items
  <2>6. QED
    BY <1>1, <1>2, <2>1, <2>2, <2>3, <2>4, <2>5 DEF IndexInv
<1>5. \A w \in Writers : op[w] = NoInsert /\ op[w].pc = "idle"
  BY <1>1 DEF NoInsert
<1>6. StoreInv
  <2>1. ViewInv
    BY <1>1, ViewAssumption DEF ViewInv
  <2>2. IdInv
    <3>1. /\ current_write_id \in 0..MaxId /\ current_read_id \in 0..current_write_id
          /\ claimed \in Seq(Records) /\ Len(claimed) = current_write_id
      BY <1>1, NumberAssumption
    <3>2. op = [w \in Writers |-> op[w]]
      BY <1>1
    <3>3. \A w \in Writers : /\ op[w] = [pc |-> op[w].pc, id |-> op[w].id, rec |-> op[w].rec, place |-> op[w].place]
                             /\ op[w].pc \in InsertPcs
      BY <1>5 DEF NoInsert, InsertPcs
    <3>4. \A id \in current_read_id..(current_write_id - 1) : \E w \in Writers : Held(w) /\ op[w].id = id
      BY <1>1
    <3>5. QED
      BY <1>5, <3>1, <3>2, <3>3, <3>4 DEF IdInv, Held
  <2>3. RecordInv
    BY <1>1, <1>2, <1>5 DEF RecordInv
  <2>4. \A w \in Writers : WriterWalk(w)
    <3>1. \A w \in Writers : Arrived(w)
      BY <1>3, ThreadAssumption DEF Arrived
    <3>2. QED
      BY <1>5, <3>1 DEF WriterWalk, Held
  <2>5. EntryInv /\ OnceInv
    BY <1>2 DEF EntryInv, OnceInv
  <2>6. PushInv
    BY <1>2, <1>5 DEF PushInv
  <2>7. OnInv
    BY <1>1, <1>5 DEF OnInv, Pushed
  <2>8. QED
    BY <2>1, <2>2, <2>3, <2>4, <2>5, <2>6, <2>7 DEF StoreInv
<1>7. QueryInv
  <2>1. q = [r \in Readers |-> q[r]]
    BY <1>1
  <2>2. ASSUME NEW r \in Readers
        PROVE  QueryOf(r)
    <3>1. /\ q[r].pc = "idle" /\ q[r].plan = <<>> /\ q[r].max_rid = 0 /\ q[r].tok = 0
          /\ q[r].idx = 0 /\ q[r].list = Null /\ q[r].first = FALSE /\ q[r].hole = FALSE
          /\ q[r].count = 0 /\ q[r].results = {} /\ q[r].asked = <<>> /\ q[r].quiet = FALSE
          /\ DOMAIN q[r] = QueryFields
      BY <1>1 DEF NoQuery, QueryFields
    <3>2. <<>> \in Seq(Clauses) /\ Len(<<>>) = 0
      OBVIOUS
    <3>3. Arrived(r)
      BY <1>3, ThreadAssumption DEF Arrived
    <3>4. PlanOf(r)
      BY <3>1, <3>2 DEF PlanOf, Active
    <3>5. QueryType(r)
      <4>1. q[r].pc \in QueryPcs
        BY <3>1 DEF QueryPcs
      <4>2. q[r].first \in BOOLEAN /\ q[r].hole \in BOOLEAN /\ q[r].quiet \in BOOLEAN
        BY <3>1
      <4>3. /\ q[r].tok \in Nat /\ q[r].idx \in Int /\ q[r].idx >= -1 /\ q[r].count \in Nat
            /\ q[r].list \in Reachable \cup {Null} /\ q[r].results \subseteq 0..MaxId \cup Garbage
            /\ q[r].max_rid \in 0..current_read_id
        BY <1>1, <3>1
      <4>4. q[r].plan \in Seq(Clauses) /\ q[r].asked \in Seq(Clauses)
        BY <3>1, <3>2
      <4>5. QED
        BY <3>1, <4>1, <4>2, <4>3, <4>4 DEF QueryType
    <3>6. KeyOf(r) /\ FoundOf(r) /\ SeenOf(r) /\ QuietOf(r) /\ CountOf(r)
      BY <3>1, <3>3 DEF KeyOf, FoundOf, SeenOf, QuietOf, CountOf, Active
    <3>7. QED
      BY <3>4, <3>5, <3>6 DEF QueryOf
  <2>3. QED
    BY <2>1, <2>2 DEF QueryInv
<1>8. QED
  BY <1>4, <1>6, <1>7 DEF Inv

\* However insert_pktburst, the iterators and the counts interleave, the inductive
\* invariant of index, insertions and queries holds.
THEOREM QueriesCorrect == Spec => []Inv
<1>1. Init => Inv
  BY InitInv
<1>2. Inv /\ [Next]_vars => Inv'
  BY StepInv
<1>3. QED
  BY <1>1, <1>2, PTL DEF Spec


\* IndexTypeOK and TypeOK as they follow from the invariant.
LEMMA TypeFacts ==
  ASSUME Inv
  PROVE  TypeOK
<1>1. IndexInv /\ StoreInv /\ QueryInv
  BY DEF Inv
<1>2. /\ Reachable \subseteq Nodes /\ SlotInv /\ Reachable \subseteq live
      /\ Root \in Reachable /\ Null \notin Reachable
  BY <1>1, ChildFacts DEF IndexInv
<1>3. IndexTypeOK
  <2>1. DOMAIN idx \subseteq live \X Nat
    BY <1>2 DEF SlotInv
  <2>2. ASSUME NEW c \in DOMAIN idx
        PROVE  idx[c] \in live \ {Root}
    <3>1. PICK t \in Threads : idx[c] = Append(c[1], <<c[2], t>>)
      BY <1>2, <2>2 DEF SlotInv
    <3>2. c[1] \in Nodes /\ c[2] \in Nat
      BY <1>2, <2>2 DEF SlotInv
    <3>6. PICK n \in Nodes, s \in Nat : n = c[1] /\ s = c[2]
      BY <3>2
    <3>7. Append(n, <<s, t>>) # Root
      BY NodeAppend
    <3>3. idx[c] # Root
      BY <3>1, <3>6, <3>7
    <3>4. idx[c] \in Reachable
      BY <2>2 DEF Reachable
    <3>5. QED
      BY <1>2, <3>3, <3>4
  <2>3. ASSUME NEW t \in Threads
        PROVE  walk[t].node \in live /\ walk[t].item \in live \cup {Null}
    <3>1. walk[t].node \in Reachable
      BY <1>1 DEF IndexInv, WalkOf
    <3>2. walk[t].item # Null => walk[t].item \in live
      BY <1>1 DEF IndexInv, Items
    <3>3. QED
      BY <1>2, <3>1, <3>2
  <2>4. QED
    BY <1>1, <2>1, <2>2, <2>3 DEF IndexTypeOK, IndexInv
<1>4. /\ view \in Views /\ current_read_id \in 0..current_write_id /\ current_write_id \in 0..MaxId
      /\ claimed \in Seq(Records) /\ Len(claimed) = current_write_id
  BY <1>1 DEF StoreInv, ViewInv, IdInv
<1>5. claimed \in [1..current_write_id -> Records]
  BY <1>4, LenProperties
<1>6. DOMAIN records \subseteq 0..(current_write_id - 1)
  BY <1>1 DEF StoreInv, RecordInv
<1>7. DOMAIN lists \subseteq live
  BY <1>1, <1>2 DEF StoreInv, EntryInv
<1>8. ASSUME NEW r \in Readers
      PROVE  /\ q[r].list \in live \cup {Null}
             /\ q[r].max_rid \in 0..current_read_id
             /\ q[r].results \subseteq 0..MaxId \cup Garbage
  BY <1>1, <1>2 DEF QueryInv, QueryOf, QueryType
<1>9. QED
  BY <1>3, <1>4, <1>5, <1>6, <1>7, <1>8 DEF TypeOK

LEMMA LeakFacts ==
  ASSUME Inv
  PROVE  NoNodeLeaks
<1>1. Reachable \subseteq Nodes /\ SlotInv /\ live = Reachable \cup Items
  BY DEF Inv, IndexInv
<1>2. ASSUME NEW c \in DOMAIN idx, NEW d \in DOMAIN idx, idx[c] = idx[d]
      PROVE  c = d
  <2>1. /\ c \in Reachable \X Nat /\ d \in Reachable \X Nat
    BY <1>1 DEF SlotInv
  <2>2. PICK t \in Threads : idx[c] = Append(c[1], <<c[2], t>>)
    BY <1>1 DEF SlotInv
  <2>3. PICK u \in Threads : idx[d] = Append(d[1], <<d[2], u>>)
    BY <1>1 DEF SlotInv
  <2>4. c[1] \in Nodes /\ c[2] \in Nat /\ d[1] \in Nodes /\ d[2] \in Nat
    BY <1>1, <2>1
  <2>5. Append(c[1], <<c[2], t>>) = Append(d[1], <<d[2], u>>)
    BY <1>2, <2>2, <2>3
  <2>6. c[1] = d[1] /\ c[2] = d[2]
    <3>1. PICK n \in Nodes, s \in Nat, m \in Nodes, r \in Nat : n = c[1] /\ s = c[2] /\ m = d[1] /\ r = d[2]
      BY <2>4
    <3>2. Append(n, <<s, t>>) = Append(m, <<r, u>>)
      BY <2>5, <3>1
    <3>3. n = m /\ s = r
      BY <3>2, NodeParts
    <3>4. QED
      BY <3>1, <3>3
  <2>7. QED
    BY <2>1, <2>6
<1>3. QED
  BY <1>1, <1>2 DEF NoNodeLeaks, Items

LEMMA ListedFacts ==
  ASSUME Inv
  PROVE  PublishedListed
<1>1. IndexInv /\ StoreInv
  BY DEF Inv
<1>2. SUFFICES ASSUME NEW id \in 0..(current_read_id - 1), Wanted(id)
               PROVE  Cardinality({j \in 1..Size(at(KeyPath(claimed[id + 1].tok))) :
                                     Entries(at(KeyPath(claimed[id + 1].tok)))[j] = id}) = 1
  BY DEF PublishedListed, Wanted
<1>3. claimed[id + 1].tok \in Nat
  <2>1. /\ current_read_id \in 0..current_write_id /\ current_write_id \in Nat
        /\ claimed \in Seq(Records) /\ Len(claimed) = current_write_id
    BY <1>1, NumberAssumption DEF StoreInv, IdInv
  <2>2. id + 1 \in 1..Len(claimed)
    BY <2>1
  <2>3. claimed[id + 1] \in Records
    BY <2>1, <2>2, ElementOfSeq
  <2>4. QED
    BY <2>3, RecordAssumption
<1>4. PICK l \in DOMAIN lists : ListOf(l, id) /\ \E j \in 1..Len(lists[l]) : lists[l][j] = id
  BY <1>1, <1>2 DEF StoreInv, OnInv, On
<1>13. PICK i \in 1..Len(lists[l]) : lists[l][i] = id
  BY <1>4
<1>5. l \in Reachable
  BY <1>1 DEF StoreInv, EntryInv
<1>6. at(KeyPath(claimed[id + 1].tok)) = l
  BY <1>1, <1>3, <1>4, <1>5, AtKey DEF ListOf, StoreInv
<1>7. Entries(l) = lists[l] /\ Size(l) = Len(lists[l])
  BY DEF Entries, Size
<1>8. id # Unset
  BY UnsetEntry
<1>9. \A j \in 1..Size(l) : Entries(l)[j] = id => j = i
  BY <1>1, <1>7, <1>8, <1>13 DEF StoreInv, OnceInv
<1>10. {j \in 1..Size(l) : Entries(l)[j] = id} = {i}
  BY <1>7, <1>9, <1>13
<1>11. Cardinality({i}) = 1
  BY FS_Singleton
<1>12. QED
  BY <1>6, <1>10, <1>11

\* An entry that is set, below max_rid, on a list of the clause.
LEMMA EntryMatches ==
  ASSUME IndexInv, StoreInv, QueryInv, NEW r \in Readers, q[r].pc \in {"check", "apply", "deref"},
         q[r].tok <= Clause(r).hi, ~IsHole(q[r].list, q[r].idx),
         NEW v \in Read(q[r].list, q[r].idx)
  PROVE  /\ v = Entries(q[r].list)[q[r].idx + 1]
         /\ v < q[r].max_rid /\ (Clause(r).pf => claimed[v + 1].hit) =>
              v \in Matching(Clause(r), q[r].max_rid)
<1>1. QueryType(r) /\ KeyOf(r)
  BY DEF QueryInv, QueryOf
<1>2. q[r].pc \in Active
  BY DEF Active
<1>3. /\ q[r].list # Null /\ q[r].idx >= 0 /\ q[r].idx \in Int /\ Clause(r).lo <= q[r].tok
      /\ Leads(q[r].list, Key(q[r].tok)) /\ q[r].tok \in Nat
      /\ q[r].max_rid \in 0..current_read_id
  BY <1>1, <1>2 DEF QueryType, KeyOf
<1>4. /\ Clause(r).lo \in Nat /\ Clause(r).hi \in Nat
  BY ClauseFacts
<1>0. PICK l : l = q[r].list
  OBVIOUS
<1>5. PICK i \in Int : l = q[r].list /\ i = q[r].idx
  BY <1>0, <1>3
<1>6. /\ i + 1 \in 1..Size(l) /\ v = Entries(l)[i + 1]
      /\ v \in 0..(current_write_id - 1)
  BY <1>3, <1>5, ReadFacts
<1>7. v # Unset /\ Entries(l)[i + 1] # Unset
  BY <1>6, UnsetEntry
<1>8. l \in DOMAIN lists
  BY <1>6 DEF Size, Entries
<1>9. Entries(l) = lists[l] /\ Size(l) = Len(lists[l])
  BY <1>8 DEF Entries, Size
<1>10. EntryOf(l, v)
  BY <1>6, <1>7, <1>8, <1>9 DEF StoreInv, EntryInv
<1>11. Wanted(v) /\ Leads(l, Key(claimed[v + 1].tok))
  BY <1>10 DEF EntryOf, ListOf
<1>12. claimed[v + 1].tok \in Nat
  <2>1. /\ current_write_id \in Nat /\ claimed \in Seq(Records) /\ Len(claimed) = current_write_id
    BY NumberAssumption DEF StoreInv, IdInv
  <2>2. v + 1 \in 1..Len(claimed)
    BY <1>6, <2>1
  <2>3. claimed[v + 1] \in Records
    BY <2>1, <2>2, ElementOfSeq
  <2>4. QED
    BY <2>3, RecordAssumption
<1>13. claimed[v + 1].tok = q[r].tok
  BY <1>3, <1>5, <1>11, <1>12, LeadsKey DEF IndexInv, StoreInv
<1>14. ASSUME v < q[r].max_rid, Clause(r).pf => claimed[v + 1].hit
       PROVE  v \in Matching(Clause(r), q[r].max_rid)
  <2>1. q[r].max_rid \in Nat
    BY <1>3, NumberAssumption DEF StoreInv, IdInv
  <2>2. v \in 0..(q[r].max_rid - 1)
    BY <1>6, <1>14, <2>1
  <2>3. claimed[v + 1].tok \in Clause(r).lo..Clause(r).hi
    BY <1>3, <1>4, <1>13
  <2>4. view = "char" => claimed[v + 1].hit
    BY <1>11 DEF Wanted
  <2>5. QED
    BY <1>14, <2>2, <2>3, <2>4 DEF Matching
<1>15. QED
  BY <1>5, <1>6, <1>14

LEMMA GapFacts ==
  ASSUME Inv
  PROVE  GapsKnown
<1>1. IndexInv /\ StoreInv /\ QueryInv
  BY DEF Inv
<1>2. SUFFICES ASSUME NEW r \in Readers, ~q[r].first, ~q[r].hole, ~IsHole(q[r].list, q[r].idx),
                      q[r].pc = "deref", NEW v \in Read(q[r].list, q[r].idx)
               PROVE  v \in Matching(Clause(r), q[r].max_rid)
  BY DEF GapsKnown, Found
<1>3. KeyOf(r) /\ SeenOf(r)
  BY <1>1 DEF QueryInv, QueryOf
<1>4. q[r].pc \in Active
  BY <1>2 DEF Active
<1>5. q[r].tok <= Clause(r).hi
  BY <1>2, <1>3, <1>4 DEF KeyOf
<1>6. /\ Entries(q[r].list)[q[r].idx + 1] < q[r].max_rid
      /\ Clause(r).pf => claimed[Entries(q[r].list)[q[r].idx + 1] + 1].hit
  BY <1>2, <1>3 DEF SeenOf, Seen
<1>7. /\ v = Entries(q[r].list)[q[r].idx + 1]
      /\ v < q[r].max_rid /\ (Clause(r).pf => claimed[v + 1].hit) =>
           v \in Matching(Clause(r), q[r].max_rid)
  BY <1>1, <1>2, <1>5, EntryMatches
<1>8. QED
  BY <1>6, <1>7

LEMMA QuietFacts ==
  ASSUME Inv
  PROVE  QuietExact
<1>1. IndexInv /\ StoreInv /\ QueryInv
  BY DEF Inv
<1>2. SUFFICES ASSUME NEW r \in Readers, q[r].quiet, Proper(r)
               PROVE  /\ q[r].pc # "crash"
                      /\ \A v \in Found(r) :
                           v \in Matching(Clause(r), q[r].max_rid) \/ (q[r].first /\ Clause(r).pf)
  BY DEF QuietExact
<1>3. QuietOf(r) /\ SeenOf(r)
  BY <1>1 DEF QueryInv, QueryOf
<1>4. q[r].pc # "crash"
  BY <1>2, <1>3 DEF QuietOf
<1>5. ASSUME NEW v \in Read(q[r].list, q[r].idx), q[r].pc = "deref", ~(q[r].first /\ Clause(r).pf)
      PROVE  v \in Matching(Clause(r), q[r].max_rid)
  <2>1. /\ ~IsHole(q[r].list, q[r].idx) /\ q[r].tok <= Clause(r).hi /\ v < q[r].max_rid
    BY <1>1, <1>2, <1>5, ReadQuiet
  <2>2. q[r].pc \in Active
    BY <1>5 DEF Active
  <2>3. ~q[r].hole
    BY <1>2, <1>3, <2>2 DEF QuietOf
  <2>4. /\ v = Entries(q[r].list)[q[r].idx + 1]
        /\ v < q[r].max_rid /\ (Clause(r).pf => claimed[v + 1].hit) =>
             v \in Matching(Clause(r), q[r].max_rid)
    BY <1>1, <1>5, <2>1, EntryMatches
  <2>5. Clause(r).pf => claimed[v + 1].hit
    BY <1>3, <1>5, <2>3, <2>4 DEF SeenOf, Seen
  <2>6. QED
    BY <2>1, <2>4, <2>5
<1>6. QED
  BY <1>4, <1>5 DEF Found


-----------------------------------------------------------------------------
(* The returns of a query                                                  *)

\* Where a query returns: past the last key of its last clause, or of its count.
LEMMA Returning ==
  ASSUME IndexInv, StoreInv, QueryInv, [Next]_vars, NEW r \in Readers, Returns(r)
  PROVE  \/ q[r].pc = "scan" /\ q[r].tok + 1 = Clause(r).hi + 1 /\ Len(q[r].plan) = 1
         \/ q[r].pc = "count" /\ q[r].tok > Clause(r).hi
<1>1. q[r].pc # "idle" /\ q'[r].pc = "idle"
  BY DEF Returns
<1>2. ASSUME Steady(r)
      PROVE  FALSE
  BY <1>1, <1>2, SteadyFields
<1>3. ASSUME NEW w \in Writers, Insert(w)
      PROVE  FALSE
  BY <1>2, <1>3, InsertSteady
<1>4. ASSUME NEW s \in Readers, s # r, Ask(s)
      PROVE  FALSE
  BY <1>2, <1>4, AskStep
<1>5. ASSUME UNCHANGED vars
      PROVE  FALSE
  BY <1>1, <1>5 DEF vars
<1>6. DOMAIN q[r] = QueryFields /\ "pc" \in QueryFields /\ "first" \in QueryFields
      /\ q = [s \in Readers |-> q[s]]
  BY DEF QueryInv, QueryOf, QueryType, QueryFields
<1>7. \A u : q' = [q EXCEPT ![r] = u] => q'[r] = u
  BY <1>6
<1>8. \A s : Crash(s).pc = "crash"
  BY DEF Crash, NoQuery
<1>9. Ask(r)
  <2>1. Next
    BY <1>5
  <2>2. PICK s \in Readers : Ask(s)
    BY <1>3, <2>1 DEF Next
  <2>3. s = r
    BY <1>4, <2>2
  <2>4. QED
    BY <2>2, <2>3
<1>10. ~Start(r) /\ ~Unknown(r)
  BY <1>1 DEF Start, Unknown
<1>11. ASSUME Begin(r)
       PROVE  FALSE
  BY <1>1, <1>6, <1>7, <1>11 DEF Begin, QueryFields
<1>12. ASSUME Advance(r)
       PROVE  FALSE
  <2> DEFINE u == IF q[r].tok = Clause(r).hi + 1 THEN Reached(q[r])
                  ELSE IF q[r].list = Null \/ q[r].idx + 1 = Size(q[r].list)
                    THEN [q[r] EXCEPT !.pc = "scan", !.idx = 0]
                    ELSE Reached([q[r] EXCEPT !.idx = q[r].idx + 1])
  <2>1. q' = [q EXCEPT ![r] = u]
    BY <1>12 DEF Advance
  <2>2. \A s : DOMAIN s = QueryFields => Reached(s).pc # "idle"
    BY DEF Reached, QueryFields
  <2>3. u.pc # "idle"
    <3>1. DOMAIN [q[r] EXCEPT !.idx = q[r].idx + 1] = QueryFields
      BY <1>6
    <3>2. [q[r] EXCEPT !.pc = "scan", !.idx = 0].pc = "scan"
      BY <1>6
    <3>3. QED
      BY <1>6, <2>2, <3>1, <3>2
  <2>4. QED
    BY <1>1, <1>7, <2>1, <2>3
<1>13. ASSUME Check(r)
       PROVE  FALSE
  <2> DEFINE s0 == [q[r] EXCEPT !.hole = IsHole(q[r].list, q[r].idx)]
  <2>1. PICK v : q' = [q EXCEPT ![r] =
                         IF v = Null THEN Crash(s0)
                         ELSE IF v >= s0.max_rid THEN [s0 EXCEPT !.pc = "advance"]
                         ELSE [s0 EXCEPT !.pc = IF Clause(r).pf THEN "apply" ELSE "deref"]]
    BY <1>13 DEF Check
  <2>2. DOMAIN s0 = QueryFields
    BY <1>6
  <2> HIDE DEF s0
  <2>3. [s0 EXCEPT !.pc = "advance"].pc = "advance"
    BY <1>6, <2>2
  <2>4. [s0 EXCEPT !.pc = IF Clause(r).pf THEN "apply" ELSE "deref"].pc # "idle"
    BY <1>6, <2>2
  <2>5. QED
    BY <1>1, <1>7, <1>8, <2>1, <2>3, <2>4
<1>14. ASSUME Apply(r)
       PROVE  FALSE
  <2>1. \/ \E p \in {"deref", "advance"} : q' = [q EXCEPT ![r].pc = p]
        \/ q' = [q EXCEPT ![r] = Crash(q[r])]
    BY <1>14 DEF Apply
  <2>2. \A p : [q[r] EXCEPT !.pc = p].pc = p
    BY <1>6
  <2>3. \A p \in {"deref", "advance"} : q' = [q EXCEPT ![r].pc = p] => q'[r].pc = p
    BY <1>6, <2>2
  <2>4. QED
    BY <1>1, <1>7, <1>8, <2>1, <2>3
<1>15. ASSUME Deref(r)
       PROVE  FALSE
  <2>1. PICK v : q' = [q EXCEPT ![r] =
                         IF v = Null THEN Crash(q[r])
                         ELSE [q[r] EXCEPT !.pc = "advance", !.first = FALSE, !.hole = FALSE,
                                           !.results = q[r].results \cup {v}]]
    BY <1>15 DEF Deref
  <2>2. [q[r] EXCEPT !.pc = "advance", !.first = FALSE, !.hole = FALSE,
                     !.results = q[r].results \cup {v}].pc = "advance"
    BY <1>6
  <2>3. QED
    BY <1>1, <1>7, <1>8, <2>1, <2>2
<1>16. ASSUME Scan(r)
       PROVE  q[r].pc = "scan" /\ q[r].tok + 1 = Clause(r).hi + 1 /\ Len(q[r].plan) = 1
  <2> DEFINE t == q[r].tok + 1
             l == at(KeyPath(t))
             s0 == [q[r] EXCEPT !.tok = t, !.list = l]
             u == IF t = Clause(r).hi + 1 THEN NextClause(s0)
                  ELSE IF l = Null /\ t <= Clause(r).hi THEN s0
                  ELSE Reached(s0)
  <2>1. q[r].pc = "scan"
    BY <1>16 DEF Scan
  <2>2. q' = [q EXCEPT ![r] = u] \/ q' = [q EXCEPT ![r] = Crash(q[r])]
    BY <1>16 DEF Scan
  <2>3. q' = [q EXCEPT ![r] = u]
    BY <1>1, <1>7, <1>8, <2>2
  <2>4. DOMAIN s0 = QueryFields /\ s0.pc = "scan" /\ s0.plan = q[r].plan
    BY <1>6, <2>1 DEF QueryFields
  <2> HIDE DEF s0, l
  <2>5. Reached(s0).pc # "idle"
    BY <1>6, <2>4 DEF Reached
  <2>6. Len(q[r].plan) # 1 => NextClause(s0).pc = "begin"
    BY <1>6, <2>4 DEF NextClause
  <2>7. u.pc = "idle"
    BY <1>1, <1>7, <2>3
  <2>8. QED
    BY <2>1, <2>4, <2>5, <2>6, <2>7
<1>17. ASSUME FilterCount(r)
       PROVE  q[r].pc = "count" /\ q[r].tok > Clause(r).hi
  <2> DEFINE u == [q[r] EXCEPT !.tok = q[r].tok + 1, !.count = q[r].count + Size(at(Path(q[r].tok)))]
  <2>1. q[r].pc = "count" /\ q' = [q EXCEPT ![r] = IF q[r].tok > Clause(r).hi THEN NoQuery ELSE u]
    BY <1>17 DEF FilterCount
  <2>2. u.pc = "count"
    BY <1>6, <2>1
  <2>3. QED
    BY <1>1, <1>7, <2>1, <2>2
<1>18. ASSUME QueryCharacter(r)
       PROVE  q[r].pc = "count" /\ q[r].tok > Clause(r).hi
  <2> DEFINE u == [q[r] EXCEPT !.tok = q[r].tok + 1, !.count = q[r].count + Size(walk[r].node)]
  <2>1. /\ q[r].pc = "count"
        /\ q' = q \/ q' = [q EXCEPT ![r] = u] \/ q[r].tok > Clause(r).hi
    BY <1>18 DEF QueryCharacter
  <2>2. u.pc = "count"
    BY <1>6, <2>1
  <2>3. QED
    BY <1>1, <1>7, <2>1, <2>2
<1>19. QED
  BY <1>9, <1>10, <1>11, <1>12, <1>13, <1>14, <1>15, <1>16, <1>17, <1>18 DEF Ask

LEMMA CompleteFacts ==
  ASSUME IndexInv, StoreInv, QueryInv, [Next]_vars, NEW r \in Readers, Returns(r), q[r].pc # "count"
  PROVE  \A c \in Range(q[r].asked) : Matching(c, q[r].max_rid) \subseteq q[r].results
<1>1. q[r].pc = "scan" /\ q[r].tok + 1 = Clause(r).hi + 1 /\ Len(q[r].plan) = 1
  BY Returning
<1>2. QueryType(r) /\ PlanOf(r) /\ KeyOf(r) /\ FoundOf(r)
  BY DEF QueryInv, QueryOf
<1>3. q[r].pc \in Active
  BY <1>1 DEF Active
<1>4. /\ Clause(r).lo \in Nat /\ Clause(r).hi \in Nat /\ Clause(r) = q[r].plan[1]
  BY <1>1, ClauseFacts
<1>5. q[r].tok \in Nat /\ q[r].asked \in Seq(Clauses)
  BY <1>2 DEF QueryType
<1>6. q[r].tok = Clause(r).hi
  BY <1>1, <1>4, <1>5
<1>7. Sought(r) \subseteq q[r].results
  <2>1. Behind(r) \subseteq q[r].results /\ Here(r) \subseteq q[r].results
    BY <1>1, <1>2, <1>3 DEF FoundOf
  <2>2. \A id \in Sought(r) : claimed[id + 1].tok < q[r].tok \/ claimed[id + 1].tok = q[r].tok
    BY <1>4, <1>6 DEF Sought, Matching
  <2>3. QED
    BY <2>1, <2>2 DEF Behind, Here
<1>8. ASSUME NEW i \in 1..Len(q[r].asked)
      PROVE  Matching(q[r].asked[i], q[r].max_rid) \subseteq q[r].results
  <2>1. CASE \E k \in 1..Len(q[r].plan) : q[r].plan[k] = q[r].asked[i]
    <3>1. q[r].asked[i] = Clause(r)
      BY <1>1, <1>4, <2>1
    <3>2. QED
      BY <1>7, <3>1 DEF Sought
  <2>2. QED
    BY <1>2, <1>3, <2>1 DEF PlanOf
<1>9. QED
  <2>1. \A c \in Range(q[r].asked) : \E i \in 1..Len(q[r].asked) : c = q[r].asked[i]
    BY <1>5 DEF Range
  <2>2. QED
    BY <1>8, <2>1

LEMMA CountFacts ==
  ASSUME IndexInv, StoreInv, QueryInv, [Next]_vars, NEW r \in Readers, Returns(r), q[r].pc = "count"
  PROVE  /\ Cardinality(Matching(q[r].asked[1], q[r].max_rid)) <= q[r].count
         /\ q[r].count <= Cardinality(Matching(q[r].asked[1], current_write_id))
<1>1. q[r].tok > Clause(r).hi
  BY Returning
<1>2. CountOf(r) /\ QueryType(r)
  BY DEF QueryInv, QueryOf
<1>3. Clause(r).lo \in Nat /\ Clause(r).hi \in Nat /\ Clause(r) = q[r].plan[1]
  BY ClauseFacts
<1>4. /\ q[r].asked = q[r].plan /\ q[r].tok \in Clause(r).lo..(Clause(r).hi + 1)
      /\ Cardinality(Behind(r)) <= q[r].count /\ q[r].count <= Cardinality(Counted(r))
  BY <1>2 DEF CountOf
<1>5. q[r].asked[1] = Clause(r)
  BY <1>3, <1>4
<1>6. \A b : \A id \in Matching(Clause(r), b) : claimed[id + 1].tok < q[r].tok
  BY <1>1, <1>3, <1>4 DEF Matching
<1>7. Behind(r) = Matching(Clause(r), q[r].max_rid)
  BY <1>6 DEF Behind, Sought
<1>8. Counted(r) = Matching(Clause(r), current_write_id)
  BY <1>6 DEF Counted
<1>9. QED
  BY <1>4, <1>5, <1>7, <1>8

-----------------------------------------------------------------------------
(* The theorems                                                            *)

\* Everything has its type, in the index, in the store and in the queries; the
\* nodes that are live are those get() has installed or is about to install.
THEOREM TypeOKHolds == Spec => []TypeOK
<1>1. Inv => TypeOK
  BY TypeFacts
<1>2. QED
  BY <1>1, QueriesCorrect, PTL

\* The races of get() for a null slot leak no node and free none that is in use.
THEOREM NoNodeLeaksHolds == Spec => []NoNodeLeaks
<1>1. Inv => NoNodeLeaks
  BY LeakFacts
<1>2. QED
  BY <1>1, QueriesCorrect, PTL

\* Once end() has published an id, it is on the one list at() finds for its key,
\* and on it once.
THEOREM PublishedListedHolds == Spec => []PublishedListed
<1>1. Inv => PublishedListed
  BY ListedFacts
<1>2. QED
  BY <1>1, QueriesCorrect, PTL

\* What operator* inserts that was not asked for was the constructor's element,
\* or was read before it was set.
THEOREM GapsKnownHolds == Spec => []GapsKnown
<1>1. Inv => GapsKnown
  BY GapFacts
<1>2. QED
  BY <1>1, QueriesCorrect, PTL

\* The iterators of a query fault nowhere and find only what it asks for, as long
\* as no writer and no query_character changes the index meanwhile.
THEOREM QuietExactHolds == Spec => []QuietExact
<1>1. Inv => QuietExact
  BY QuietFacts
<1>2. QED
  BY <1>1, QueriesCorrect, PTL

\* A query of filter_pkts or complex_character_lookup that returns has found every
\* record published when it started.
THEOREM QueryCompleteHolds == Spec => QueryComplete
<1>1. Inv /\ [Next]_vars =>
        [\A r \in Readers :
           Returns(r) /\ q[r].pc # "count" =>
             \A c \in Range(q[r].asked) : Matching(c, q[r].max_rid) \subseteq q[r].results]_vars
  BY CompleteFacts DEF Inv
<1>2. QED
  BY <1>1, QueriesCorrect, PTL DEF Spec, QueryComplete

\* A count of filter_count or query_character is between the packets published
\* when it started and those claimed when it returns.
THEOREM CountsBetweenHolds == Spec => CountsBetween
<1>1. Inv /\ [Next]_vars =>
        [\A r \in Readers :
           Returns(r) /\ q[r].pc = "count" =>
             LET c == q[r].asked[1]
             IN  /\ Cardinality(Matching(c, q[r].max_rid)) <= q[r].count
                 /\ q[r].count <= Cardinality(Matching(c, current_write_id))]_vars
  BY CountFacts DEF Inv
<1>2. QED
  BY <1>1, QueriesCorrect, PTL DEF Spec, CountsBetween

=============================================================================
