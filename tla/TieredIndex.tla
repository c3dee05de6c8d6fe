---------------------------- MODULE TieredIndex ----------------------------
(***************************************************************************)
(* The tiered indexes of logstore/include/tieredindex.h: a key is split    *)
(* into one slot per tier, each tier is an indexlet, a table of atomic     *)
(* pointers, and the pointers of the last tier are to entry lists.  get()  *)
(* creates what is missing on the way: a thread that finds a null pointer  *)
(* allocates an item and races with the others by a compare-and-swap; the  *)
(* losers delete their item and go on with the winner's.  at() reads only. *)
(*                                                                         *)
(* A node is an indexlet or an entry list; idx maps <<node, slot>> to the  *)
(* node the slot points to and leaves null slots out.  A slot never        *)
(* changes once it is set, so get()'s second load of the slot is folded    *)
(* into the step before it, and at() is one step.                          *)
(***************************************************************************)
EXTENDS Integers, Sequences, FiniteSets

CONSTANTS
  Threads,  \* threads that use the index
  Lengths,  \* the token lengths of the indexes considered
  Wide,     \* slots of an indexlet for two bytes of the key: 65536
  Narrow,   \* slots of an indexlet for one byte of the key: 256
  Null      \* the null pointer

ASSUME LengthAssumption == Lengths \subseteq 1..8
ASSUME WidthAssumption == Wide \in Nat \ {0} /\ Narrow \in Nat \ {0}
ASSUME NullNode == Null \notin Nat /\ Null \notin Seq(Nat \X Threads)

VARIABLES
  length, \* the token length the index is made for
  idx,    \* the slots that are set
  live,   \* the nodes allocated and not deleted
  walk    \* the get() each thread is in: the slots ahead, the node it has
          \* reached, and the item it has just allocated

index_vars == <<length, idx, live, walk>>

-----------------------------------------------------------------------------
(* The slots of a key                                                      *)

Depth1(key, s) == <<key>>

Depth2(key, s) == <<key \div s[2]>> \o Depth1(key % s[2], Tail(s))

Depth3(key, s) ==
  LET m == s[2] * s[3] IN <<key \div m>> \o Depth2(key % m, Tail(s))

Depth4(key, s) ==
  LET m == s[2] * s[3] * s[4] IN <<key \div m>> \o Depth3(key % m, Tail(s))

\* The sizes of the tiers of __index1 to __index8: two bytes of the key for each
\* tier, and one for the last tier if the length is odd.
IndexShape(len) ==
  [j \in 1..((len + 1) \div 2) |-> IF len % 2 = 1 /\ 2 * j > len THEN Narrow ELSE Wide]

shape == IndexShape(length)

Path(key) ==
  CASE Len(shape) = 1 -> Depth1(key, shape)
    [] Len(shape) = 2 -> Depth2(key, shape)
    [] Len(shape) = 3 -> Depth3(key, shape)
    [] Len(shape) = 4 -> Depth4(key, shape)

\* The first tier is a std::array of SIZE1 slots, indexed without a check.
OutOfTable(path) == path[1] >= shape[1]

-----------------------------------------------------------------------------
(* at() and get()                                                          *)

\* A node is named by the slots that lead to it, each with the thread that made
\* what it points to: a thread makes at most one node for a slot, since it tries
\* only while that is null.
Root == <<>>

Child(node, slot) ==
  IF <<node, slot>> \in DOMAIN idx THEN idx[<<node, slot>>] ELSE Null

\* at(): the node a path leads to, Null as soon as a slot on it is null.
at(path) ==
  LET n1 == Child(Root, path[1])
      n2 == IF Len(path) < 2 THEN n1 ELSE Child(n1, path[2])
      n3 == IF Len(path) < 3 THEN n2 ELSE Child(n2, path[3])
  IN  IF Len(path) < 4 THEN n3 ELSE Child(n3, path[4])

NoWalk == [path |-> <<>>, node |-> Root, item |-> Null]

\* get() is called on a node with the slots below it.
Enter(t, node, path) ==
  walk' = [walk EXCEPT ![t] = [path |-> path, node |-> node, item |-> Null]]

Arrived(t) == walk[t].path = <<>>

Slot(t) == <<walk[t].node, Head(walk[t].path)>>

Fresh(t) == Append(walk[t].node, <<Head(walk[t].path), t>>)

\* The next tier, reached through a slot that points to `node'.
Descend(t, node) == Enter(t, node, Tail(walk[t].path))

\* The first load of a slot: go on through it, or allocate an item if it is null.
LoadSlot(t) ==
  /\ ~Arrived(t)
  /\ walk[t].item = Null
  /\ \/ /\ Slot(t) \in DOMAIN idx
        /\ Descend(t, idx[Slot(t)])
        /\ UNCHANGED live
     \/ /\ Slot(t) \notin DOMAIN idx
        /\ live' = live \cup {Fresh(t)}
        /\ walk' = [walk EXCEPT ![t].item = Fresh(t)]
  /\ UNCHANGED <<length, idx>>

\* Mutants: the loser takes the winner's item without deleting its own; the loser
\* deletes the winner's.
LeakySlot(t) ==
  /\ walk[t].item # Null
  /\ idx' = [c \in DOMAIN idx \cup {Slot(t)} |->
               IF c \in DOMAIN idx THEN idx[c] ELSE walk[t].item]
  /\ Descend(t, idx'[Slot(t)])
  /\ UNCHANGED <<length, live>>

CasSlotDeletesWinner(t) ==
  /\ walk[t].item # Null
  /\ idx' = [c \in DOMAIN idx \cup {Slot(t)} |->
               IF c \in DOMAIN idx THEN idx[c] ELSE walk[t].item]
  /\ live' = IF Slot(t) \in DOMAIN idx THEN live \ {idx[Slot(t)]} ELSE live
  /\ Descend(t, idx'[Slot(t)])
  /\ UNCHANGED length

\* The compare-and-swap on a null slot; a loser deletes its item and takes the
\* winner's.
CasSlot(t) ==
  /\ walk[t].item # Null
  /\ \/ /\ Slot(t) \notin DOMAIN idx
        /\ idx' = [c \in DOMAIN idx \cup {Slot(t)} |->
                     IF c = Slot(t) THEN walk[t].item ELSE idx[c]]
        /\ Descend(t, walk[t].item)
        /\ UNCHANGED live
     \/ /\ Slot(t) \in DOMAIN idx
        /\ live' = live \ {walk[t].item}
        /\ Descend(t, idx[Slot(t)])
        /\ UNCHANGED idx
  /\ UNCHANGED length

GetStep(t) == LoadSlot(t) \/ CasSlot(t)

IndexInit ==
  /\ length \in Lengths
  /\ idx = [c \in {} |-> Null]
  /\ live = {Root}
  /\ walk = [t \in Threads |-> NoWalk]

\* What storage_size() visits, starting from the first tier.
Reachable == {Root} \cup {idx[c] : c \in DOMAIN idx}

-----------------------------------------------------------------------------
(* Properties                                                              *)

IndexTypeOK ==
  /\ length \in Lengths
  /\ DOMAIN idx \subseteq live \X Nat
  /\ \A c \in DOMAIN idx : idx[c] \in live \ {Root}
  /\ \A t \in Threads : /\ walk[t].node \in live
                        /\ walk[t].item \in live \cup {Null}

\* Every node is either reached through exactly one slot, and so counted once by
\* storage_size(), or still in the hands of the thread that allocated it: the
\* races for slots leak no node and free none that is in use.
NoNodeLeaks ==
  /\ \A c, d \in DOMAIN idx : idx[c] = idx[d] => c = d
  /\ live = Reachable \cup {walk[t].item : t \in {u \in Threads : walk[u].item # Null}}

=============================================================================
