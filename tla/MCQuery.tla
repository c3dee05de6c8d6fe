------------------------------ MODULE MCQuery ------------------------------
(* Small instances of Query.                                               *)
EXTENDS Query, TLC

CONSTANTS w1, w2, r1

MCThreads == {w1, w2, r1}
MCRecords == {[tok |-> 1, hit |-> TRUE], [tok |-> 2, hit |-> TRUE], [tok |-> 2, hit |-> FALSE]}
Symmetry == Permutations(Writers)

\* Index-only and packet-filtered clauses: all of the keys of the records, the
\* keys up to the largest one, a range that is empty.
MCPlans ==
  {<<[lo |-> 1, hi |-> 2, pf |-> FALSE]>>, <<[lo |-> 0, hi |-> 2, pf |-> TRUE]>>,
   <<[lo |-> 2, hi |-> 3, pf |-> FALSE], [lo |-> 1, hi |-> 0, pf |-> FALSE]>>}

=============================================================================
