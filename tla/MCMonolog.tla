------------------------------ MODULE MCMonolog ------------------------------
(***************************************************************************)
(* Instances of Monolog for TLC: buckets of 1, 2 and 4 entries, so that    *)
(* ranges cross from one bucket into the next.                             *)
(***************************************************************************)
EXTENDS MonologInvariant, TLC

\* The threads run the same code.
Symmetry == Permutations(Threads)

=============================================================================
