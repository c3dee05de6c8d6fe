---------------------------- MODULE PublishedLog -----------------------------
(***************************************************************************)
(* What the store promises its readers: writers claim places at the end of *)
(* one total order of records, and the readers see a growing prefix of     *)
(* that order.  A record that can be read is complete from the first       *)
(* moment on, never changes and never goes away.                           *)
(***************************************************************************)
EXTENDS Integers, Sequences

CONSTANTS
  Images,    \* what a record may look like
  MaxBatch   \* records claimed together

VARIABLES
  claimed,   \* the records in the order in which their places were claimed
  visible    \* the records readers can see

vars == <<claimed, visible>>

Batches == UNION {[1..m -> Images] : m \in 0..MaxBatch}

Init == claimed = <<>> /\ visible = <<>>

Claim == \E b \in Batches : claimed' = claimed \o b /\ UNCHANGED visible

Publish ==
  /\ \E m \in Len(visible)..Len(claimed) : visible' = [i \in 1..m |-> claimed[i]]
  /\ UNCHANGED claimed

Next == Claim \/ Publish

Spec == Init /\ [][Next]_vars

=============================================================================
