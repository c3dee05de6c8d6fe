------------------------------ MODULE EntryList ------------------------------
(***************************************************************************)
(* What a list of entries promises the code that pushes ids on it: places  *)
(* at its end are handed out once, a place is set once, and what has been  *)
(* set stays.  The index lists of PacketStore are lists of this kind.      *)
(***************************************************************************)
EXTENDS Integers, Sequences

CONSTANTS
  Values,   \* what an entry may be
  MaxCount, \* entries reserved together
  Unset     \* what an entry is before it is set

VARIABLE list

Init == list = <<>>

Reserve == \E c \in 0..MaxCount : list' = list \o [j \in 1..c |-> Unset]

Set ==
  \E j \in DOMAIN list, v \in Values :
    /\ list[j] = Unset
    /\ list' = [list EXCEPT ![j] = v]

Next == Reserve \/ Set

Spec == Init /\ [][Next]_list

=============================================================================
