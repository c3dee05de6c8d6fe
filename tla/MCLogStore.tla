----------------------------- MODULE MCLogStore ------------------------------
(***************************************************************************)
(* Instances of LogStore for TLC.  Two records of different lengths share  *)
(* an index list; a handle's block of bytes holds the two shorter ones but *)
(* not the two longer ones.                                                *)
(***************************************************************************)
EXTENDS LogStoreInvariant, TLC

Short == [len |-> 1, keys |-> <<1>>]
Long == [len |-> 2, keys |-> <<1>>]

MCRecords == {Short, Long}
MCStreamFns == {{Long}}

=============================================================================
