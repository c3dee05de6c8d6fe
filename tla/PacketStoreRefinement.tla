------------------------ MODULE PacketStoreRefinement ------------------------
(***************************************************************************)
(* The packet store implements PublishedLog: the claimed records are the   *)
(* packets in the order of their ids, and the visible ones are what a      *)
(* reader finds when it follows the offset log into the data log for every *)
(* id below num_ids().                                                     *)
(***************************************************************************)
EXTENDS PacketStore

ClaimedRecords == [i \in 1..current_write_id |-> ImageOf(i - 1)]

VisibleRecords == [i \in 1..num_ids |-> Record(i - 1)]

Log == INSTANCE PublishedLog WITH
         Images <- {Image(t, p) : t \in 0..MaxTime, p \in Packets},
         MaxBatch <- MaxBurst,
         claimed <- ClaimedRecords,
         visible <- VisibleRecords

\* What readers see is at all times a prefix of the order in which the ids were
\* claimed, complete and unchanging, however the writers' steps interleave.
ReadersSeeLog == Log!Spec

=============================================================================
