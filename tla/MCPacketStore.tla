---------------------------- MODULE MCPacketStore ----------------------------
(***************************************************************************)
(* Instances of PacketStore for TLC.  The two packets share a source       *)
(* address, one has ports and one has none, and their lengths differ, so   *)
(* that bursts cross a block of the data log at different cells.           *)
(***************************************************************************)
EXTENDS PacketStoreIndex, TLC

TcpPacket ==
  [src |-> 1, dst |-> 2, proto |-> "tcp", sport |-> 1, dport |-> 1, len |-> 1]
OtherPacket ==
  [src |-> 1, dst |-> 1, proto |-> "other", sport |-> 0, dport |-> 0, len |-> 2]

MCPackets == {TcpPacket, OtherPacket}
OnePacket == {OtherPacket}

\* A complex character whose filter list the packet satisfies, and one whose
\* filter list it does not.
MCFilterLists == {{OtherPacket}, {}}
NoFilterLists == {}

\* The writers run the same code on the same constants.
Symmetry == Permutations(Writers)

=============================================================================
