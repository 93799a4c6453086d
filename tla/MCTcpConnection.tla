--------------------------- MODULE MCTcpConnection ---------------------------
(***************************************************************************)
(* Instances of TcpConnection for TLC.                                     *)
(***************************************************************************)
EXTENDS TcpConnection

\* msg_ids are 10, 11, ...; no byte of a message is a mark.
MCByte  == 0 .. 13
MCShort == {<<10>>, <<11>>}
MCThree == {<<10>>, <<11>>, <<12>>}
MCOne   == {<<10>>}
MCReply == [m \in Messages |-> <<m[1], 13>>]
=============================================================================
