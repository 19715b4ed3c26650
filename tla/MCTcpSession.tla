---------------------------- MODULE MCTcpSession ----------------------------
(***************************************************************************)
(* One client and a server whose table holds one block.  An uninitialised  *)
(* flag byte may look like a reset or, misleading the client, a SYN-ACK.   *)
(***************************************************************************)
EXTENDS TcpSession

MCHashOf == [id \in ID |-> 0]
MCGarbageFlags == {{"RST"}, {"SYN", "ACK"}}
=============================================================================
