---------------------------- MODULE MCLegacyMain -----------------------------
(***************************************************************************)
(* The legacy process fed any sequence of packets from a small set: ICMP   *)
(* messages, packets of no interest, and segments with the combinations of *)
(* flags tcp_dispatch tells apart, with and without payload.               *)
(***************************************************************************)
EXTENDS LegacyMain

CONSTANTS
  SegSeq, RstSeqs,   \* the number segments carry, the ones resets carry
  SegAcks,           \* the numbers segments acknowledge
  Talkers            \* the four-tuples that go beyond SYN and RST

MCFlags == {{"SYN"}, {"ACK"}, {"FIN", "ACK"}, {"SYN", "ACK"}}

MCSegments ==
  [id : Talkers, flags : MCFlags, seq : {SegSeq}, ack : SegAcks, len : {0}, get : {FALSE}]
  \cup [id : Talkers, flags : {{"PSH", "ACK"}}, seq : {SegSeq}, ack : SegAcks, len : {4, 8}, get : {TRUE}]
  \cup [id : ID, flags : {{"SYN"}}, seq : {SegSeq}, ack : {0}, len : {0}, get : {FALSE}]
  \cup [id : ID, flags : {{"RST"}}, seq : RstSeqs, ack : {0}, len : {0}, get : {FALSE}]

MCBodyLen == [b \in Body |-> IF b = "200_OK" THEN 8 ELSE 4]
=============================================================================
