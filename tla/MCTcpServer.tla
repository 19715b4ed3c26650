---------------------------- MODULE MCTcpServer ----------------------------
(***************************************************************************)
(* Instances of TcpServer.  A number has W16 * W16 values; the segments    *)
(* carry the combinations of flags that parse_edge and tcp_rst tell apart. *)
(***************************************************************************)
EXTENDS TcpServer, TLC

CONSTANTS
  c1, c2, c3,     \* four-tuples: c1 and c2 share a bucket, c3 is not listening
  SynSeqs,        \* sequence numbers of the SYNs
  RstSeqs,        \* sequence numbers of the resets
  SegAcks,        \* numbers the other segments acknowledge
  SegLens         \* payload lengths of the segments

MCHashOf == [id \in ID |-> IF id = c3 THEN 1 ELSE 0]
MCListening == {c1, c2} \cap ID

Seg(flags, seqs, acks) ==
  [id : ID, flags : {flags}, seq : seqs, ack : acks, len : SegLens, window : {1}, sound : {TRUE}]

MCSegments ==
  Seg({"SYN"}, SynSeqs, {0}) \cup Seg({"RST"}, RstSeqs, {0}) \cup Seg({"FIN"}, {0}, {0})
  \cup Seg({"ACK"}, {0}, SegAcks) \cup Seg({"SYN", "ACK"}, {0}, SegAcks)
  \cup [id : {c1}, flags : {{"SYN"}, {"RST"}}, seq : {0}, ack : {0}, len : {0},
        window : {1}, sound : {FALSE}]

MCGarbageFlags == {{}, {"RST"}}

(* Nothing in the code depends on which address malloc returns.            *)
Addresses == Permutations(Ptr)
=============================================================================
