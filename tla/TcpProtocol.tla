---------------------------- MODULE TcpProtocol ----------------------------
(***************************************************************************)
(* The protocol logic of the refactored stack, free of any storage: the    *)
(* transmission control block of tcb.h/tcb.c, the classification of a      *)
(* segment by tcp_parse_edge (tcp.c) and the replies built by segment.c.   *)
(***************************************************************************)
EXTENDS SeqSpace

CONSTANTS
  TCP_WIN_DEF,   \* the receive window every block starts with
  ID,            \* connection four-tuples
  Listening,     \* the IDs whose dst_port is TCP_LISTEN_PORT
  Garbage,       \* values an uninitialised int may hold
  GarbageFlags   \* values an uninitialised flag byte may hold

ASSUME WindowAssumption == TCP_WIN_DEF \in Nat /\ 0 < TCP_WIN_DEF /\ TCP_WIN_DEF <= SignBit
ASSUME IDAssumption == Listening \subseteq ID
ASSUME GarbageAssumption == /\ Garbage \subseteq SeqNum /\ Garbage # {}
                            /\ GarbageFlags \subseteq SUBSET Flag /\ GarbageFlags # {}

-----------------------------------------------------------------------------
(***************************************************************************)
(* Segments as tcp_dispatch sees them after the headers are located.       *)
(* len is the payload length, sound tells whether the TCP checksum holds.  *)
(***************************************************************************)
Segment == [id : ID, flags : SUBSET Flag, seq : SeqNum, ack : SeqNum,
            len : 0 .. SeqMod - 3, window : 0 .. W16 - 1, sound : BOOLEAN]

Con_State == {"CON_CLOSED", "CON_SYN_RECEIVED", "CON_ESTABLISHED"}

Send_State    == [unac : SeqNum, next : SeqNum, window : 0 .. W16 - 1, iss : SeqNum]
Receive_State == [next : SeqNum, window : {TCP_WIN_DEF}, irs : SeqNum]
TCB           == [id : ID, state : Con_State, send : Send_State, recv : Receive_State]

tcb_init(id) ==
  [id |-> id, state |-> "CON_CLOSED",
   send |-> [unac |-> 0, next |-> 0, window |-> 0, iss |-> 0],
   recv |-> [next |-> 0, window |-> TCP_WIN_DEF, irs |-> 0]]

(***************************************************************************)
(* tcp_parse_edge once a block is at hand: what the segment means for a    *)
(* connection in the given state.                                          *)
(***************************************************************************)
parse_edge(seg, state) ==
  LET has(f) == f \in seg.flags
  IN CASE seg.id \notin Listening                            -> "EVT_SEND_RST"
       [] seg.id \in Listening /\ has("RST")                 -> "EVT_RST"
       [] OTHER ->
            CASE state = "CON_CLOSED" ->
                   IF has("SYN") /\ ~has("ACK") THEN "EVT_SYN" ELSE "EVT_SEND_RST"
              [] state = "CON_SYN_RECEIVED" ->
                   IF has("ACK") /\ ~has("SYN") THEN "EVT_ACK" ELSE "EVT_SEND_RST"
              [] state = "CON_ESTABLISHED" ->
                   IF has("SYN") THEN "EVT_SEND_RST" ELSE "EVT_DATA"
              [] OTHER -> "EVT_DROP"

(***************************************************************************)
(* The cases of tcb_state_update.                                          *)
(***************************************************************************)
SynWithoutWrap(tcb, seg, iss) ==        \* mutant: irs + 1 in a wider integer
  [tcb EXCEPT !.state = "CON_SYN_RECEIVED",
              !.recv  = [next |-> seg.seq + 1, window |-> @.window, irs |-> seg.seq],
              !.send  = [unac |-> iss, next |-> Add32(iss, 1), window |-> seg.window, iss |-> iss]]

update_syn(tcb, seg, iss) ==
  [tcb EXCEPT !.state = "CON_SYN_RECEIVED",
              !.recv  = [next |-> Add32(seg.seq, 1), window |-> @.window, irs |-> seg.seq],
              !.send  = IF tcb.state = "CON_CLOSED"
                        THEN [unac |-> iss, next |-> Add32(iss, 1), window |-> seg.window, iss |-> iss]
                        ELSE [@ EXCEPT !.window = seg.window]]

AcksAnything(tcb, seg) == TRUE          \* mutant: the number is not compared
AcksIss(tcb, seg) == seg.ack = tcb.send.iss   \* mutant: the SYN is not counted

AckAccepted(tcb, seg) == seg.ack = tcb.send.next

AckForgetsUnac(tcb, seg) ==             \* mutant: send.unac is not advanced
  [tcb EXCEPT !.state = "CON_ESTABLISHED"]

update_ack(tcb, seg) ==
  [tcb EXCEPT !.state = "CON_ESTABLISHED", !.send.unac = seg.ack]

ResetsFromThePast(tcb, seg) ==          \* mutant: only the upper edge is tested
  SEQ_LT(seg.seq, Add32(tcb.recv.next, tcb.recv.window))

RstAccepted(tcb, seg) ==
  /\ SEQ_GEQ(seg.seq, tcb.recv.next)
  /\ SEQ_LT(seg.seq, Add32(tcb.recv.next, tcb.recv.window))

-----------------------------------------------------------------------------
(***************************************************************************)
(* Replies.  by names the function that built the reply; summed is how     *)
(* many payload bytes its TCP checksum accounts for (replies carry none),  *)
(* NotSummed when the checksum of the received segment is left in place.   *)
(***************************************************************************)
NotSummed == -1

Reply == [by : {"tcp_syn_ack", "tcp_rst"}, to : ID, flags : SUBSET Flag, seq : SeqNum,
          ack : SeqNum, summed : Int]

tcp_syn_ack(tcb, seg) ==
  [by |-> "tcp_syn_ack", to |-> seg.id, flags |-> {"SYN", "ACK"}, seq |-> tcb.send.iss,
   ack |-> tcb.recv.next, summed |-> seg.len]

(***************************************************************************)
(* tcp_rst.  With ACK, seq_no is htons of the 32-bit field as it lies in   *)
(* memory: on the little-endian build that is its upper half; ack_no is    *)
(* never assigned.  Without ACK neither seq_no nor pl_flags is assigned.   *)
(* No checksum is recomputed.                                              *)
(***************************************************************************)
SegLen(seg) == seg.len + (IF "FIN" \in seg.flags THEN 1 ELSE 0)
                       + (IF "SYN" \in seg.flags THEN 1 ELSE 0)

tcp_rst(seg) ==
  IF "ACK" \in seg.flags
  THEN [by : {"tcp_rst"}, to : {seg.id}, flags : {{"RST"}}, seq : {seg.ack \div W16},
        ack : Garbage, summed : {NotSummed}]
  ELSE [by : {"tcp_rst"}, to : {seg.id}, flags : GarbageFlags, seq : Garbage,
        ack : {Add32(seg.seq, SegLen(seg))}, summed : {NotSummed}]
=============================================================================
