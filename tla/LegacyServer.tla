---------------------------- MODULE LegacyServer ----------------------------
(***************************************************************************)
(* tcp_dispatch of the first stack (network/tcp/tcp.c): a linked list of   *)
(* transmission control blocks, an HTTP responder, and one reply at most   *)
(* per segment, built in place and written back by parse_packet (main.c).  *)
(*                                                                         *)
(* The list is the sequence of its blocks from head to tail; every address *)
(* the code holds is one tcp_get_state just returned, so a position stands *)
(* for it.  The server is single-threaded: one segment is one step.        *)
(***************************************************************************)
EXTENDS SeqSpace, Sequences

CONSTANTS
  W8,          \* 2^8: the number of values of a byte
  ID,          \* connection four-tuples
  Window,      \* the receive window of every block
  GET_LEN,     \* length of the request prefix "GET "
  BodyLen,     \* length of every HTTP response, by status
  Segments,    \* the segments that may be read from the device
  IssValues,   \* the values tcp_get_ticks may return
  None         \* nothing to write

ASSUME W8Assumption == W8 \in Nat /\ W8 > 0 /\ W16 = W8 * W8
ASSUME WindowAssumption == Window \in Nat /\ Window < SeqMod

VARIABLES
  states,   \* the blocks of the list
  size,     \* states->size
  alive,    \* the process has not been killed by a NULL dereference
  out       \* the reply parse_packet writes, None after TCP_SILENT

vars == <<states, size, alive, out>>

Body    == {"200_OK", "400_Bad_Request", "404_Not_Found", "500_Internal_Server_Error"}
Segment == [id : ID, flags : SUBSET Flag, seq : SeqNum, ack : SeqNum,
            len : SeqNum, get : BOOLEAN]
Reply   == [to : ID, flags : SUBSET Flag, seq : SeqNum, ack : SeqNum, len : SeqNum]

TCP_State == {"TCP_SYN_RECEIVED", "TCP_ESTABLISHED", "TCP_CLOSE_WAIT"}
TCB == [id : ID, state : TCP_State,
        send : [unac : SeqNum, next : SeqNum, iss : SeqNum],
        recv : [next : SeqNum, irs : SeqNum]]

ASSUME BodyAssumption == BodyLen \in [Body -> SeqNum \ {0}]
ASSUME InputAssumption == /\ Segments \subseteq Segment
                          /\ IssValues \subseteq SeqNum
                          /\ None \notin Reply \cup TCB

Has(seg, f) == f \in seg.flags

-----------------------------------------------------------------------------
(***************************************************************************)
(* The list.                                                               *)
(***************************************************************************)
Positions(id) == {i \in 1 .. Len(states) : states[i].id = id}
tcp_get_state(id) == CHOOSE i \in Positions(id) : \A j \in Positions(id) : i <= j

InsertAtHead(tcb) == <<tcb>>            \* mutant: the rest of the list is lost

tcp_insert_tcb(tcb) == Append(states, tcb)

UnlinksRest(i) == SubSeq(states, 1, i - 1) \* mutant: prev->next is set to NULL

tcp_remove_connection(i) ==
  SubSeq(states, 1, i - 1) \o SubSeq(states, i + 1, Len(states))

(***************************************************************************)
(* tcp_init_tcb and tcp_null_syn_ack: the block of a connection whose SYN  *)
(* carried seq, when tcp_get_ticks returned iss.                           *)
(***************************************************************************)
SynReceived(id, seq, iss) ==
  [id |-> id, state |-> "TCP_SYN_RECEIVED",
   send |-> [unac |-> iss, next |-> Add32(iss, 1), iss |-> iss],
   recv |-> [next |-> Add32(seq, 1), irs |-> seq]]

SynAck(tcb) == [to |-> tcb.id, flags |-> {"SYN", "ACK"}, seq |-> tcb.send.iss,
                ack |-> tcb.recv.next, len |-> 0]

(***************************************************************************)
(* tcp_null_rst: refuse a segment that belongs to no connection.           *)
(***************************************************************************)
SegLen(seg) == seg.len + (IF Has(seg, "FIN") THEN 1 ELSE 0)
                       + (IF Has(seg, "SYN") THEN 1 ELSE 0)

tcp_null_rst(seg) ==
  IF Has(seg, "ACK")
  THEN [to |-> seg.id, flags |-> {"RST"}, seq |-> seg.ack, ack |-> 0, len |-> 0]
  ELSE [to |-> seg.id, flags |-> {"RST", "ACK"}, seq |-> 0,
        ack |-> (seg.seq + SegLen(seg)) % SeqMod, len |-> 0]

(***************************************************************************)
(* tcp_got_rst reads seq_num as it lies in memory: without ntohl, on the   *)
(* little-endian build, the four bytes are in reverse order.               *)
(***************************************************************************)
ByteSwap(n) ==
  LET Byte(k) == (n \div (W8^k)) % W8
  IN  Byte(0) * W8^3 + Byte(1) * W8^2 + Byte(2) * W8 + Byte(3)

RstAccepted(tcb, seg) ==
  LET rst_seq == ByteSwap(seg.seq)
  IN  /\ SEQ_GEQ(rst_seq, tcb.recv.next)
      /\ SEQ_LT(rst_seq, Add32(tcb.recv.next, Window))

(***************************************************************************)
(* http_handle_request: a GET is answered with the file, or with an error  *)
(* when it cannot be opened or read; anything else is a bad request.       *)
(***************************************************************************)
http_serve_file == {"200_OK", "404_Not_Found", "500_Internal_Server_Error"}

http_handle_request(seg) ==
  IF seg.len >= GET_LEN /\ seg.get THEN http_serve_file ELSE {"400_Bad_Request"}

(* tcp_send_ack: the segment and the block after a body of n bytes.        *)
AckReply(tcb, n) == [to |-> tcb.id, seq |-> tcb.send.next, ack |-> tcb.recv.next,
                     flags |-> IF n > 0 THEN {"PSH", "ACK"} ELSE {"ACK"}, len |-> n]
StaysPut(tcb, n) == tcb                 \* mutant: send.next is not advanced
AfterAck(tcb, n) == [tcb EXCEPT !.send.next = Add32(@, n)]

-----------------------------------------------------------------------------
(***************************************************************************)
(* tcp_dispatch, one action per path through it.                           *)
(***************************************************************************)
Unknown(seg) == Positions(seg.id) = {}
Known(seg)   == ~Unknown(seg) /\ ~Has(seg, "RST")
Block(seg)   == states[tcp_get_state(seg.id)]
In(seg, s)   == Known(seg) /\ Block(seg).state = s
Update(seg, tcb) == states' = [states EXCEPT ![tcp_get_state(seg.id)] = tcb]

Silent  == out' = None /\ UNCHANGED alive
Send(r) == out' = r /\ UNCHANGED alive

UnknownReset(seg) ==
  /\ Unknown(seg) /\ Has(seg, "RST")
  /\ Silent /\ UNCHANGED <<states, size>>

UnknownSyn(seg) ==
  /\ Unknown(seg) /\ ~Has(seg, "RST") /\ Has(seg, "SYN") /\ ~Has(seg, "ACK")
  /\ \E iss \in IssValues :
       LET tcb == SynReceived(seg.id, seg.seq, iss)
       IN  states' = tcp_insert_tcb(tcb) /\ Send(SynAck(tcb))
  /\ size' = size + 1

(* malloc fails: the block is used before it is compared with NULL.        *)
UnknownSynNoMemory(seg) ==
  /\ Unknown(seg) /\ ~Has(seg, "RST") /\ Has(seg, "SYN") /\ ~Has(seg, "ACK")
  /\ alive' = FALSE /\ out' = None
  /\ UNCHANGED <<states, size>>

UnknownOther(seg) ==
  /\ Unknown(seg) /\ ~Has(seg, "RST") /\ (Has(seg, "SYN") => Has(seg, "ACK"))
  /\ Send(tcp_null_rst(seg)) /\ UNCHANGED <<states, size>>

(* tcp_got_rst; what tcp_dispatch prints of its result changes no state.   *)
Reset(seg) ==
  /\ ~Unknown(seg) /\ Has(seg, "RST")
  /\ IF RstAccepted(Block(seg), seg)
     THEN /\ states' = tcp_remove_connection(tcp_get_state(seg.id))
          /\ size' = size - 1
     ELSE UNCHANGED <<states, size>>
  /\ Silent

(* tcp_null_syn_ack rewrites block and segment, but the segment is never   *)
(* written.                                                                *)
RepeatedSyn(seg) ==
  /\ In(seg, "TCP_SYN_RECEIVED") /\ Has(seg, "SYN") /\ ~Has(seg, "ACK")
  /\ \E iss \in IssValues : Update(seg, SynReceived(seg.id, seg.seq, iss))
  /\ Silent /\ UNCHANGED size

TakesAnyAck(seg) ==                     \* mutant: the number is not compared
  /\ In(seg, "TCP_SYN_RECEIVED") /\ Has(seg, "ACK") /\ ~Has(seg, "SYN")
  /\ Update(seg, [Block(seg) EXCEPT !.state = "TCP_ESTABLISHED", !.send.unac = seg.ack])
  /\ Silent /\ UNCHANGED size

FinalAck(seg) ==
  /\ In(seg, "TCP_SYN_RECEIVED") /\ Has(seg, "ACK") /\ ~Has(seg, "SYN")
  /\ IF seg.ack = Block(seg).send.next
     THEN Update(seg, [Block(seg) EXCEPT !.state = "TCP_ESTABLISHED", !.send.unac = seg.ack])
     ELSE UNCHANGED states
  /\ Silent /\ UNCHANGED size

Unexpected(seg) ==
  /\ In(seg, "TCP_SYN_RECEIVED") /\ (Has(seg, "ACK") <=> Has(seg, "SYN"))
  /\ Silent /\ UNCHANGED <<states, size>>

Fin(seg) ==
  /\ In(seg, "TCP_ESTABLISHED") /\ Has(seg, "FIN")
  /\ LET tcb == [Block(seg) EXCEPT !.recv.next = Add32(seg.seq, 1)]
     IN  Update(seg, [tcb EXCEPT !.state = "TCP_CLOSE_WAIT"]) /\ Send(AckReply(tcb, 0))
  /\ UNCHANGED size

tcp_handle_data(seg) ==
  /\ In(seg, "TCP_ESTABLISHED") /\ ~Has(seg, "FIN") /\ seg.len > 0
  /\ \E body \in http_handle_request(seg) :
       LET tcb == [Block(seg) EXCEPT !.recv.next = Add32(@, seg.len)]
       IN  Update(seg, AfterAck(tcb, BodyLen[body])) /\ Send(AckReply(tcb, BodyLen[body]))
  /\ UNCHANGED size

(* http_handle_request uses what strdup and malloc return unchecked.       *)
DataNoMemory(seg) ==
  /\ In(seg, "TCP_ESTABLISHED") /\ ~Has(seg, "FIN") /\ seg.len > 0
  /\ alive' = FALSE /\ out' = None
  /\ UNCHANGED <<states, size>>

NoData(seg) ==
  /\ In(seg, "TCP_ESTABLISHED") /\ ~Has(seg, "FIN") /\ seg.len = 0
  /\ Silent /\ UNCHANGED <<states, size>>

CloseWait(seg) ==
  /\ In(seg, "TCP_CLOSE_WAIT")
  /\ Silent /\ UNCHANGED <<states, size>>

tcp_dispatch(seg) ==
  /\ alive
  /\ \/ UnknownReset(seg) \/ UnknownSyn(seg) \/ UnknownSynNoMemory(seg)
     \/ UnknownOther(seg) \/ Reset(seg) \/ RepeatedSyn(seg) \/ FinalAck(seg)
     \/ Unexpected(seg) \/ Fin(seg) \/ tcp_handle_data(seg)
     \/ DataNoMemory(seg) \/ NoData(seg) \/ CloseWait(seg)

Init == /\ states = <<>> /\ size = 0 /\ alive = TRUE /\ out = None
Next == \E seg \in Segments : tcp_dispatch(seg)
Spec == Init /\ [][Next]_vars

-----------------------------------------------------------------------------
(* Type invariant: well-typed blocks and replies.                          *)
TypeOK ==
  /\ states \in Seq(TCB) /\ size \in Int /\ alive \in BOOLEAN
  /\ out \in Reply \cup {None}

(* The list keeps one block per four-tuple and states->size counts them,   *)
(* through any interleaving of connects and resets: no removal loses the   *)
(* blocks behind it and no insert the ones in front.                       *)
ListSound ==
  /\ size = Len(states)
  /\ \A i, j \in 1 .. Len(states) : states[i].id = states[j].id => i = j

(* No step of any peer touches another peer's block, removes more than one *)
(* connection, or renumbers one that is established: only its own reset    *)
(* takes it away, and a repeated SYN, an old acknowledgement or a FIN      *)
(* leave its initial numbers alone.                                        *)
BlockOf(id) == IF Positions(id) = {} THEN None ELSE states[tcp_get_state(id)]
Isolation ==
  [][\A id \in ID :
       LET old == BlockOf(id)
       IN  old # None =>
             \/ BlockOf(id)' = old
             \/ BlockOf(id)' = None /\ \A j \in ID \ {id} : BlockOf(j)' = BlockOf(j)
             \/ /\ BlockOf(id)' # None
                /\ old.state # "TCP_SYN_RECEIVED" =>
                     /\ BlockOf(id)'.send.iss = old.send.iss
                     /\ BlockOf(id)'.recv.irs = old.recv.irs
                     /\ BlockOf(id)'.state # "TCP_SYN_RECEIVED"
                /\ \A j \in ID \ {id} : BlockOf(j)' = BlockOf(j)]_vars

=============================================================================
