----------------------------- MODULE TcpServer -----------------------------
(***************************************************************************)
(* tcp_dispatch of the refactored stack: the handler that server_run calls *)
(* through net_demux for every TCP packet read from the TUN device.  The   *)
(* server is single-threaded, so one received segment is one step: look up *)
(* or create the block, classify the segment, update the block, build the  *)
(* reply in place.  rcvd is the segment that was read, out the reply that  *)
(* server_run then writes, None when tcp_dispatch returns 0.               *)
(***************************************************************************)
EXTENDS ConnTable

CONSTANTS
  Segments,    \* the segments that may be read from the device
  IssValues,   \* the values tcp_gen_iss may return
  None         \* nothing to write

ASSUME InputAssumption == /\ Segments \subseteq Segment
                          /\ IssValues \subseteq SeqNum
                          /\ None \notin Reply

VARIABLES rcvd, out

vars == <<store, rcvd, out>>

SetBlock(s, p, tcb) == [s EXCEPT !.heap[p] = tcb]

-----------------------------------------------------------------------------
(***************************************************************************)
(* The part of tcp_dispatch after tcp_parse_edge found or made block p in  *)
(* store s: tcb_state_update and the reply, one disjunct per edge.         *)
(***************************************************************************)
OnSyn(s, p, seg) ==
  /\ parse_edge(seg, s.heap[p].state) = "EVT_SYN"
  /\ \E iss \in IssValues :
       LET tcb == update_syn(s.heap[p], seg, iss)
       IN  store' = SetBlock(s, p, tcb) /\ out' = tcp_syn_ack(tcb, seg)

OnAck(s, p, seg) ==
  /\ parse_edge(seg, s.heap[p].state) = "EVT_ACK"
  /\ store' = IF AckAccepted(s.heap[p], seg)
              THEN SetBlock(s, p, update_ack(s.heap[p], seg)) ELSE s
  /\ out' = None

OnRst(s, p, seg) ==
  /\ parse_edge(seg, s.heap[p].state) = "EVT_RST"
  /\ store' = IF RstAccepted(s.heap[p], seg) THEN hash_delete(s, p) ELSE s
  /\ out' = None

SendsRstKeepsBlock(s, p, seg) ==        \* mutant: tcp_rst forgets hash_delete
  /\ parse_edge(seg, s.heap[p].state) = "EVT_SEND_RST"
  /\ store' = s
  /\ out' \in tcp_rst(seg)

OnSendRst(s, p, seg) ==
  /\ parse_edge(seg, s.heap[p].state) = "EVT_SEND_RST"
  /\ store' = hash_delete(s, p)
  /\ out' \in tcp_rst(seg)

OnOther(s, p, seg) ==
  /\ parse_edge(seg, s.heap[p].state) \in {"EVT_DATA", "EVT_DROP"}
  /\ store' = s
  /\ out' = None

Handle(s, p, seg) == \/ OnSyn(s, p, seg) \/ OnAck(s, p, seg) \/ OnRst(s, p, seg)
                     \/ OnSendRst(s, p, seg) \/ OnOther(s, p, seg)

-----------------------------------------------------------------------------
(* The three ways through the lookup in tcp_parse_edge.                    *)
Known(seg) ==
  /\ hash_find(store, seg.id) # NULL
  /\ Handle(store, hash_find(store, seg.id), seg)

New(seg) ==
  /\ hash_find(store, seg.id) = NULL
  /\ \E p \in Ptr \ Live(store) : Handle(hash_insert(store, p, seg.id), p, seg)

NoMemory(seg) ==
  /\ hash_find(store, seg.id) = NULL
  /\ store' \in InsertFailures(store)
  /\ out' = None

tcp_dispatch(seg) ==
  /\ rcvd' = seg
  /\ \/ ~seg.sound /\ out' = None /\ UNCHANGED store
     \/ seg.sound /\ (Known(seg) \/ New(seg) \/ NoMemory(seg))

Init == store = EmptyStore /\ rcvd = None /\ out = None
Next == \E seg \in Segments : tcp_dispatch(seg)
Spec == Init /\ [][Next]_vars

-----------------------------------------------------------------------------
(* Type invariant of the server: a well-typed table, the segment read last *)
(* and a well-formed reply or none.                                        *)
TypeOK == StoreType(store) /\ rcvd \in Segments \cup {None} /\ out \in Reply \cup {None}

(* The table stays sound under every segment tcp_dispatch handles: no      *)
(* dangling or doubly filed slot, no leaked block, one block per           *)
(* four-tuple, vectors inside their arrays and an exact size counter,      *)
(* also when a block is created and deleted for one segment or an          *)
(* allocation fails.                                                       *)
TableSound == StoreOK(store)

(* The numbers of a block agree with its handshake: nothing is             *)
(* acknowledged while half open, exactly our SYN once established, and the *)
(* next byte expected is the one after the peer's SYN.                     *)
NumbersAgree(tcb) ==
  /\ tcb.state = "CON_CLOSED" => tcb = tcb_init(tcb.id)
  /\ tcb.state # "CON_CLOSED" =>
       /\ tcb.send.next = Add32(tcb.send.iss, 1)
       /\ tcb.recv.next = Add32(tcb.recv.irs, 1)
       /\ tcb.send.unac = IF tcb.state = "CON_ESTABLISHED"
                          THEN tcb.send.next ELSE tcb.send.iss
HandshakeNumbers == \A p \in Live(store) : NumbersAgree(store.heap[p])

(* A segment to a port nobody listens on leaves no block behind: the block *)
(* tcp_parse_edge makes for it is gone when tcp_dispatch returns.          *)
OnlyListeningBlocks == \A p \in Live(store) : store.heap[p].id \in Listening

(***************************************************************************)
(* The server implements the listener: a block that is not CON_CLOSED is a *)
(* session, whichever bucket and address hold it.                          *)
(***************************************************************************)
SessionOf(tcb) ==
  CASE tcb.state = "CON_CLOSED"       -> [state |-> "absent", iss |-> 0, irs |-> 0]
    [] tcb.state = "CON_SYN_RECEIVED" -> [state |-> "half", iss |-> tcb.send.iss, irs |-> tcb.recv.irs]
    [] tcb.state = "CON_ESTABLISHED"  -> [state |-> "open", iss |-> tcb.send.iss, irs |-> tcb.recv.irs]

sessionBar ==
  [id \in ID |->
     IF \E p \in Live(store) : store.heap[p].id = id
     THEN SessionOf(store.heap[CHOOSE p \in Live(store) : store.heap[p].id = id])
     ELSE [state |-> "absent", iss |-> 0, irs |-> 0]]

Listener == INSTANCE TcpListener WITH session <- sessionBar

(* Every step of the server is the listener's step for the same segment:   *)
(* only a pure SYN opens a session, only the acknowledgement of the number *)
(* sent confirms it, only a reset inside the window or a refusal ends it.  *)
ImplementsListener == Listener!Spec

-----------------------------------------------------------------------------
(* What segment.h says of tcp_rst, "Transmit a RST in response to an       *)
(* invalid segment": the reply it builds is a RST.                         *)
ResetIsReset == (out # None /\ out.by = "tcp_rst") => "RST" \in out.flags
=============================================================================
