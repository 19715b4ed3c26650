----------------------------- MODULE TcpSession -----------------------------
(***************************************************************************)
(* The refactored server and the scapy client of tests/catch.py.  The      *)
(* network is unreliable at first; at some point it may become calm, with  *)
(* client and server in whatever state the confusion left them.            *)
(***************************************************************************)
EXTENDS TcpServer, ScapyClient

CONSTANT MaxDeliveries   \* bound: segments the server reads from an unreliable network

(***************************************************************************)
(* tcp_rst sends half of a number, or whatever its variables hold, as its  *)
(* sequence number; the initial numbers drawn are others.  Were one equal, *)
(* the client could acknowledge it without having heard it.                *)
(***************************************************************************)
ResetNums == (0 .. W16 - 1) \cup Garbage
ASSUME IssAssumption == IssValues \cap ResetNums = {}
ASSUME ListeningAssumption == Listening # {}

VARIABLES
  drawn,       \* the values tcp_gen_iss has returned
  deliveries   \* segments read from an unreliable network

serverVars  == <<vars, drawn, deliveries>>
sessionVars == <<clientVars, serverVars>>

c == CHOOSE id \in Listening : TRUE     \* catch.py: client_port.txt to host_port.txt

(* A segment of the client as the server reads it, and a reply as the      *)
(* client does: no reply of this server carries data.                      *)
Read(m) == [id |-> c, flags |-> m.flags, seq |-> m.seq, ack |-> m.ack,
            len |-> m.len, window |-> 1, sound |-> TRUE]
Written(r) == Wire(r.flags, r.seq, r.ack, 0)

Blocks == {store.heap[p] : p \in Live(store)}

-----------------------------------------------------------------------------
(* The server reads a segment.  tcp_gen_iss, the clock in microseconds     *)
(* plus a random number, does not return a value twice.  Over a calm       *)
(* network memory does not run out either.                                 *)
Draws(r) == r # None /\ r.by = "tcp_syn_ack"

Deliver(m) ==
  /\ calm \/ deliveries < MaxDeliveries
  /\ deliveries' = IF calm THEN deliveries ELSE deliveries + 1
  /\ tcp_dispatch(Read(m))
  /\ calm => ~NoMemory(Read(m))
  /\ IF Draws(out') THEN out'.seq \notin drawn /\ drawn' = drawn \cup {out'.seq}
     ELSE UNCHANGED drawn
  /\ toServer' = Received(toServer, m)
  /\ toClient' = IF out' = None THEN toClient ELSE toClient \cup {Written(out')}
  /\ UNCHANGED <<client, heard, calls, calm>>

(* What was in flight is lost, and from now on nothing is.                 *)
Calms ==
  /\ ~calm /\ client.waits = "menu"
  /\ calm' = TRUE /\ toServer' = {} /\ toClient' = {}
  /\ UNCHANGED <<client, heard, calls, serverVars>>

(* Over a calm network the user is slower than the segments.               *)
ClientStep == \/ (calm => Drained) /\ (Handshake \/ SendData \/ Close)
              \/ Timeout \/ Restart \/ ClientHears

SessionInit == /\ Init /\ ClientInit /\ calm = FALSE
               /\ drawn = {} /\ deliveries = 0

SessionNext == \/ ClientStep /\ UNCHANGED serverVars
               \/ \E m \in toServer : Deliver(m)
               \/ Calms

SessionSpec == SessionInit /\ [][SessionNext]_sessionVars

-----------------------------------------------------------------------------
(* The server establishes a connection only with the very SYN-ACK its      *)
(* client accepted: whatever repeated, late or refused SYN, ACK or reset   *)
(* of this or an earlier process comes in between, both initial numbers of *)
(* an established block are ones the client heard together.                *)
EstablishedWasHeard ==
  \A tcb \in Blocks :
    tcb.state = "CON_ESTABLISHED" =>
      [iss |-> tcb.send.iss, irs |-> tcb.recv.irs] \in heard

(* A refused SYN heals: tcp_rst deletes the block, so whatever the network *)
(* left behind, half-open, established with an earlier process or a        *)
(* CON_CLOSED block of a refused reset, of two handshakes in a row over a  *)
(* calm network at least one succeeds.                                     *)
RetrySucceeds == client.last # "stuck"

(* A handshake that succeeds over a calm network links the two ends: once  *)
(* its ACK has arrived, and until a later handshake is refused, the server *)
(* holds an established block, and each end expects the number the other   *)
(* sends next, whatever the client sent or closed in between.  (A refusal  *)
(* whose uninitialised flags happen to read SYN and ACK carries a number   *)
(* that was never drawn.)                                                  *)
LinkAgrees ==
  (client.last = "linked" /\ Drained /\ Sub32(client.their_seq, 1) \in drawn) =>
    \E tcb \in Blocks : /\ tcb.state = "CON_ESTABLISHED"
                        /\ tcb.send.next = client.their_seq
                        /\ tcb.recv.next = client.my_seq
=============================================================================
