---------------------------- MODULE LegacySession ----------------------------
(***************************************************************************)
(* The legacy server and its scapy client over a network that is either    *)
(* unreliable or, from the start, calm.                                    *)
(***************************************************************************)
EXTENDS LegacyServer, ScapyClient

CONSTANT MaxDeliveries   \* bound: segments the server reads from an unreliable network

(***************************************************************************)
(* No conversation counts further than Reach from its initial number: a    *)
(* response is at most MaxBody bytes, and of those the server sends one    *)
(* per segment it reads and the client counts one per method.  The numbers *)
(* of one run, and 0, from which resets count, are further apart than      *)
(* that.  tcp_get_ticks, a clock plus rand(), makes this likely and does   *)
(* not check it; where it fails, the acknowledgement of a response can be  *)
(* taken for that of a SYN-ACK nobody heard.                               *)
(***************************************************************************)
MaxBody == CHOOSE n \in {BodyLen[b] : b \in Body} : \A b \in Body : BodyLen[b] <= n
MaxReads == IF MaxDeliveries > 2 * MaxCalls THEN MaxDeliveries ELSE 2 * MaxCalls
Reach == 1 + MaxBody * (MaxCalls + MaxReads)

ASSUME BoundAssumption == {MaxCalls, MaxDeliveries} \subseteq Nat /\ Reach < SeqMod
ASSUME SpacingAssumption ==
  /\ 0 \notin IssValues
  /\ \A s \in IssValues, b \in IssValues \cup {0} : b = s \/ Sub32(s, b) > Reach
ASSUME PeerAssumption == ID # {}

VARIABLES
  drawn,       \* the values tcp_get_ticks has returned
  deliveries   \* segments read from an unreliable network

serverVars  == <<vars, drawn, deliveries>>
sessionVars == <<clientVars, serverVars>>

c == CHOOSE id \in ID : TRUE            \* the client always uses the same ports

(* A segment of the client as the server reads it, and a reply as the      *)
(* client does.                                                            *)
Read(m) == [id |-> c, flags |-> m.flags, seq |-> m.seq, ack |-> m.ack,
            len |-> m.len, get |-> m.len > 0]
Written(r) == Wire(r.flags, r.seq, r.ack, r.len)

-----------------------------------------------------------------------------
(* The server reads a segment.  tcp_get_ticks, the clock in microseconds   *)
(* plus a random number, does not return a value twice.                    *)
Draws(seg) == /\ seg.flags = {"SYN"}
              /\ Unknown(seg) \/ In(seg, "TCP_SYN_RECEIVED")

Deliver(m) ==
  /\ calm \/ deliveries < MaxDeliveries
  /\ deliveries' = IF calm THEN deliveries ELSE deliveries + 1
  /\ tcp_dispatch(Read(m))
  /\ IF Draws(Read(m)) /\ alive'
     THEN states'[1].send.iss \notin drawn /\ drawn' = drawn \cup {states'[1].send.iss}
     ELSE UNCHANGED drawn
  /\ toServer' = Received(toServer, m)
  /\ toClient' = IF out' = None THEN toClient ELSE toClient \cup {Written(out')}
  /\ UNCHANGED <<client, heard, calls, calm>>

SessionInit == /\ Init /\ ClientInit /\ calm \in BOOLEAN
               /\ drawn = {} /\ deliveries = 0

ClientStep == \/ Handshake \/ SendData \/ Close \/ Timeout \/ Restart \/ ClientHears

SessionNext == \/ ClientStep /\ UNCHANGED serverVars
               \/ \E m \in toServer : Deliver(m)

SessionSpec == SessionInit /\ [][SessionNext]_sessionVars

-----------------------------------------------------------------------------
(* Past the handshake both ends agree on both initial numbers: the server  *)
(* establishes a connection only with the very SYN-ACK its client          *)
(* accepted, whatever repeated or late SYN, SYN-ACK, ACK or request of     *)
(* this or an earlier process arrives in between.                          *)
HandshakeAgrees ==
  \A i \in 1 .. Len(states) :
    states[i].state # "TCP_SYN_RECEIVED" =>
      [iss |-> states[i].send.iss, irs |-> states[i].recv.irs] \in heard

(* No two responses share a sequence number: tcp_send_ack numbers every    *)
(* byte it sends once, also when a request is delivered again.             *)
ResponsesDisjoint ==
  \A r, s \in {m \in toClient : m.len > 0} :
    r # s => /\ Sub32(s.seq, r.seq) >= r.len
             /\ Sub32(r.seq, s.seq) >= s.len

(* Over a network that delivers every segment once, client and server are  *)
(* in step whenever the client is back in its menu: each expects the       *)
(* number the other sends next.                                            *)
InStep ==
  \A i \in 1 .. Len(states) :
    (/\ calm /\ client.waits = "menu" /\ client.state = "ESTABLISHED"
     /\ states[i].state = "TCP_ESTABLISHED")
    => /\ states[i].recv.next = client.my_seq
       /\ states[i].send.next = client.their_seq
=============================================================================
