---------------------------- MODULE ScapyClient ----------------------------
(***************************************************************************)
(* The scapy client TCPClient, of packet_cooking/client.py and, with other *)
(* ports, of refactor/tests/catch.py, and the network between it and a     *)
(* server.  A method sends one segment and waits in sr1 for the answer or  *)
(* its timeout; the user picks methods from the menu in any order, and a   *)
(* new process starts from the same port and the same sequence number.     *)
(*                                                                         *)
(* The network loses, delays, repeats and reorders segments: what was sent *)
(* once may arrive any number of times, or never.  When it is calm every   *)
(* segment arrives exactly once and sr1 gives up only when no answer is on *)
(* its way.  The client's kernel, which knows nothing of the connection,   *)
(* may answer a SYN-ACK with a reset unless a filter keeps it quiet, as it *)
(* does when the network is calm.                                          *)
(***************************************************************************)
EXTENDS SeqSpace

CONSTANTS
  FirstSeq,        \* my_seq of a fresh client
  Requests,        \* lengths of the requests the user types
  MaxCalls         \* bound: methods and processes the user starts

ASSUME ClientAssumption == FirstSeq \in SeqNum /\ Requests \subseteq 0 .. SeqMod - 3

VARIABLES
  client,      \* waits: menu, or the method waiting in sr1; my_seq, their_seq, state
  toServer,    \* segments on their way to the server
  toClient,    \* segments on their way to the client
  heard,       \* the initial numbers of the SYN-ACKs the client accepted
  calls,       \* methods and processes started
  calm         \* the network is reliable

clientVars == <<client, toServer, toClient, heard, calls, calm>>

Fresh == [waits |-> "menu", my_seq |-> FirstSeq, their_seq |-> 0,
          state |-> "CLOSED", len |-> 0, last |-> "none"]

Wire(flags, seq, ack, len) == [flags |-> flags, seq |-> seq, ack |-> ack, len |-> len]

(* What is left to arrive of S once m has.                                 *)
Received(S, m) == IF calm THEN S \ {m} ELSE S
Drained == toServer = {} /\ toClient = {}

-----------------------------------------------------------------------------
(* A method up to its call of sr1.                                         *)
Call(method, seg) ==
  /\ client.waits = "menu" /\ calls < MaxCalls
  /\ calls' = calls + 1
  /\ client' = [client EXCEPT !.waits = method, !.len = seg.len]
  /\ toServer' = toServer \cup {seg}
  /\ UNCHANGED <<toClient, heard, calm>>

Handshake == Call("handshake", Wire({"SYN"}, client.my_seq, 0, 0))

SendData == /\ client.state = "ESTABLISHED"
            /\ \E n \in Requests :
                 Call("send_data", Wire({"PSH", "ACK"}, client.my_seq, client.their_seq, n))

Close == /\ client.state = "ESTABLISHED"
         /\ Call("close", Wire({"FIN", "ACK"}, client.my_seq, client.their_seq, 0))

(* The method returns False.  last remembers how the latest handshake over *)
(* a calm network ended: linked, failed, or stuck when the one before had  *)
(* failed as well.                                                         *)
GivesUp ==
  LET failure == IF client.last = "linked" \/ client.last = "none" THEN "failed" ELSE "stuck"
  IN  [client EXCEPT !.waits = "menu",
         !.last = IF calm /\ client.waits = "handshake" THEN failure ELSE @]

(* sr1 gives up: the method changes nothing else.                          *)
Timeout ==
  /\ client.waits # "menu" /\ (calm => Drained)
  /\ client' = GivesUp
  /\ UNCHANGED <<toServer, toClient, heard, calls, calm>>

(* The process ends and the user starts it again.                          *)
Restart ==
  /\ ~calm /\ calls < MaxCalls
  /\ calls' = calls + 1
  /\ client' = Fresh
  /\ UNCHANGED <<toServer, toClient, heard, calm>>

-----------------------------------------------------------------------------
(* sr1 takes a segment for the answer: any segment of the server that      *)
(* reaches the client's port, however late, but a SYN-ACK only for a SYN.  *)
Answers(r, method) ==
  client.waits = method /\ ("SYN" \in r.flags => method = "handshake")

GotSynAck(r) ==
  /\ Answers(r, "handshake") /\ r.flags = {"SYN", "ACK"}
  /\ client' = [client EXCEPT !.waits = "menu", !.state = "ESTABLISHED",
                              !.last = IF calm THEN "linked" ELSE @,
                              !.my_seq = r.ack, !.their_seq = Add32(r.seq, 1)]
  /\ toServer' = toServer \cup {Wire({"ACK"}, r.ack, Add32(r.seq, 1), 0)}
  /\ heard' = heard \cup {[iss |-> r.seq, irs |-> Sub32(r.ack, 1)]}
  /\ toClient' = Received(toClient, r)
  /\ UNCHANGED <<calls, calm>>

GotNoSynAck(r) ==
  /\ Answers(r, "handshake") /\ r.flags # {"SYN", "ACK"}
  /\ client' = GivesUp
  /\ toClient' = Received(toClient, r)
  /\ UNCHANGED <<toServer, heard, calls, calm>>

GotResponse(r) ==
  /\ Answers(r, "send_data")
  /\ client' = [client EXCEPT !.waits = "menu", !.my_seq = Add32(@, client.len),
                              !.their_seq = Add32(@, r.len)]
  /\ toClient' = Received(toClient, r)
  /\ UNCHANGED <<toServer, heard, calls, calm>>

GotFinAck(r) ==
  /\ Answers(r, "close")
  /\ client' = [client EXCEPT !.waits = "menu", !.state = "CLOSED",
                              !.their_seq = Add32(r.seq, 1)]
  /\ toServer' = toServer \cup
       {Wire({"ACK"}, Add32(client.my_seq, 1), Add32(r.seq, 1), 0)}
  /\ toClient' = Received(toClient, r)
  /\ UNCHANGED <<heard, calls, calm>>

(* No method is waiting for it.                                            *)
Unheard(r) ==
  /\ calm /\ \A method \in {"handshake", "send_data", "close"} : ~Answers(r, method)
  /\ toClient' = toClient \ {r}
  /\ UNCHANGED <<client, toServer, heard, calls, calm>>

KernelReset(r) ==
  /\ ~calm /\ r.flags = {"SYN", "ACK"}
  /\ toServer' = toServer \cup {Wire({"RST"}, r.ack, 0, 0)}
  /\ UNCHANGED <<client, toClient, heard, calls, calm>>

ClientInit == /\ client = Fresh /\ toServer = {} /\ toClient = {}
              /\ heard = {} /\ calls = 0

ClientHears == \E r \in toClient : \/ GotSynAck(r) \/ GotNoSynAck(r) \/ GotResponse(r)
                                   \/ GotFinAck(r) \/ Unheard(r) \/ KernelReset(r)
=============================================================================
