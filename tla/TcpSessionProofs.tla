-------------------------- MODULE TcpSessionProofs --------------------------
(***************************************************************************)
(* The refactored server and its client over a network that loses,         *)
(* repeats, delays and reorders: a connection is only ever established     *)
(* with a SYN-ACK the client accepted.  Once the network is calm one of    *)
(* two handshakes succeeds, and a successful one links the two ends.  All  *)
(* for every number of segments, every window, table and sequence number.  *)
(***************************************************************************)
EXTENDS TcpSession, TcpServerProofs

(* What it means for an acknowledgement to be an answer when the client    *)
(* has heard H: the initial number before it, if the server drew it, is    *)
(* one of H.                                                               *)
ToldBy(H, a) == \A s \in IssValues : a = Add32(s, 1) => \E h \in H : h.iss = s

(* The initial numbers that go together, as the server's sessions, the     *)
(* replies on their way and the client know them.                          *)
Pair == [iss : SeqNum, irs : SeqNum]

Sessions  == {sessionBar[id] : id \in {j \in ID : sessionBar[j].state # "absent"}}
PairOf(s) == [iss |-> s.iss, irs |-> s.irs]
PairIn(r) == [iss |-> r.seq, irs |-> Sub32(r.ack, 1)]
PairsHeld == {PairOf(s) : s \in Sessions}
PairsSent == {PairIn(r) : r \in toClient}
Pairs     == PairsHeld \cup PairsSent \cup heard

-----------------------------------------------------------------------------
(***************************************************************************)
(* The inductive invariant.                                                *)
(***************************************************************************)
Client == [waits : {"menu", "handshake", "send_data", "close"}, my_seq : SeqNum, their_seq : SeqNum,
           state : {"CLOSED", "ESTABLISHED"}, len : 0 .. SeqMod - 3,
           last : {"none", "linked", "failed", "stuck"}]

WireType == [flags : SUBSET Flag, seq : SeqNum, ack : SeqNum, len : 0 .. SeqMod - 3]

(* What the client sends acknowledges only what it was told.               *)
FromClient(m, H) == m \in WireType /\ ("ACK" \in m.flags => ToldBy(H, m.ack))

(* What the server sends is a SYN-ACK with a number it drew, or a reset    *)
(* with a number it does not draw.                                         *)
FromServer(r) == /\ r \in WireType /\ r.len = 0
                 /\ \/ r.seq \in ResetNums
                    \/ r.seq \in IssValues /\ r.flags = {"SYN", "ACK"}

ClientTyped == client \in Client /\ heard \subseteq Pair
Sent        == \A m \in toServer : FromClient(m, heard)
Replied     == \A r \in toClient : FromServer(r)
Expects     == client.state = "ESTABLISHED" => ToldBy(heard, client.their_seq)

(* A number is drawn once, so it stands for one pair.                      *)
DrawnOnce == \A x, y \in Pairs :
               x.iss \in IssValues => x.iss \in drawn /\ (x.iss = y.iss => x.irs = y.irs)

OpenWasHeard == \A s \in Sessions :
                  s.iss \in IssValues /\ (s.state = "open" => PairOf(s) \in heard)

Ends == ClientTyped /\ Sent /\ Replied /\ Expects

SessionInv == ServerInv /\ Ends /\ DrawnOnce /\ OpenWasHeard

-----------------------------------------------------------------------------
LEMMA SeqFacts ==
  /\ SeqMod \in Nat /\ SeqMod >= 4 /\ 0 \in SeqNum /\ W16 \in Nat /\ W16 >= 2 /\ 0 \in 0 .. SeqMod - 3
  /\ ResetNums \subseteq SeqNum /\ IssValues \subseteq SeqNum
<1>1. W16 \in Nat /\ W16 >= 2 /\ SeqMod \in Nat /\ SeqMod >= 4 /\ 0 \in SeqNum
  BY W16Assumption, OneInRange, Constant
<1>2. W16 <= W16 * W16
  BY <1>1
<1>3. \A i \in 0 .. W16 - 1 : i \in 0 .. SeqMod - 1
  BY <1>1, <1>2 DEF SeqMod
<1>4. ResetNums \subseteq SeqNum
  BY <1>3, GarbageAssumption DEF ResetNums, SeqNum
<1> QED BY <1>1, <1>4, InputAssumption

LEMMA AddSub ==
  ASSUME NEW a \in SeqNum
  PROVE  Sub32(Add32(a, 1), 1) = a /\ Sub32(a, 1) \in SeqNum /\ Add32(a, 0) = a
  BY SeqFacts DEF Add32, Sub32, SeqNum

LEMMA AddOneInjective ==
  ASSUME NEW a \in SeqNum, NEW b \in SeqNum, Add32(a, 1) = Add32(b, 1)
  PROVE  a = b
  BY SeqFacts DEF Add32, SeqNum

LEMMA PeerListens == c \in Listening /\ c \in ID
  BY ListeningAssumption, IDAssumption DEF c

LEMMA AddLength ==
  ASSUME NEW a \in SeqNum, NEW n \in 0 .. SeqMod - 3
  PROVE  Add32(a, n) \in SeqNum
<1>1. n \in 0 .. SeqMod - 1
  BY SeqFacts
<1> QED BY <1>1, AddInRange

(* Acknowledging a heard number, or one that is not drawn.                 *)
LEMMA HeardTold ==
  ASSUME NEW H, NEW h \in H, h.iss \in SeqNum
  PROVE  ToldBy(H, Add32(h.iss, 1))
<1> SUFFICES ASSUME NEW s \in IssValues, Add32(h.iss, 1) = Add32(s, 1) PROVE \E x \in H : x.iss = s
  BY DEF ToldBy
<1>1. h.iss = s
  BY SeqFacts, AddOneInjective
<1> QED BY <1>1

LEMMA ResetTold ==
  ASSUME NEW H, NEW n \in ResetNums
  PROVE  ToldBy(H, Add32(n, 1))
<1> SUFFICES ASSUME NEW s \in IssValues, Add32(n, 1) = Add32(s, 1) PROVE FALSE
  BY DEF ToldBy
<1>1. n = s
  BY SeqFacts, AddOneInjective
<1> QED BY <1>1, IssAssumption

LEMMA ToldMore ==
  ASSUME NEW G, NEW H, G \subseteq H, NEW a, ToldBy(G, a)
  PROVE  ToldBy(H, a)
  BY DEF ToldBy

LEMMA SentMore ==
  ASSUME Sent, NEW H, heard \subseteq H, NEW m \in toServer
  PROVE  FromClient(m, H)
  BY ToldMore DEF Sent, FromClient

-----------------------------------------------------------------------------
(***************************************************************************)
(* Steps of the client leave the server alone.                             *)
(***************************************************************************)
LEMMA ServerUntouched ==
  ASSUME UNCHANGED vars
  PROVE  sessionBar' = sessionBar /\ (ServerInv => ServerInv')
<1>1. store' = store /\ out' = out
  BY DEF vars
<1> QED BY <1>1, SessionsNow, SessionsNext DEF ServerInv, SoundBlocks, OnlyListeningBlocks

LEMMA ClientFrame ==
  ASSUME SessionInv, UNCHANGED vars, drawn' = drawn, Ends',
         heard \subseteq heard', heard' \subseteq heard \cup PairsSent, toClient' \subseteq toClient
  PROVE  SessionInv'
<1>1. sessionBar' = sessionBar /\ ServerInv'
  BY ServerUntouched DEF SessionInv
<1>2. Sessions' = Sessions
  BY <1>1 DEF Sessions
<1>3. Pairs' \subseteq Pairs
  <2>1. PairsHeld' = PairsHeld
    BY <1>2 DEF PairsHeld
  <2>2. PairsSent' \subseteq PairsSent
    BY DEF PairsSent
  <2> QED BY <2>1, <2>2 DEF Pairs
<1>4. DrawnOnce'
  BY <1>3 DEF SessionInv, DrawnOnce
<1>5. OpenWasHeard'
  BY <1>2 DEF SessionInv, OpenWasHeard
<1> QED BY <1>1, <1>4, <1>5 DEF SessionInv

LEMMA FrameStep ==
  ASSUME SessionInv, UNCHANGED <<client, toServer, heard, calls, calm>>, UNCHANGED serverVars,
         toClient' \subseteq toClient
  PROVE  SessionInv'
<1>1. Ends'
  BY DEF SessionInv, Ends, ClientTyped, Sent, Replied, Expects
<1> QED BY <1>1, ClientFrame DEF serverVars

(* A method sends a segment.                                               *)
LEMMA CallStep ==
  ASSUME SessionInv, UNCHANGED serverVars, NEW w \in {"handshake", "send_data", "close"},
         NEW g, FromClient(g, heard), Call(w, g)
  PROVE  SessionInv'
<1>1. /\ client' = [client EXCEPT !.waits = w, !.len = g.len] /\ toServer' = toServer \cup {g}
      /\ toClient' = toClient /\ heard' = heard
  BY DEF Call
<1>2. client \in Client /\ g.len \in 0 .. SeqMod - 3
  BY DEF SessionInv, Ends, ClientTyped, FromClient, WireType
<1>3. client' \in Client /\ client'.state = client.state /\ client'.their_seq = client.their_seq
  BY <1>1, <1>2 DEF Client
<1>4. Ends'
  BY <1>1, <1>3 DEF SessionInv, Ends, ClientTyped, Sent, Replied, Expects
<1> QED BY <1>1, <1>4, ClientFrame DEF serverVars

LEMMA ClientFields ==
  ASSUME SessionInv
  PROVE  /\ client \in Client /\ client.my_seq \in SeqNum /\ client.their_seq \in SeqNum
         /\ client.len \in 0 .. SeqMod - 3 /\ client.last \in {"none", "linked", "failed", "stuck"}
         /\ client.state = "ESTABLISHED" => ToldBy(heard, client.their_seq)
  BY DEF SessionInv, Ends, ClientTyped, Client, Expects

LEMMA Calls ==
  ASSUME SessionInv, UNCHANGED serverVars, Handshake \/ SendData \/ Close
  PROVE  SessionInv'
<1>0. 0 \in 0 .. SeqMod - 3 /\ 0 \in SeqNum
  BY SeqFacts
<1>1. CASE Handshake
  <2> DEFINE g == Wire({"SYN"}, client.my_seq, 0, 0)
  <2>1. FromClient(g, heard)
    BY <1>0, ClientFields DEF FromClient, WireType, Wire, Flag
  <2>2. Call("handshake", g)
    BY <1>1 DEF Handshake
  <2> HIDE DEF g
  <2> QED BY <2>1, <2>2, CallStep
<1>2. CASE SendData
  <2>1. PICK n \in Requests : Call("send_data", Wire({"PSH", "ACK"}, client.my_seq, client.their_seq, n))
    BY <1>2 DEF SendData
  <2> DEFINE g == Wire({"PSH", "ACK"}, client.my_seq, client.their_seq, n)
  <2>2. client.state = "ESTABLISHED" /\ n \in 0 .. SeqMod - 3
    BY <1>2, ClientAssumption DEF SendData
  <2>3. FromClient(g, heard)
    BY <2>2, ClientFields DEF FromClient, WireType, Wire, Flag
  <2>4. Call("send_data", g)
    BY <2>1
  <2> HIDE DEF g
  <2> QED BY <2>3, <2>4, CallStep
<1>3. CASE Close
  <2> DEFINE g == Wire({"FIN", "ACK"}, client.my_seq, client.their_seq, 0)
  <2>1. FromClient(g, heard)
    BY <1>0, <1>3, ClientFields DEF FromClient, WireType, Wire, Flag, Close
  <2>2. Call("close", g)
    BY <1>3 DEF Close
  <2> HIDE DEF g
  <2> QED BY <2>1, <2>2, CallStep
<1> QED BY <1>1, <1>2, <1>3

(* A method returns without having learnt anything, or a new process.      *)
LEMMA QuietStep ==
  ASSUME SessionInv, UNCHANGED serverVars, UNCHANGED <<toServer, heard>>, toClient' \subseteq toClient,
         client' = GivesUp \/ client' = Fresh
  PROVE  SessionInv'
<1>1. GivesUp \in Client /\ GivesUp.state = client.state /\ GivesUp.their_seq = client.their_seq
  BY ClientFields DEF GivesUp, Client
<1>2. Fresh \in Client /\ Fresh.state = "CLOSED"
  BY SeqFacts, ClientAssumption DEF Fresh, Client
<1>3. client' \in Client /\ (client'.state = "ESTABLISHED" => ToldBy(heard, client'.their_seq))
  <2>1. CASE client' = GivesUp
    BY <1>1, <2>1, ClientFields
  <2>2. CASE client' = Fresh
    BY <1>2, <2>2
  <2> QED BY <2>1, <2>2
<1>4. Ends'
  BY <1>3 DEF SessionInv, Ends, ClientTyped, Sent, Replied, Expects
<1> QED BY <1>4, ClientFrame DEF serverVars

LEMMA ReplyFields ==
  ASSUME SessionInv, NEW r \in toClient
  PROVE  /\ r \in WireType /\ r.flags \in SUBSET Flag /\ r.seq \in SeqNum /\ r.ack \in SeqNum /\ r.len = 0
         /\ PairIn(r) \in Pair /\ PairIn(r) \in PairsSent
         /\ "SYN" \notin r.flags => r.seq \in ResetNums
<1>1. FromServer(r)
  BY DEF SessionInv, Ends, Replied
<1>2. r \in WireType /\ r.flags \in SUBSET Flag /\ r.seq \in SeqNum /\ r.ack \in SeqNum /\ r.len = 0
  BY <1>1 DEF FromServer, WireType
<1>3. PairIn(r) \in Pair
  BY <1>2, AddSub DEF PairIn, Pair
<1> QED BY <1>1, <1>2, <1>3 DEF FromServer, PairsSent

LEMMA Fewer == ASSUME NEW S, NEW m PROVE Received(S, m) \subseteq S
  BY DEF Received

(* The client accepts a SYN-ACK, hears its numbers and acknowledges them.  *)
LEMMA SynAckStep ==
  ASSUME SessionInv, UNCHANGED serverVars, NEW r \in toClient, GotSynAck(r)
  PROVE  SessionInv'
<1> DEFINE a == Wire({"ACK"}, r.ack, Add32(r.seq, 1), 0)
<1>1. /\ toServer' = toServer \cup {a} /\ heard' = heard \cup {PairIn(r)}
      /\ toClient' \subseteq toClient
      /\ client' = [client EXCEPT !.waits = "menu", !.state = "ESTABLISHED",
                                  !.last = IF calm THEN "linked" ELSE @,
                                  !.my_seq = r.ack, !.their_seq = Add32(r.seq, 1)]
  BY Fewer DEF GotSynAck, PairIn
<1>2. /\ r.seq \in SeqNum /\ r.ack \in SeqNum /\ PairIn(r) \in Pair /\ PairIn(r) \in PairsSent
      /\ PairIn(r).iss = r.seq /\ Add32(r.seq, 1) \in SeqNum /\ 0 \in 0 .. SeqMod - 3
  BY ReplyFields, Next1, SeqFacts DEF PairIn
<1>3. ToldBy(heard', Add32(r.seq, 1))
  BY <1>1, <1>2, HeardTold
<1>4. FromClient(a, heard')
  BY <1>2, <1>3 DEF FromClient, WireType, Wire, Flag
<1> HIDE DEF a
<1>5. Sent'
  BY <1>1, <1>4, SentMore DEF Sent, SessionInv, Ends
<1>6. client' \in Client /\ client'.their_seq = Add32(r.seq, 1)
  BY <1>1, <1>2, ClientFields DEF Client
<1>7. ClientTyped' /\ Replied' /\ Expects'
  BY <1>1, <1>2, <1>3, <1>6 DEF SessionInv, Ends, ClientTyped, Replied, Expects
<1> QED BY <1>1, <1>2, <1>5, <1>7, ClientFrame DEF serverVars, Ends

(* The answer to data, or to a FIN: a reset, as nothing else answers them. *)
LEMMA ResponseStep ==
  ASSUME SessionInv, UNCHANGED serverVars, NEW r \in toClient, GotResponse(r)
  PROVE  SessionInv'
<1>1. /\ toServer' = toServer /\ heard' = heard /\ toClient' \subseteq toClient
      /\ client' = [client EXCEPT !.waits = "menu", !.my_seq = Add32(@, client.len),
                                  !.their_seq = Add32(@, r.len)]
  BY Fewer DEF GotResponse
<1>2. Add32(client.my_seq, client.len) \in SeqNum /\ Add32(client.their_seq, r.len) = client.their_seq
  BY ClientFields, ReplyFields, AddLength, AddSub
<1>3. client' = [client EXCEPT !.waits = "menu", !.my_seq = Add32(client.my_seq, client.len),
                               !.their_seq = client.their_seq]
  BY <1>1, <1>2, ClientFields DEF Client
<1>4. client' \in Client /\ client'.state = client.state /\ client'.their_seq = client.their_seq
  BY <1>2, <1>3, ClientFields DEF Client
<1>5. Ends'
  BY <1>1, <1>4, ClientFields DEF SessionInv, Ends, ClientTyped, Sent, Replied, Expects
<1> QED BY <1>1, <1>5, ClientFrame DEF serverVars

LEMMA FinAckStep ==
  ASSUME SessionInv, UNCHANGED serverVars, NEW r \in toClient, GotFinAck(r)
  PROVE  SessionInv'
<1> DEFINE a == Wire({"ACK"}, Add32(client.my_seq, 1), Add32(r.seq, 1), 0)
<1>1. /\ toServer' = toServer \cup {a} /\ heard' = heard /\ toClient' \subseteq toClient
      /\ client' = [client EXCEPT !.waits = "menu", !.state = "CLOSED", !.their_seq = Add32(r.seq, 1)]
  BY Fewer DEF GotFinAck
<1>2. r.seq \in ResetNums /\ r.seq \in SeqNum
  BY ReplyFields DEF GotFinAck, Answers
<1>3. ToldBy(heard, Add32(r.seq, 1)) /\ Add32(r.seq, 1) \in SeqNum /\ Add32(client.my_seq, 1) \in SeqNum
  BY <1>2, ResetTold, Next1, ClientFields
<1>4. FromClient(a, heard)
  BY <1>3, SeqFacts DEF FromClient, WireType, Wire, Flag
<1> HIDE DEF a
<1>5. client' \in Client /\ client'.state = "CLOSED"
  BY <1>1, <1>3, ClientFields DEF Client
<1>6. Ends'
  BY <1>1, <1>4, <1>5 DEF SessionInv, Ends, ClientTyped, Sent, Replied, Expects
<1> QED BY <1>1, <1>6, ClientFrame DEF serverVars

(* The kernel's reset acknowledges nothing.                                *)
LEMMA KernelStep ==
  ASSUME SessionInv, UNCHANGED serverVars, NEW r \in toClient, KernelReset(r)
  PROVE  SessionInv'
<1> DEFINE a == Wire({"RST"}, r.ack, 0, 0)
<1>1. /\ toServer' = toServer \cup {a} /\ heard' = heard /\ toClient' = toClient /\ client' = client
  BY DEF KernelReset
<1>2. FromClient(a, heard)
  BY ReplyFields, SeqFacts DEF FromClient, WireType, Wire, Flag
<1> HIDE DEF a
<1>3. Ends'
  BY <1>1, <1>2 DEF SessionInv, Ends, ClientTyped, Sent, Replied, Expects
<1> QED BY <1>1, <1>3, ClientFrame DEF serverVars

LEMMA ClientPreserves ==
  ASSUME SessionInv, ClientStep, UNCHANGED serverVars
  PROVE  SessionInv'
<1>1. CASE Handshake \/ SendData \/ Close
  BY <1>1, Calls
<1>2. CASE Timeout
  BY <1>2, QuietStep DEF Timeout
<1>3. CASE Restart
  BY <1>3, QuietStep DEF Restart
<1>4. ASSUME NEW r \in toClient,
             \/ GotSynAck(r) \/ GotNoSynAck(r) \/ GotResponse(r)
             \/ GotFinAck(r) \/ Unheard(r) \/ KernelReset(r)
      PROVE  SessionInv'
  <2>1. CASE GotNoSynAck(r)
    <3>1. client' = GivesUp /\ UNCHANGED <<toServer, heard>> /\ toClient' \subseteq toClient
      BY <2>1, Fewer DEF GotNoSynAck
    <3> QED BY <3>1, QuietStep
  <2>2. CASE Unheard(r)
    BY <2>2, FrameStep DEF Unheard
  <2> QED BY <1>4, <2>1, <2>2, SynAckStep, ResponseStep, FinAckStep, KernelStep
<1> QED BY <1>1, <1>2, <1>3, <1>4 DEF ClientStep, ClientHears

(* The network becomes calm.                                               *)
LEMMA CalmStep == ASSUME SessionInv, Calms PROVE SessionInv'
<1>1. /\ toServer' = {} /\ toClient' = {} /\ client' = client /\ heard' = heard /\ UNCHANGED serverVars
  BY DEF Calms
<1>2. Ends'
  BY <1>1 DEF SessionInv, Ends, ClientTyped, Sent, Replied, Expects
<1> QED BY <1>1, <1>2, ClientFrame DEF serverVars

-----------------------------------------------------------------------------
(***************************************************************************)
(* The server reads a segment.                                             *)
(***************************************************************************)
AnySession == [state : {"absent", "half", "open"}, iss : SeqNum, irs : SeqNum]

LEMMA SessionTyped ==
  ASSUME StoreOK(store), NEW id \in ID
  PROVE  sessionBar[id] \in AnySession
<1>1. ASSUME NEW p \in Live(store), store.heap[p].id = id PROVE sessionBar[id] \in AnySession
  <2>1. store.heap[p] \in TCB
    BY DEF StoreOK, StoreType
  <2>2. sessionBar[id] = SessionOf(store.heap[p])
    BY <1>1, SessionAt, SessionsNow
  <2>3. SessionOf(store.heap[p]) \in AnySession
    BY <2>1, BlockFields, SeqFacts DEF SessionOf, AnySession, Con_State
  <2> QED BY <2>2, <2>3
<1>2. ASSUME \A p \in Live(store) : store.heap[p].id # id PROVE sessionBar[id] \in AnySession
  <2>1. sessionBar[id] = NoSession
    BY <1>2, SessionNone, SessionsNow
  <2> QED BY <2>1, SeqFacts DEF NoSession, AnySession
<1> QED BY <1>1, <1>2

(* One session changes.                                                    *)
LEMMA SessionsAfter ==
  ASSUME NEW id \in ID, NEW v, sessionBar' = [sessionBar EXCEPT ![id] = v]
  PROVE  Sessions' \subseteq Sessions \cup (IF v.state = "absent" THEN {} ELSE {v})
<1>1. DOMAIN sessionBar = ID
  BY SessionsNow DEF SessionsOf
<1>2. \A j \in ID : sessionBar'[j] = IF j = id THEN v ELSE sessionBar[j]
  BY <1>1
<1>3. ASSUME NEW j \in ID, sessionBar'[j].state # "absent"
      PROVE  sessionBar'[j] \in Sessions \cup (IF v.state = "absent" THEN {} ELSE {v})
  <2>1. CASE j = id
    BY <1>2, <1>3, <2>1
  <2>2. CASE j # id
    <3>1. sessionBar'[j] = sessionBar[j] /\ sessionBar[j].state # "absent"
      BY <1>2, <1>3, <2>2
    <3> QED BY <3>1, Zenon DEF Sessions
  <2> QED BY <2>1, <2>2
<1> QED BY <1>3, Zenon DEF Sessions

LEMMA ReadTyped ==
  ASSUME NEW m \in WireType
  PROVE  /\ Read(m) \in Segment /\ Read(m).id = c /\ Read(m).seq = m.seq /\ Read(m).ack = m.ack
         /\ Read(m).flags = m.flags
<1>1. 1 \in 0 .. W16 - 1 /\ c \in ID
  BY SeqFacts, PeerListens
<1> QED BY <1>1 DEF Read, WireType, Segment

(* The numbers tcp_rst sends are none that tcp_gen_iss returns.            *)
LEMMA LowerHalf == ASSUME NEW a \in SeqNum PROVE a \div W16 \in 0 .. W16 - 1
<1> DEFINE q == a \div W16
<1>1. W16 \in Nat /\ W16 > 0 /\ a \in Nat /\ a < W16 * W16
  BY SeqFacts DEF SeqNum, SeqMod
<1>2. q \in Nat /\ q * W16 <= a
  BY <1>1
<1> HIDE DEF q
<1>3. ASSUME q >= W16 PROVE FALSE
  <2>1. q * W16 >= W16 * W16
    BY <1>1, <1>2, <1>3
  <2> QED BY <1>1, <1>2, <2>1
<1> QED BY <1>1, <1>2, <1>3 DEF q

LEMMA RstNumbers ==
  ASSUME NEW g \in Segment, NEW r \in tcp_rst(g)
  PROVE  r.seq \in ResetNums /\ r.by = "tcp_rst"
<1>1. CASE "ACK" \in g.flags
  <2>1. g.ack \div W16 \in 0 .. W16 - 1
    BY SegmentFields, LowerHalf
  <2> QED BY <1>1, <2>1 DEF tcp_rst, ResetNums
<1>2. CASE "ACK" \notin g.flags
  BY <1>2, Zenon DEF tcp_rst, ResetNums
<1> QED BY <1>1, <1>2

(* Pairs are only added with a number drawn for them, or one never drawn.  *)
LEMMA MorePairs ==
  ASSUME DrawnOnce, NEW x, Pairs' \subseteq Pairs \cup {x}, drawn \subseteq drawn',
         x.iss \in IssValues => x.iss \notin drawn /\ x.iss \in drawn'
  PROVE  DrawnOnce'
  BY DEF DrawnOnce

LEMMA SamePairs ==
  ASSUME DrawnOnce, Pairs' \subseteq Pairs, drawn' = drawn
  PROVE  DrawnOnce'
  BY DEF DrawnOnce

(* The client's end is untouched, what is on its way to it is sound when   *)
(* the reply is, and the sessions decide the rest.                         *)
LEMMA ServerFrame ==
  ASSUME SessionInv, ServerInv', toServer' \subseteq toServer, UNCHANGED <<client, heard>>,
         \A r \in toClient' : r \in toClient \/ FromServer(r), DrawnOnce', OpenWasHeard'
  PROVE  SessionInv'
<1>1. Ends'
  BY DEF SessionInv, Ends, ClientTyped, Sent, Replied, Expects
<1> QED BY <1>1 DEF SessionInv

(* The common part of Deliver.                                             *)
LEMMA DeliverFacts ==
  ASSUME SessionInv, NEW m \in toServer, Deliver(m)
  PROVE  /\ FromClient(m, heard) /\ Read(m) \in Segment /\ ServerInv' /\ Responds(Read(m))
         /\ StoreOK(store) /\ UNCHANGED <<client, heard>> /\ toServer' \subseteq toServer
<1>1. FromClient(m, heard) /\ m \in WireType
  BY DEF SessionInv, Ends, Sent, FromClient
<1>2. Read(m) \in Segment /\ ServerInv
  BY <1>1, ReadTyped DEF SessionInv
<1>3. tcp_dispatch(Read(m)) /\ UNCHANGED <<client, heard>> /\ toServer' = Received(toServer, m)
  BY DEF Deliver
<1>4. ServerInv' /\ Responds(Read(m))
  BY <1>2, <1>3, DispatchSound, DispatchResponds
<1> QED BY <1>1, <1>2, <1>3, <1>4, Fewer DEF ServerInv, SoundBlocks

(* A reply on its way, or none.                                            *)
LEMMA DeliverReply ==
  ASSUME NEW m, Deliver(m)
  PROVE  /\ out' = None => toClient' = toClient /\ drawn' = drawn
         /\ out' # None => toClient' = toClient \cup {Written(out')}
         /\ Draws(out') => out'.seq \notin drawn /\ drawn' = drawn \cup {out'.seq}
         /\ ~Draws(out') => drawn' = drawn
  BY Zenon DEF Deliver, Draws

LEMMA WrittenFields ==
  ASSUME NEW r \in Reply
  PROVE  /\ r # None /\ Written(r) \in WireType /\ Written(r).len = 0 /\ Written(r).seq = r.seq
         /\ Written(r).ack = r.ack /\ Written(r).flags = r.flags
<1>1. r # None
  BY InputAssumption
<1>2. Written(r).len = 0 /\ Written(r).seq = r.seq /\ Written(r).ack = r.ack /\ Written(r).flags = r.flags
  BY DEF Written, Wire
<1>3. Written(r) \in WireType
  BY SeqFacts DEF Written, Wire, WireType, Reply
<1> QED BY <1>1, <1>2, <1>3

(* A SYN opens a session under a number nobody has seen.                   *)
LEMMA OpenStep ==
  ASSUME SessionInv, NEW m \in toServer, Deliver(m),
         Listener!Open(Read(m)), out'.by = "tcp_syn_ack"
  PROVE  SessionInv'
<1> DEFINE w == Written(out')
<1>1. m \in WireType /\ Read(m).id = c /\ Read(m).seq = m.seq /\ m.seq \in SeqNum /\ c \in ID
  BY DeliverFacts, ReadTyped, PeerListens DEF FromClient, WireType
<1>2. PICK iss \in IssValues :
        /\ sessionBar' = [sessionBar EXCEPT ![c] = [state |-> "half", iss |-> iss, irs |-> m.seq]]
        /\ out' \in Reply /\ out'.flags = {"SYN", "ACK"} /\ out'.seq = iss /\ out'.ack = Add32(m.seq, 1)
  BY <1>1, ListenerReply, ListenerAdd, Zenon DEF Listener!Open, Listener!Becomes
<1> DEFINE v == [state |-> "half", iss |-> iss, irs |-> m.seq]
           x == [iss |-> iss, irs |-> m.seq]
<1>3. /\ out' # None /\ w \in WireType /\ w.len = 0 /\ w.seq = iss /\ w.ack = Add32(m.seq, 1)
      /\ w.flags = {"SYN", "ACK"}
  BY <1>2, WrittenFields
<1>4. toClient' = toClient \cup {w} /\ iss \notin drawn /\ drawn' = drawn \cup {iss}
  BY <1>2, <1>3, DeliverReply DEF Draws
<1>5. FromServer(w) /\ PairIn(w) = x
  BY <1>1, <1>2, <1>3, AddSub DEF FromServer, PairIn
<1> HIDE DEF w
<1>6. Sessions' \subseteq Sessions \cup {v}
  <2>1. Sessions' \subseteq Sessions \cup (IF v.state = "absent" THEN {} ELSE {v})
    BY <1>1, <1>2, SessionsAfter
  <2> QED BY <2>1
<1>7. PairOf(v) = x /\ v.iss = iss /\ v.state = "half"
  BY DEF PairOf
<1> HIDE DEF v
<1>8. Pairs' \subseteq Pairs \cup {x}
  <2>1. PairsHeld' \subseteq PairsHeld \cup {x}
    BY <1>6, <1>7 DEF PairsHeld
  <2>2. PairsSent' \subseteq PairsSent \cup {x}
    BY <1>4, <1>5 DEF PairsSent
  <2>3. heard' = heard
    BY DeliverFacts
  <2> QED BY <2>1, <2>2, <2>3 DEF Pairs
<1>9. DrawnOnce'
  BY <1>4, <1>8, MorePairs DEF SessionInv
<1>10. OpenWasHeard'
  BY <1>2, <1>6, <1>7, DeliverFacts DEF SessionInv, OpenWasHeard
<1>11. /\ \A r \in toClient' : r \in toClient \/ FromServer(r)
       /\ ServerInv' /\ toServer' \subseteq toServer /\ UNCHANGED <<client, heard>>
  BY <1>4, <1>5, DeliverFacts
<1> QED BY <1>9, <1>10, <1>11, ServerFrame

(* A refused segment is answered with a number that is never drawn.        *)
LEMMA RefuseStep ==
  ASSUME SessionInv, NEW m \in toServer, Deliver(m),
         Listener!Refuse(Read(m)), out' \in tcp_rst(Read(m))
  PROVE  SessionInv'
<1> DEFINE w == Written(out')
<1>1. Read(m) \in Segment /\ Read(m).id = c /\ c \in ID
  BY DeliverFacts, ReadTyped, PeerListens DEF FromClient
<1>2. sessionBar' = [sessionBar EXCEPT ![c] = NoSession] /\ out' \in Reply
  BY <1>1, ListenerReply, Zenon DEF Listener!Refuse, Listener!Becomes, Listener!Absent, NoSession
<1>3. out'.seq \in ResetNums /\ out'.by = "tcp_rst"
  BY <1>1, RstNumbers
<1>4. out' # None /\ w \in WireType /\ w.len = 0 /\ w.seq \in ResetNums
  BY <1>2, <1>3, WrittenFields
<1>5. toClient' = toClient \cup {w} /\ drawn' = drawn
  BY <1>3, <1>4, DeliverReply DEF Draws
<1>6. FromServer(w) /\ PairIn(w).iss \notin IssValues
  BY <1>4, IssAssumption DEF FromServer, PairIn
<1> HIDE DEF w
<1>7. Sessions' \subseteq Sessions
  <2>1. NoSession.state = "absent"
    BY DEF NoSession
  <2> QED BY <1>1, <1>2, <2>1, SessionsAfter
<1>8. Pairs' \subseteq Pairs \cup {PairIn(w)}
  <2>1. PairsHeld' \subseteq PairsHeld
    BY <1>7 DEF PairsHeld
  <2>2. PairsSent' \subseteq PairsSent \cup {PairIn(w)}
    BY <1>5 DEF PairsSent
  <2>3. heard' = heard
    BY DeliverFacts
  <2> QED BY <2>1, <2>2, <2>3 DEF Pairs
<1>9. DrawnOnce'
  BY <1>5, <1>6, <1>8, MorePairs DEF SessionInv
<1>10. OpenWasHeard'
  BY <1>7, DeliverFacts DEF SessionInv, OpenWasHeard
<1>11. /\ \A r \in toClient' : r \in toClient \/ FromServer(r)
       /\ ServerInv' /\ toServer' \subseteq toServer /\ UNCHANGED <<client, heard>>
  BY <1>5, <1>6, DeliverFacts
<1> QED BY <1>9, <1>10, <1>11, ServerFrame

(* Only an acknowledgement of the number drawn for the session opens it,   *)
(* so the client has heard that number, and only with the session's irs.   *)
LEMMA ConfirmedWasHeard ==
  ASSUME SessionInv, NEW m, FromClient(m, heard), "ACK" \in m.flags, NEW s \in Sessions,
         s \in AnySession, m.ack = Add32(s.iss, 1)
  PROVE  PairOf(s) \in heard
<1>1. s.iss \in IssValues
  BY DEF SessionInv, OpenWasHeard
<1>2. PICK h \in heard : h.iss = s.iss
  BY <1>1 DEF FromClient, ToldBy
<1>3. h \in Pairs /\ PairOf(s) \in Pairs /\ h \in Pair
  BY DEF Pairs, PairsHeld, SessionInv, Ends, ClientTyped
<1>4. PairOf(s).iss = s.iss /\ PairOf(s).irs = s.irs
  BY DEF PairOf
<1>5. h.irs = s.irs
  BY <1>1, <1>2, <1>3, <1>4 DEF SessionInv, DrawnOnce
<1>6. h = [iss |-> s.iss, irs |-> s.irs]
  BY <1>2, <1>3, <1>5 DEF Pair
<1> QED BY <1>6 DEF PairOf

(* Nothing is answered: the session is confirmed, reset or left alone.     *)
LEMMA SilentStep ==
  ASSUME SessionInv, NEW m \in toServer, Deliver(m), out' = None,
         \A s \in Sessions' : /\ s.iss \in IssValues /\ (s.state = "open" => PairOf(s) \in heard)
                              /\ PairOf(s) \in PairsHeld
  PROVE  SessionInv'
<1>1. toClient' = toClient /\ drawn' = drawn /\ heard' = heard
  BY DeliverReply, DeliverFacts
<1>2. OpenWasHeard'
  BY <1>1 DEF OpenWasHeard
<1>3. PairsHeld' \subseteq PairsHeld /\ PairsSent' = PairsSent
  BY <1>1 DEF PairsHeld, PairsSent
<1>4. Pairs' \subseteq Pairs
  BY <1>1, <1>3 DEF Pairs
<1>5. DrawnOnce'
  BY <1>1, <1>4, SamePairs DEF SessionInv
<1>6. /\ \A r \in toClient' : r \in toClient \/ FromServer(r)
      /\ ServerInv' /\ toServer' \subseteq toServer /\ UNCHANGED <<client, heard>>
  BY <1>1, DeliverFacts
<1> QED BY <1>2, <1>5, <1>6, ServerFrame

LEMMA ConfirmStep ==
  ASSUME SessionInv, NEW m \in toServer, Deliver(m), Listener!Confirm(Read(m))
  PROVE  SessionInv'
<1> DEFINE s == sessionBar[c]
           v == [s EXCEPT !.state = "open"]
<1>1. /\ Read(m).id = c /\ Read(m).ack = m.ack /\ Read(m).flags = m.flags /\ c \in ID
      /\ FromClient(m, heard)
  BY DeliverFacts, ReadTyped, PeerListens DEF FromClient
<1>2. /\ s.state = "half" /\ "ACK" \in m.flags /\ m.ack = Add32(s.iss, 1)
      /\ sessionBar' = [sessionBar EXCEPT ![c] = v] /\ out' = None
  BY <1>1, ListenerAdd, Zenon
     DEF Listener!Confirm, Listener!Is, Listener!Has, Listener!Becomes
<1>3. s \in AnySession
  BY <1>1, SessionTyped, DeliverFacts
<1>4. v.state = "open" /\ v.iss = s.iss /\ v.irs = s.irs
  BY <1>3 DEF AnySession
<1>5. Sessions' \subseteq Sessions \cup {v}
  <2>1. Sessions' \subseteq Sessions \cup (IF v.state = "absent" THEN {} ELSE {v})
    BY <1>1, <1>2, SessionsAfter
  <2> QED BY <1>4, <2>1
<1>6. s \in Sessions
  BY <1>1, <1>2, Zenon DEF Sessions
<1> HIDE DEF s, v
<1>7. PairOf(v) = PairOf(s)
  BY <1>4 DEF PairOf
<1>8. PairOf(s) \in heard
  BY <1>1, <1>2, <1>3, <1>6, ConfirmedWasHeard
<1>9. \A u \in Sessions : u.iss \in IssValues /\ (u.state = "open" => PairOf(u) \in heard) /\ PairOf(u) \in PairsHeld
  BY DEF SessionInv, OpenWasHeard, PairsHeld
<1>10. v.iss \in IssValues /\ PairOf(v) \in heard /\ PairOf(v) \in PairsHeld
  BY <1>4, <1>6, <1>7, <1>8, <1>9
<1> QED BY <1>2, <1>5, <1>9, <1>10, SilentStep

LEMMA EndStep ==
  ASSUME SessionInv, NEW m \in toServer, Deliver(m),
         Listener!Reset(Read(m)) \/ Listener!Ignore(Read(m))
  PROVE  SessionInv'
<1>1. Read(m).id = c /\ c \in ID
  BY DeliverFacts, ReadTyped, PeerListens DEF FromClient
<1>2. /\ out' = None
      /\ sessionBar' = [sessionBar EXCEPT ![c] = NoSession] \/ sessionBar' = sessionBar
  BY <1>1, Zenon DEF Listener!Reset, Listener!Ignore, Listener!Becomes, Listener!Absent, NoSession
<1>3. Sessions' \subseteq Sessions
  <2>1. CASE sessionBar' = sessionBar
    BY <2>1 DEF Sessions
  <2>2. CASE sessionBar' = [sessionBar EXCEPT ![c] = NoSession]
    <3>1. NoSession.state = "absent"
      BY DEF NoSession
    <3> QED BY <1>1, <2>2, <3>1, SessionsAfter
  <2> QED BY <1>2, <2>1, <2>2
<1>4. \A u \in Sessions : u.iss \in IssValues /\ (u.state = "open" => PairOf(u) \in heard) /\ PairOf(u) \in PairsHeld
  BY DEF SessionInv, OpenWasHeard, PairsHeld
<1> QED BY <1>2, <1>3, <1>4, SilentStep

LEMMA DeliverPreserves ==
  ASSUME SessionInv, NEW m \in toServer, Deliver(m)
  PROVE  SessionInv'
<1>1. Responds(Read(m))
  BY DeliverFacts
<1> QED BY <1>1, OpenStep, RefuseStep, ConfirmStep, EndStep DEF Responds

-----------------------------------------------------------------------------
LEMMA NoSessions == ASSUME Live(store) = {} PROVE Sessions = {}
<1>1. \A id \in ID : sessionBar[id] = NoSession
  BY SessionNone, SessionsNow
<1>2. NoSession.state = "absent"
  BY DEF NoSession
<1> QED BY <1>1, <1>2 DEF Sessions

LEMMA SessionStarts == SessionInit => SessionInv
<1> SUFFICES ASSUME SessionInit PROVE SessionInv
  OBVIOUS
<1>1. /\ Init /\ client = Fresh /\ toServer = {} /\ toClient = {} /\ heard = {} /\ drawn = {}
  BY DEF SessionInit, ClientInit
<1>2. ServerInv
  BY <1>1, ServerInit
<1>3. Sessions = {}
  <2>1. Live(store) = {}
    BY <1>1 DEF Init, EmptyStore, Live
  <2> QED BY <2>1, NoSessions
<1>4. Fresh \in Client /\ Fresh.state = "CLOSED"
  BY SeqFacts, ClientAssumption DEF Fresh, Client
<1>5. Ends
  BY <1>1, <1>4 DEF Ends, ClientTyped, Sent, Replied, Expects
<1>6. Pairs = {}
  BY <1>1, <1>3 DEF Pairs, PairsHeld, PairsSent
<1> QED BY <1>2, <1>3, <1>5, <1>6 DEF SessionInv, DrawnOnce, OpenWasHeard

LEMMA SessionStep == SessionInv /\ [SessionNext]_sessionVars => SessionInv'
<1> SUFFICES ASSUME SessionInv, [SessionNext]_sessionVars PROVE SessionInv'
  OBVIOUS
<1>1. CASE ClientStep /\ UNCHANGED serverVars
  BY <1>1, ClientPreserves
<1>2. CASE \E m \in toServer : Deliver(m)
  BY <1>2, DeliverPreserves
<1>3. CASE Calms
  BY <1>3, CalmStep
<1>4. CASE UNCHANGED sessionVars
  <2>1. UNCHANGED <<client, toServer, heard, calls, calm>> /\ UNCHANGED serverVars /\ toClient' = toClient
    BY <1>4 DEF sessionVars, clientVars
  <2> QED BY <2>1, FrameStep
<1> QED BY <1>1, <1>2, <1>3, <1>4 DEF SessionNext

(* The server never establishes a connection with a client that did not    *)
(* accept this very SYN-ACK: however often a SYN, an ACK or a reset is     *)
(* repeated or delayed, whatever tcp_rst sends, and however often the      *)
(* client is started again, an established block carries a pair of initial *)
(* numbers the client heard together.  It rests on each initial number     *)
(* being drawn once and never sent by tcp_rst.                             *)
THEOREM EstablishedOnlyIfHeard == SessionSpec => []EstablishedWasHeard
<1>1. SessionInv => EstablishedWasHeard
  <2> SUFFICES ASSUME SessionInv, NEW p \in Live(store), store.heap[p].state = "CON_ESTABLISHED"
               PROVE  [iss |-> store.heap[p].send.iss, irs |-> store.heap[p].recv.irs] \in heard
    BY DEF EstablishedWasHeard, Blocks
  <2> DEFINE t == store.heap[p]
             s == sessionBar[t.id]
  <2>1. StoreOK(store)
    BY DEF SessionInv, ServerInv, SoundBlocks
  <2>2. t.id \in ID /\ s = SessionOf(t)
    BY <2>1, SessionAt, SessionsNow
  <2>3. s = [state |-> "open", iss |-> t.send.iss, irs |-> t.recv.irs]
    BY <2>2 DEF SessionOf
  <2>4. s.state = "open" /\ PairOf(s) = [iss |-> t.send.iss, irs |-> t.recv.irs]
    BY <2>3 DEF PairOf
  <2>5. s \in Sessions
    BY <2>2, <2>4 DEF Sessions
  <2> HIDE DEF s
  <2>6. PairOf(s) \in heard
    BY <2>4, <2>5 DEF SessionInv, OpenWasHeard
  <2> QED BY <2>4, <2>6
<1> QED BY <1>1, SessionStarts, SessionStep, PTL DEF SessionSpec

-----------------------------------------------------------------------------
(***************************************************************************)
(* A calm network.  What the confusion left behind no longer grows: one    *)
(* segment is under way at a time, and the method the client waits in, the *)
(* segment under way and the server's session of this peer tell each       *)
(* other.                                                                  *)
(***************************************************************************)
PeerSession == sessionBar[c]

(* The last handshake succeeded with a number tcp_gen_iss drew.            *)
Linked == client.last = "linked" /\ Sub32(client.their_seq, 1) \in IssValues

Agrees == client.their_seq = Add32(PeerSession.iss, 1) /\ client.my_seq = Add32(PeerSession.irs, 1)

(* After a refusal the server holds nothing of this peer.                  *)
FailureHealed == client.last = "failed" => PeerSession.state = "absent"

(* During a handshake: the SYN is under way, or the refusal of it, or the  *)
(* SYN-ACK that a server without a session answers.                        *)
Asking == /\ toServer = {Wire({"SYN"}, client.my_seq, 0, 0)} /\ toClient = {}
          /\ FailureHealed /\ (Linked => PeerSession.state = "open" /\ Agrees)

Refused == /\ toServer = {} /\ PeerSession.state = "absent" /\ client.last # "failed"
           /\ \E r \in toClient : toClient = {r} /\ r.seq \in ResetNums

Invited == /\ toServer = {} /\ PeerSession.state = "half" /\ ~Linked
           /\ \E r \in toClient : /\ toClient = {r} /\ r.flags = {"SYN", "ACK"}
                                  /\ r.seq = PeerSession.iss /\ r.ack = Add32(PeerSession.irs, 1)

(* At other times: nothing, one segment that acknowledges, or its refusal. *)
Acknowledges(m) == "ACK" \in m.flags /\ "SYN" \notin m.flags /\ "RST" \notin m.flags

OneWay == \/ Drained
          \/ toClient = {} /\ \E m \in toServer : toServer = {m} /\ Acknowledges(m)
          \/ toServer = {} /\ \E r \in toClient : toClient = {r} /\ r.seq \in ResetNums

(* A link survives what the client sends and closes; its last ACK may      *)
(* still be under way.                                                     *)
LinkHolds == /\ toClient = {} /\ Agrees
             /\ \/ PeerSession.state = "open"
                \/ /\ PeerSession.state = "half"
                   /\ toServer = {Wire({"ACK"}, client.my_seq, client.their_seq, 0)}

Settled == OneWay /\ FailureHealed /\ (Linked => LinkHolds)

CalmNet == /\ client.last # "stuck"
           /\ client.waits = "handshake" => Asking \/ Refused \/ Invited
           /\ client.waits # "handshake" => Settled

CalmInv == /\ drawn \subseteq IssValues
           /\ ~calm => client.last = "none"
           /\ calm => CalmNet

(* Without a session no segment but a reset stays unanswered, memory       *)
(* permitting.                                                             *)
LEMMA StrangerAnswered ==
  ASSUME ServerInv, NEW g \in Segment, g.sound, tcp_dispatch(g), ~NoMemory(g), g.id \in Listening,
         "RST" \notin g.flags, sessionBar[g.id].state = "absent"
  PROVE  out' # None
<1>1. ASSUME NEW s, SoundBlocks(s), NEW p \in Live(s), s.heap[p].id = g.id,
             sessionBar = SessionsOf(s), Handle(s, p, g)
      PROVE  out' # None
  <2> DEFINE t == s.heap[p]
  <2>1. /\ StoreOK(s) /\ t \in TCB /\ NumbersAgree(t) /\ t.state \in Con_State /\ g.id \in ID
        /\ IssValues \subseteq SeqNum
    <3>1. t \in TCB
      BY <1>1 DEF SoundBlocks, StoreOK, StoreType
    <3> QED BY <1>1, <3>1, InputAssumption, BlockFields, SegmentFields DEF SoundBlocks
  <2>2. sessionBar[g.id] = SessionOf(t)
    BY <1>1, <2>1, SessionAt
  <2>3. t.state = "CON_CLOSED"
    BY <2>1, <2>2 DEF SessionOf, Con_State
  <2>4. parse_edge(g, t.state) \in {"EVT_SYN", "EVT_SEND_RST"}
    BY <2>3 DEF parse_edge
  <2>5. OnSyn(s, p, g) \/ OnSendRst(s, p, g)
    BY <1>1, <2>4 DEF Handle, OnAck, OnRst, OnOther
  <2>6. CASE OnSyn(s, p, g)
    <3>1. PICK iss \in IssValues : out' = tcp_syn_ack(update_syn(t, g, iss), g)
      BY <2>6 DEF OnSyn
    <3>2. update_syn(t, g, iss) \in TCB
      BY <2>1, <2>3, SynBlock
    <3> QED BY <3>1, <3>2, SynAckReply, InputAssumption
  <2>7. CASE OnSendRst(s, p, g)
    BY <2>7, RstReply, InputAssumption DEF OnSendRst
  <2> QED BY <2>5, <2>6, <2>7
<1>2. Known(g) \/ New(g)
  BY Zenon DEF tcp_dispatch
<1> QED BY <1>1, <1>2, DispatchHandles

(* What a segment that resets nothing does to the session of this peer.    *)
Opens(m) ==
  /\ PeerSession.state = "absent" /\ "SYN" \in m.flags /\ "ACK" \notin m.flags
  /\ out' \in Reply /\ out'.flags = {"SYN", "ACK"} /\ out'.seq \in IssValues
  /\ out'.ack = Add32(m.seq, 1)
  /\ PeerSession' = [state |-> "half", iss |-> out'.seq, irs |-> m.seq]

Refuses(m) ==
  /\ \/ PeerSession.state = "absent" /\ ("SYN" \in m.flags => "ACK" \in m.flags)
     \/ PeerSession.state = "half" /\ ("ACK" \in m.flags => "SYN" \in m.flags)
     \/ PeerSession.state = "open" /\ "SYN" \in m.flags
  /\ out' \in Reply /\ out'.seq \in ResetNums
  /\ PeerSession'.state = "absent"

Confirms(m) ==
  /\ PeerSession.state = "half" /\ "ACK" \in m.flags /\ out' = None
  /\ PeerSession'.state = "open" /\ PeerSession'.iss = PeerSession.iss
  /\ PeerSession'.irs = PeerSession.irs

Ignores(m) ==
  /\ \/ PeerSession.state = "half" /\ "ACK" \in m.flags /\ m.ack # Add32(PeerSession.iss, 1)
     \/ PeerSession.state = "open" /\ "SYN" \notin m.flags
  /\ out' = None /\ PeerSession' = PeerSession

LEMMA PeerBecomes ==
  ASSUME NEW v, sessionBar' = [sessionBar EXCEPT ![c] = v]
  PROVE  PeerSession' = v
<1>1. DOMAIN sessionBar = ID
  BY SessionsNow DEF SessionsOf
<1> QED BY <1>1, PeerListens DEF PeerSession

LEMMA CalmEffects ==
  ASSUME SessionInv, calm, NEW m \in toServer, Deliver(m), "RST" \notin m.flags
  PROVE  Opens(m) \/ Refuses(m) \/ Confirms(m) \/ Ignores(m)
<1> DEFINE g == Read(m)
<1>1. /\ m \in WireType /\ g \in Segment /\ Responds(g) /\ StoreOK(store) /\ ServerInv
      /\ g.id = c /\ g.seq = m.seq /\ g.ack = m.ack /\ g.flags = m.flags /\ c \in ID
  BY DeliverFacts, ReadTyped, PeerListens DEF FromClient, SessionInv
<1>2. g.sound
  BY DEF Read
<1>3. tcp_dispatch(g) /\ ~NoMemory(g)
  BY DEF Deliver
<1>4. PeerSession.state = "absent" => out' # None
  BY <1>1, <1>2, <1>3, PeerListens, StrangerAnswered DEF PeerSession
<1>5. PeerSession \in AnySession
  BY <1>1, SessionTyped DEF PeerSession
<1> HIDE DEF g
<1>6. CASE Listener!Open(g)
  <2>1. PICK iss \in IssValues :
          /\ sessionBar' = [sessionBar EXCEPT ![c] = [state |-> "half", iss |-> iss, irs |-> m.seq]]
          /\ out' \in Reply /\ out'.flags = {"SYN", "ACK"} /\ out'.seq = iss /\ out'.ack = Add32(m.seq, 1)
    BY <1>1, <1>6, ListenerReply, ListenerAdd, Zenon DEF Listener!Open, Listener!Becomes
  <2>2. PeerSession.state = "absent" /\ "SYN" \in m.flags /\ "ACK" \notin m.flags
    BY <1>1, <1>6, Zenon DEF Listener!Open, Listener!Is, Listener!Has, PeerSession
  <2>3. PeerSession' = [state |-> "half", iss |-> iss, irs |-> m.seq]
    BY <2>1, PeerBecomes
  <2> QED BY <2>1, <2>2, <2>3 DEF Opens
<1>7. CASE Listener!Refuse(g) /\ out' \in tcp_rst(g)
  <2>1. sessionBar' = [sessionBar EXCEPT ![c] = NoSession] /\ out' \in Reply
    BY <1>1, <1>7, ListenerReply, Zenon DEF Listener!Refuse, Listener!Becomes, Listener!Absent, NoSession
  <2>2. PeerSession' = NoSession /\ NoSession.state = "absent"
    <3>1. PeerSession' = NoSession
      BY <2>1, PeerBecomes
    <3> QED BY <3>1 DEF NoSession
  <2>3. out'.seq \in ResetNums
    BY <1>1, <1>7, RstNumbers
  <2>4. \/ PeerSession.state = "absent" /\ ("SYN" \in m.flags => "ACK" \in m.flags)
        \/ PeerSession.state = "half" /\ ("ACK" \in m.flags => "SYN" \in m.flags)
        \/ PeerSession.state = "open" /\ "SYN" \in m.flags
    BY <1>1, <1>7, PeerListens, Zenon DEF Listener!Refuse, Listener!Is, Listener!Has, PeerSession
  <2> QED BY <2>1, <2>2, <2>3, <2>4 DEF Refuses
<1>8. CASE Listener!Confirm(g)
  <2>1. /\ PeerSession.state = "half" /\ "ACK" \in m.flags /\ out' = None
        /\ sessionBar' = [sessionBar EXCEPT ![c] = [PeerSession EXCEPT !.state = "open"]]
    BY <1>1, <1>8, Zenon DEF Listener!Confirm, Listener!Is, Listener!Has, Listener!Becomes, PeerSession
  <2>2. PeerSession' = [PeerSession EXCEPT !.state = "open"]
    BY <2>1, PeerBecomes
  <2> QED BY <1>5, <2>1, <2>2 DEF Confirms, AnySession
<1>9. ASSUME Listener!Reset(g) PROVE FALSE
  BY <1>1, <1>9, Zenon DEF Listener!Reset, Listener!Has
<1>10. CASE Listener!Ignore(g)
  <2>1. sessionBar' = sessionBar /\ out' = None
    BY <1>10, Zenon DEF Listener!Ignore
  <2>2. PeerSession' = PeerSession
    BY <2>1 DEF PeerSession
  <2>3. PeerSession.state # "absent"
    BY <1>4, <2>1
  <2>4. \/ PeerSession.state = "half" /\ "ACK" \in m.flags /\ m.ack # Add32(PeerSession.iss, 1)
        \/ PeerSession.state = "open" /\ "SYN" \notin m.flags
    BY <1>1, <1>2, <1>10, <2>3, ListenerAdd, Zenon
       DEF Listener!Ignore, Listener!Is, Listener!Has, PeerSession
  <2> QED BY <2>1, <2>2, <2>4 DEF Ignores
<1> QED BY <1>1, <1>6, <1>7, <1>8, <1>9, <1>10 DEF Responds

(* What a step of the network's calm leaves.                               *)
LEMMA CalmDelivery ==
  ASSUME SessionInv, calm, NEW m \in toServer, Deliver(m)
  PROVE  /\ client' = client /\ toServer' = toServer \ {m}
         /\ out' = None => toClient' = toClient
         /\ out' # None => toClient' = toClient \cup {Written(out')}
<1>1. client' = client /\ toServer' = Received(toServer, m)
  BY DEF Deliver
<1> QED BY <1>1, DeliverReply DEF Received

LEMMA CalmDeliver ==
  ASSUME SessionInv, calm, CalmNet, NEW m \in toServer, Deliver(m)
  PROVE  CalmNet'
<1>0. /\ client' = client /\ toServer' = toServer \ {m}
      /\ out' = None => toClient' = toClient
      /\ out' # None => toClient' = toClient \cup {Written(out')}
  BY CalmDelivery
<1>1. ASSUME out' \in Reply
      PROVE  /\ toClient' = toClient \cup {Written(out')} /\ Written(out').seq = out'.seq
             /\ Written(out').ack = out'.ack /\ Written(out').flags = out'.flags
  BY <1>0, <1>1, WrittenFields
<1>2. client.last # "stuck" /\ client'.waits = client.waits /\ client'.last = client.last
  BY <1>0 DEF CalmNet
<1>3. Linked' <=> Linked
  BY <1>0 DEF Linked
<1>4. CASE client.waits = "handshake"
  <2>1. Asking
    BY <1>4 DEF CalmNet, Refused, Invited
  <2>2. m = Wire({"SYN"}, client.my_seq, 0, 0) /\ toServer' = {} /\ toClient = {}
    BY <1>0, <2>1 DEF Asking
  <2>3. m.flags = {"SYN"} /\ m.seq = client.my_seq
    BY <2>2 DEF Wire
  <2>4. Opens(m) \/ Refuses(m)
    BY <2>3, CalmEffects DEF Confirms, Ignores
  <2>5. CASE Opens(m)
    <3>1. /\ PeerSession'.state = "half" /\ PeerSession'.iss = out'.seq
          /\ Add32(PeerSession'.irs, 1) = out'.ack
      BY <2>5 DEF Opens
    <3>2. ~Linked'
      BY <1>3, <2>1, <2>5 DEF Asking, Opens
    <3>3. toClient' = {Written(out')} /\ Written(out').seq = out'.seq /\ Written(out').flags = {"SYN", "ACK"}
          /\ Written(out').ack = out'.ack
      BY <1>1, <2>2, <2>5 DEF Opens
    <3>4. Invited'
      BY <2>2, <3>1, <3>2, <3>3, Zenon DEF Invited
    <3> QED BY <1>2, <1>4, <3>4 DEF CalmNet
  <2>6. CASE Refuses(m)
    <3>1. client.last # "failed"
      BY <2>1, <2>3, <2>6 DEF Asking, FailureHealed, Refuses
    <3>2. toClient' = {Written(out')} /\ Written(out').seq \in ResetNums /\ PeerSession'.state = "absent"
      BY <1>1, <2>2, <2>6 DEF Refuses
    <3>3. Refused'
      BY <1>2, <2>2, <3>1, <3>2, Zenon DEF Refused
    <3> QED BY <1>2, <1>4, <3>3 DEF CalmNet
  <2> QED BY <2>4, <2>5, <2>6
<1>5. CASE client.waits # "handshake"
  <2>1. Settled
    BY <1>5 DEF CalmNet
  <2>2. toServer = {m} /\ toServer' = {} /\ toClient = {} /\ Acknowledges(m)
    BY <1>0, <2>1 DEF Settled, OneWay, Drained
  <2>3. Refuses(m) \/ Confirms(m) \/ Ignores(m)
    BY <2>2, CalmEffects DEF Opens, Acknowledges
  <2>4. CASE Refuses(m)
    <3>1. PeerSession.state = "absent" /\ PeerSession'.state = "absent"
      BY <2>2, <2>4 DEF Refuses, Acknowledges
    <3>2. ~Linked'
      BY <1>3, <2>1, <3>1 DEF Settled, LinkHolds
    <3>3. toClient' = {Written(out')} /\ Written(out').seq \in ResetNums
      BY <1>1, <2>2, <2>4 DEF Refuses
    <3>4. OneWay'
      BY <2>2, <3>3, Zenon DEF OneWay
    <3> QED BY <1>2, <1>5, <3>1, <3>2, <3>4 DEF CalmNet, Settled, FailureHealed
  <2>5. CASE Confirms(m)
    <3>1. /\ PeerSession'.state = "open" /\ PeerSession'.iss = PeerSession.iss
          /\ PeerSession'.irs = PeerSession.irs /\ PeerSession.state = "half" /\ out' = None
      BY <2>5 DEF Confirms
    <3>2. client'.last # "failed" /\ toClient' = {}
      BY <1>0, <2>1, <2>2, <3>1 DEF Settled, FailureHealed
    <3>3. Linked' => LinkHolds'
      BY <1>0, <1>3, <2>1, <3>1, <3>2 DEF Settled, LinkHolds, Agrees
    <3>4. OneWay'
      BY <2>2, <3>2 DEF OneWay, Drained
    <3> QED BY <1>2, <1>5, <3>2, <3>3, <3>4 DEF CalmNet, Settled, FailureHealed
  <2>6. CASE Ignores(m)
    <3>1. PeerSession' = PeerSession /\ toClient' = {}
      BY <1>0, <2>2, <2>6 DEF Ignores
    <3>2. ASSUME Linked PROVE PeerSession.state = "open" /\ Agrees
      <4>1. Agrees /\ (PeerSession.state = "open" \/ m = Wire({"ACK"}, client.my_seq, client.their_seq, 0))
        BY <2>1, <2>2, <3>2 DEF Settled, LinkHolds
      <4>2. m = Wire({"ACK"}, client.my_seq, client.their_seq, 0) => m.ack = client.their_seq
        BY DEF Wire
      <4> QED BY <2>6, <4>1, <4>2 DEF Ignores, Agrees
    <3>3. Linked' => LinkHolds'
      BY <1>0, <1>3, <3>1, <3>2 DEF LinkHolds, Agrees
    <3>4. OneWay'
      BY <2>2, <3>1 DEF OneWay, Drained
    <3>5. FailureHealed'
      BY <1>0, <2>1, <3>1 DEF Settled, FailureHealed
    <3> QED BY <1>2, <1>5, <3>3, <3>4, <3>5 DEF CalmNet, Settled
  <2> QED BY <2>3, <2>4, <2>5, <2>6
<1> QED BY <1>4, <1>5

-----------------------------------------------------------------------------
(* Steps of the client over a calm network.                                *)
LEMMA PeerUntouched == ASSUME UNCHANGED serverVars PROVE PeerSession' = PeerSession /\ drawn' = drawn
  BY ServerUntouched DEF serverVars, PeerSession

(* A method starts when nothing is under way.                              *)
LEMMA CalmCall ==
  ASSUME SessionInv, CalmNet, Drained, UNCHANGED serverVars, Handshake \/ SendData \/ Close
  PROVE  CalmNet'
<1>1. client \in Client
  BY ClientFields
<1>2. client.waits = "menu"
  BY DEF Handshake, SendData, Close, Call
<1>3. OneWay /\ FailureHealed /\ (Linked => PeerSession.state = "open" /\ Agrees)
  BY <1>2 DEF CalmNet, Settled, LinkHolds, Drained
<1>4. PeerSession' = PeerSession
  BY PeerUntouched
<1>5. ASSUME NEW w, NEW g, Call(w, g)
      PROVE  /\ client'.waits = w /\ client'.my_seq = client.my_seq /\ client'.their_seq = client.their_seq
             /\ client'.last = client.last /\ toServer' = {g} /\ toClient' = {}
  BY <1>1, <1>5 DEF Call, Client, Drained
<1>6. ASSUME NEW w, NEW g, Call(w, g)
      PROVE  FailureHealed' /\ (Linked' => PeerSession'.state = "open" /\ Agrees') /\ client'.last # "stuck"
  <2>1. /\ client'.my_seq = client.my_seq /\ client'.their_seq = client.their_seq /\ client'.last = client.last
    BY <1>5, <1>6
  <2> QED BY <1>3, <1>4, <2>1 DEF FailureHealed, Linked, Agrees, CalmNet
<1>7. CASE Handshake
  <2> DEFINE g == Wire({"SYN"}, client.my_seq, 0, 0)
  <2>1. Call("handshake", g)
    BY <1>7 DEF Handshake
  <2>2. Wire({"SYN"}, client'.my_seq, 0, 0) = g /\ client'.waits = "handshake" /\ toServer' = {g} /\ toClient' = {}
    BY <1>5, <2>1
  <2> HIDE DEF g
  <2>3. Asking'
    BY <1>6, <2>1, <2>2 DEF Asking
  <2> QED BY <1>6, <2>1, <2>2, <2>3 DEF CalmNet
<1>8. ASSUME NEW w \in {"send_data", "close"}, NEW g, Acknowledges(g), Call(w, g)
      PROVE  CalmNet'
  <2>1. client'.waits = w /\ toServer' = {g} /\ toClient' = {}
    BY <1>5, <1>8
  <2>2. OneWay'
    BY <1>8, <2>1, Zenon DEF OneWay
  <2>3. Linked' => LinkHolds'
    BY <1>6, <1>8, <2>1 DEF LinkHolds
  <2> QED BY <1>6, <1>8, <2>1, <2>2, <2>3 DEF CalmNet, Settled
<1>9. CASE SendData
  <2>1. PICK n \in Requests : Call("send_data", Wire({"PSH", "ACK"}, client.my_seq, client.their_seq, n))
    BY <1>9 DEF SendData
  <2>2. Acknowledges(Wire({"PSH", "ACK"}, client.my_seq, client.their_seq, n))
    BY DEF Acknowledges, Wire
  <2> QED BY <1>8, <2>1, <2>2
<1>10. CASE Close
  <2>1. Acknowledges(Wire({"FIN", "ACK"}, client.my_seq, client.their_seq, 0))
    BY DEF Acknowledges, Wire
  <2> QED BY <1>8, <1>10, <2>1 DEF Close
<1> QED BY <1>7, <1>9, <1>10

(* sr1 gives up only on data and on a FIN.                                 *)
LEMMA CalmTimeout ==
  ASSUME SessionInv, calm, CalmNet, UNCHANGED serverVars, Timeout
  PROVE  CalmNet'
<1>1. /\ Drained /\ client.waits # "menu" /\ client' = GivesUp
      /\ toServer' = toServer /\ toClient' = toClient
  BY DEF Timeout
<1>2. client.waits # "handshake"
  BY <1>1 DEF CalmNet, Asking, Refused, Invited, Drained
<1>3. client' = [client EXCEPT !.waits = "menu", !.last = client.last]
  BY <1>1, <1>2, Zenon DEF GivesUp
<1>4. /\ client'.waits = "menu" /\ client'.my_seq = client.my_seq /\ client'.their_seq = client.their_seq
      /\ client'.last = client.last
  BY <1>3, ClientFields DEF Client
<1>5. PeerSession' = PeerSession
  BY PeerUntouched
<1> QED BY <1>1, <1>2, <1>4, <1>5
      DEF CalmNet, Settled, OneWay, Drained, FailureHealed, Linked, LinkHolds, Agrees

(* The client takes a SYN-ACK: the server's, and the two ends agree, or a  *)
(* refusal that looks like one, with a number tcp_gen_iss never returns.   *)
LEMMA CalmSynAck ==
  ASSUME SessionInv, calm, CalmNet, UNCHANGED serverVars, NEW r \in toClient, GotSynAck(r)
  PROVE  CalmNet'
<1> DEFINE a == Wire({"ACK"}, r.ack, Add32(r.seq, 1), 0)
<1>1. /\ client.waits = "handshake" /\ toClient' = toClient \ {r} /\ toServer' = toServer \cup {a}
      /\ client' = [client EXCEPT !.waits = "menu", !.state = "ESTABLISHED", !.last = "linked",
                                  !.my_seq = r.ack, !.their_seq = Add32(r.seq, 1)]
  BY Zenon DEF GotSynAck, Answers, Received
<1>2. /\ client'.waits = "menu" /\ client'.last = "linked" /\ client'.my_seq = r.ack
      /\ client'.their_seq = Add32(r.seq, 1)
  BY <1>1, ClientFields DEF Client
<1>3. PeerSession' = PeerSession /\ Sub32(Add32(r.seq, 1), 1) = r.seq
  BY PeerUntouched, ReplyFields, AddSub
<1>4. a = Wire({"ACK"}, client'.my_seq, client'.their_seq, 0) /\ Acknowledges(a)
  BY <1>2 DEF Acknowledges, Wire
<1> HIDE DEF a
<1>5. Refused \/ Invited
  BY <1>1 DEF CalmNet, Asking
<1>6. toServer' = {a} /\ toClient' = {} /\ (Refused => r.seq \in ResetNums)
      /\ (Invited => r.seq = PeerSession.iss /\ r.ack = Add32(PeerSession.irs, 1) /\ PeerSession.state = "half")
  BY <1>1, <1>5 DEF Refused, Invited
<1>7. OneWay' /\ FailureHealed'
  BY <1>2, <1>4, <1>6, Zenon DEF OneWay, FailureHealed
<1>8. Linked' => LinkHolds'
  <2>1. CASE Refused
    BY <1>2, <1>3, <1>6, <2>1, IssAssumption DEF Linked
  <2>2. CASE Invited
    BY <1>2, <1>3, <1>4, <1>6, <2>2 DEF LinkHolds, Agrees
  <2> QED BY <1>5, <2>1, <2>2
<1> QED BY <1>2, <1>7, <1>8 DEF CalmNet, Settled

(* A refused handshake leaves no session, and is not the second in a row.  *)
LEMMA CalmNoSynAck ==
  ASSUME SessionInv, calm, CalmNet, UNCHANGED serverVars, NEW r \in toClient, GotNoSynAck(r)
  PROVE  CalmNet'
<1>1. /\ client.waits = "handshake" /\ r.flags # {"SYN", "ACK"} /\ toClient' = toClient \ {r}
      /\ client' = GivesUp /\ toServer' = toServer
  BY Zenon DEF GotNoSynAck, Answers, Received
<1>2. Refused
  BY <1>1 DEF CalmNet, Asking, Invited
<1>3. client.last = "linked" \/ client.last = "none"
  BY <1>2, ClientFields DEF CalmNet, Refused
<1>4. client' = [client EXCEPT !.waits = "menu", !.last = "failed"]
  BY <1>1, <1>3, Zenon DEF GivesUp
<1>5. client'.waits = "menu" /\ client'.last = "failed"
  BY <1>4, ClientFields DEF Client
<1>6. toServer' = {} /\ toClient' = {} /\ PeerSession'.state = "absent"
  BY <1>1, <1>2, PeerUntouched DEF Refused
<1> QED BY <1>5, <1>6 DEF CalmNet, Settled, OneWay, Drained, FailureHealed, Linked

(* An answer outside a handshake is a refusal, so there was no link, and   *)
(* what the client makes of it is none.                                    *)
LEMMA CalmAnswer ==
  ASSUME SessionInv, calm, CalmNet, UNCHANGED serverVars, NEW r \in toClient,
         GotResponse(r) \/ GotFinAck(r) \/ Unheard(r)
  PROVE  CalmNet'
<1>1. client.waits # "handshake" /\ toClient' = toClient \ {r}
  <2>1. CASE GotResponse(r) \/ GotFinAck(r)
    BY <2>1, Zenon DEF GotResponse, GotFinAck, Answers, Received
  <2>2. CASE Unheard(r)
    BY <2>2, Zenon DEF Unheard, Answers
  <2> QED BY <2>1, <2>2
<1>2. Settled /\ client.last # "stuck"
  BY <1>1 DEF CalmNet
<1>3. toServer = {} /\ toClient' = {} /\ r.seq \in ResetNums /\ ~Linked
  BY <1>1, <1>2 DEF Settled, OneWay, Drained, LinkHolds
<1>4. PeerSession' = PeerSession
  BY PeerUntouched
<1>5. ASSUME OneWay', ~Linked', client'.last = client.last, client'.waits # "handshake"
      PROVE  CalmNet'
  BY <1>2, <1>4, <1>5 DEF CalmNet, Settled, FailureHealed
<1>6. CASE GotResponse(r)
  <2>1. /\ toServer' = toServer
        /\ client' = [client EXCEPT !.waits = "menu", !.my_seq = Add32(@, client.len),
                                    !.their_seq = Add32(@, r.len)]
    BY <1>6 DEF GotResponse
  <2>2. Add32(client.their_seq, r.len) = client.their_seq
    BY ClientFields, ReplyFields, AddSub
  <2>3. client'.waits = "menu" /\ client'.last = client.last /\ client'.their_seq = client.their_seq
    BY <2>1, <2>2, ClientFields DEF Client
  <2>4. OneWay' /\ ~Linked'
    BY <1>3, <2>1, <2>3 DEF OneWay, Drained, Linked
  <2> QED BY <1>5, <2>3, <2>4
<1>7. CASE GotFinAck(r)
  <2> DEFINE a == Wire({"ACK"}, Add32(client.my_seq, 1), Add32(r.seq, 1), 0)
  <2>1. /\ toServer' = toServer \cup {a}
        /\ client' = [client EXCEPT !.waits = "menu", !.state = "CLOSED", !.their_seq = Add32(r.seq, 1)]
    BY <1>7 DEF GotFinAck
  <2>2. client'.waits = "menu" /\ client'.last = client.last /\ client'.their_seq = Add32(r.seq, 1)
    BY <2>1, ClientFields DEF Client
  <2>3. Acknowledges(a) /\ Sub32(Add32(r.seq, 1), 1) = r.seq
    BY ReplyFields, AddSub DEF Acknowledges, Wire
  <2> HIDE DEF a
  <2>4. OneWay'
    BY <1>3, <2>1, <2>3 DEF OneWay
  <2>5. ~Linked'
    BY <1>3, <2>2, <2>3, IssAssumption DEF Linked
  <2> QED BY <1>5, <2>2, <2>4, <2>5
<1>8. CASE Unheard(r)
  <2>1. client' = client /\ toServer' = toServer
    BY <1>8 DEF Unheard
  <2>2. OneWay' /\ ~Linked'
    BY <1>3, <2>1 DEF OneWay, Drained, Linked
  <2> QED BY <1>1, <1>5, <2>1, <2>2
<1> QED BY <1>6, <1>7, <1>8

LEMMA CalmClient ==
  ASSUME SessionInv, calm, CalmNet, UNCHANGED serverVars, ClientStep
  PROVE  CalmNet'
<1>1. CASE Drained /\ (Handshake \/ SendData \/ Close)
  BY <1>1, CalmCall
<1>2. CASE Timeout
  BY <1>2, CalmTimeout
<1>3. ~Restart
  BY DEF Restart
<1>4. CASE ClientHears
  <2>1. PICK r \in toClient : \/ GotSynAck(r) \/ GotNoSynAck(r) \/ GotResponse(r)
                              \/ GotFinAck(r) \/ Unheard(r) \/ KernelReset(r)
    BY <1>4 DEF ClientHears
  <2>2. ~KernelReset(r)
    BY DEF KernelReset
  <2> QED BY <2>1, <2>2, CalmSynAck, CalmNoSynAck, CalmAnswer
<1> QED BY <1>1, <1>2, <1>3, <1>4 DEF ClientStep

(* Before that no handshake is counted.                                    *)
LEMMA CallKeepsLast ==
  ASSUME SessionInv, NEW w, NEW g, Call(w, g)
  PROVE  client'.last = client.last /\ (calm' <=> calm)
  BY ClientFields DEF Call, Client

LEMMA UncountedStep ==
  ASSUME SessionInv, ~calm, client.last = "none", ClientStep
  PROVE  client'.last = "none" /\ ~calm'
<1>1. CASE Handshake \/ SendData \/ Close
  BY <1>1, CallKeepsLast DEF Handshake, SendData, Close
<1>2. GivesUp.last = "none" /\ Fresh.last = "none"
  BY ClientFields DEF GivesUp, Fresh, Client
<1>3. CASE Timeout \/ Restart
  BY <1>2, <1>3 DEF Timeout, Restart
<1>4. ASSUME NEW r \in toClient,
             \/ GotSynAck(r) \/ GotNoSynAck(r) \/ GotResponse(r)
             \/ GotFinAck(r) \/ Unheard(r) \/ KernelReset(r)
      PROVE  client'.last = "none" /\ ~calm'
  <2>1. CASE GotSynAck(r)
    BY <2>1, ClientFields DEF GotSynAck, Client
  <2>2. CASE GotNoSynAck(r)
    BY <1>2, <2>2 DEF GotNoSynAck
  <2>3. CASE GotResponse(r)
    BY <2>3, ClientFields DEF GotResponse, Client
  <2>4. CASE GotFinAck(r)
    BY <2>4, ClientFields DEF GotFinAck, Client
  <2>5. CASE Unheard(r) \/ KernelReset(r)
    BY <2>5 DEF Unheard, KernelReset
  <2> QED BY <1>4, <2>1, <2>2, <2>3, <2>4, <2>5
<1> QED BY <1>1, <1>3, <1>4 DEF ClientStep, ClientHears

LEMMA CalmLasts ==
  ASSUME ClientStep
  PROVE  calm' = calm
<1>1. ASSUME NEW w, NEW g, Call(w, g) PROVE calm' = calm
  BY <1>1 DEF Call
<1> QED BY <1>1, Zenon DEF ClientStep, Handshake, SendData, Close, Timeout, Restart, ClientHears, GotSynAck,
             GotNoSynAck, GotResponse, GotFinAck, Unheard, KernelReset

(* The numbers drawn are values of tcp_gen_iss.                            *)
LEMMA DrawnValues ==
  ASSUME SessionInv, drawn \subseteq IssValues, NEW m \in toServer, Deliver(m)
  PROVE  drawn' \subseteq IssValues
<1>1. Read(m) \in Segment /\ Responds(Read(m))
  BY DeliverFacts
<1>2. CASE Listener!Open(Read(m))
  <2>1. out'.seq \in IssValues
    BY <1>2, Zenon DEF Listener!Open
  <2> QED BY <2>1, DeliverReply
<1>3. CASE Listener!Refuse(Read(m)) /\ out' \in tcp_rst(Read(m))
  <2>1. out'.by = "tcp_rst"
    BY <1>1, <1>3, RstNumbers
  <2> QED BY <2>1, DeliverReply DEF Draws
<1>4. CASE out' = None
  BY <1>4, DeliverReply
<1>5. Listener!Confirm(Read(m)) \/ Listener!Reset(Read(m)) \/ Listener!Ignore(Read(m)) => out' = None
  BY Zenon DEF Listener!Confirm, Listener!Reset, Listener!Ignore
<1> QED BY <1>1, <1>2, <1>3, <1>4, <1>5 DEF Responds

LEMMA CalmStarts == SessionInit => CalmInv
<1> SUFFICES ASSUME SessionInit PROVE CalmInv
  OBVIOUS
<1>1. client = Fresh /\ ~calm /\ drawn = {}
  BY DEF SessionInit, ClientInit
<1> QED BY <1>1 DEF CalmInv, Fresh

LEMMA CalmKept == SessionInv /\ CalmInv /\ [SessionNext]_sessionVars => CalmInv'
<1> SUFFICES ASSUME SessionInv, CalmInv, [SessionNext]_sessionVars PROVE CalmInv'
  OBVIOUS
<1>0. drawn \subseteq IssValues /\ (~calm => client.last = "none") /\ (calm => CalmNet)
  BY DEF CalmInv
<1>1. CASE ClientStep /\ UNCHANGED serverVars
  <2>1. drawn' \subseteq IssValues
    BY <1>0, <1>1, PeerUntouched
  <2>2. CASE calm
    <3>1. CalmNet'
      BY <1>0, <1>1, <2>2, CalmClient
    <3>2. calm'
      BY <1>1, <2>2, CalmLasts
    <3> QED BY <2>1, <3>1, <3>2 DEF CalmInv
  <2>3. CASE ~calm
    <3>1. client'.last = "none" /\ ~calm'
      BY <1>0, <1>1, <2>3, UncountedStep
    <3> QED BY <2>1, <3>1 DEF CalmInv
  <2> QED BY <2>2, <2>3
<1>2. ASSUME NEW m \in toServer, Deliver(m) PROVE CalmInv'
  <2>1. drawn' \subseteq IssValues
    BY <1>0, <1>2, DrawnValues
  <2>2. calm' = calm /\ client' = client
    BY <1>2 DEF Deliver
  <2>3. CASE calm
    <3>1. CalmNet' /\ calm'
      BY <1>0, <1>2, <2>2, <2>3, CalmDeliver
    <3> QED BY <2>1, <3>1 DEF CalmInv
  <2>4. CASE ~calm
    <3>1. client'.last = "none" /\ ~calm'
      BY <1>0, <2>2, <2>4
    <3> QED BY <2>1, <3>1 DEF CalmInv
  <2> QED BY <2>3, <2>4
<1>3. CASE Calms
  <2>1. /\ ~calm /\ client.waits = "menu" /\ calm' /\ toServer' = {} /\ toClient' = {} /\ client' = client
        /\ UNCHANGED serverVars
    BY <1>3 DEF Calms
  <2>2. client'.last = "none" /\ client'.waits = "menu" /\ drawn' = drawn
    BY <1>0, <2>1, PeerUntouched
  <2>3. CalmNet'
    BY <2>1, <2>2 DEF CalmNet, Settled, OneWay, Drained, FailureHealed, Linked
  <2> QED BY <1>0, <2>1, <2>2, <2>3 DEF CalmInv
<1>4. CASE UNCHANGED sessionVars
  <2>1. /\ client' = client /\ toServer' = toServer /\ toClient' = toClient /\ calm' = calm
        /\ UNCHANGED serverVars
    BY <1>4 DEF sessionVars, clientVars
  <2>2. PeerSession' = PeerSession /\ drawn' = drawn
    BY <2>1, PeerUntouched
  <2>3. CalmNet => CalmNet'
    BY <2>1, <2>2 DEF CalmNet, Asking, Refused, Invited, Settled, OneWay, Drained, FailureHealed, Linked,
                      LinkHolds, Agrees
  <2> QED BY <1>0, <2>1, <2>2, <2>3 DEF CalmInv
<1> QED BY <1>1, <1>2, <1>3, <1>4 DEF SessionNext

LEMMA CalmInvariant == SessionSpec => [](SessionInv /\ CalmInv)
  BY SessionStarts, SessionStep, CalmStarts, CalmKept, PTL DEF SessionSpec

(* Whatever state an unreliable network left client and server in, of two  *)
(* handshakes in a row over a calm network at least one succeeds: the      *)
(* refusal of the first deletes the server's block, nothing the client     *)
(* sends in between makes a new one, and a SYN without a session is always *)
(* answered with a SYN-ACK, for every table, window and sequence number.   *)
THEOREM RetryAlwaysSucceeds == SessionSpec => []RetrySucceeds
<1>1. CalmInv => RetrySucceeds
  BY DEF CalmInv, CalmNet, RetrySucceeds
<1> QED BY <1>1, CalmInvariant, PTL

(* An open session is an established block.                                *)
LEMMA SessionHasBlock ==
  ASSUME ServerInv, PeerSession.state = "open"
  PROVE  \E tcb \in Blocks : /\ tcb.state = "CON_ESTABLISHED"
                             /\ tcb.send.next = Add32(PeerSession.iss, 1)
                             /\ tcb.recv.next = Add32(PeerSession.irs, 1)
<1>1. SoundBlocks(store) /\ StoreOK(store) /\ c \in ID
  BY PeerListens DEF ServerInv, SoundBlocks
<1>2. PICK p \in Live(store) : store.heap[p].id = c
  <2>1. ASSUME \A p \in Live(store) : store.heap[p].id # c PROVE FALSE
    BY <1>1, <2>1, SessionNone, SessionsNow DEF PeerSession, NoSession
  <2> QED BY <2>1
<1> DEFINE t == store.heap[p]
<1>3. PeerSession = SessionOf(t)
  BY <1>1, <1>2, SessionAt, SessionsNow DEF PeerSession
<1>4. t \in TCB /\ NumbersAgree(t) /\ t \in Blocks
  BY <1>1 DEF SoundBlocks, StoreOK, StoreType, Blocks
<1>5. t.state \in Con_State
  BY <1>4, BlockFields
<1> HIDE DEF t
<1>6. t.state = "CON_ESTABLISHED"
  BY <1>3, <1>5 DEF SessionOf, Con_State
<1>7. PeerSession = [state |-> "open", iss |-> t.send.iss, irs |-> t.recv.irs]
  BY <1>3, <1>6 DEF SessionOf
<1>8. t.send.next = Add32(PeerSession.iss, 1) /\ t.recv.next = Add32(PeerSession.irs, 1)
  BY <1>4, <1>6, <1>7 DEF NumbersAgree
<1> QED BY <1>4, <1>6, <1>8

(* A handshake that succeeds over a calm network links the two ends, and   *)
(* they stay linked: once its ACK has arrived the server holds an          *)
(* established block whose numbers are the client's, whatever the client   *)
(* sends or closes before its next handshake.                              *)
THEOREM LinksAgree == SessionSpec => []LinkAgrees
<1>1. ASSUME SessionInv, CalmInv, client.last = "linked", Drained, Sub32(client.their_seq, 1) \in drawn
      PROVE  PeerSession.state = "open" /\ Agrees
  <2>1. CalmNet /\ Linked
    BY <1>1 DEF CalmInv, Linked
  <2>2. client.waits # "handshake"
    BY <1>1, <2>1 DEF CalmNet, Asking, Refused, Invited, Drained
  <2>3. LinkHolds
    BY <2>1, <2>2 DEF CalmNet, Settled
  <2> QED BY <1>1, <2>3 DEF LinkHolds, Drained
<1>2. SessionInv /\ CalmInv => LinkAgrees
  BY <1>1, SessionHasBlock DEF LinkAgrees, Agrees, SessionInv
<1> QED BY <1>2, CalmInvariant, PTL
=============================================================================
