------------------------ MODULE LegacySessionProofs ------------------------
(***************************************************************************)
(* The legacy server and its client over a network that loses, repeats,    *)
(* delays and reorders, or over a calm one: both ends of an established    *)
(* connection agree on their initial numbers, no two responses share a     *)
(* number, and over a calm network the two ends stay in step, for every    *)
(* width, number of calls and deliveries, request and response length.     *)
(***************************************************************************)
EXTENDS LegacySession, FiniteSetTheorems, SequenceTheorems, TLAPS

(* What the session needs to know of a block.                              *)
View(t) == [iss |-> t.send.iss, irs |-> t.recv.irs, next |-> t.send.next,
            state |-> t.state]
Peer == {View(states[i]) : i \in 1 .. Len(states)}

(* How far the numbers may have been counted: methods that have ended, and *)
(* segments the server has read, which over a calm network are those sent  *)
(* less those on their way.                                                *)
Pend   == IF client.waits = "menu" THEN 0 ELSE 1
Served == IF calm THEN 2 * calls - Cardinality(toServer) - Pend ELSE deliveries
Count  == calls - Pend + Served
Limit(n) == 1 + MaxBody * n

(* A number counted from 0, as those of a reset are, or from a number the  *)
(* client has heard.                                                       *)
InPlay(H, lim, a, lo) ==
  \E b \in {h.iss : h \in H} \cup {0} : lo <= Sub32(a, b) /\ Sub32(a, b) <= lim

Pair == [iss : IssValues, irs : SeqNum]
PairOf(v) == [iss |-> v.iss, irs |-> v.irs]
PairIn(r) == [iss |-> r.seq, irs |-> Sub32(r.ack, 1)]
SynAcks   == {r \in toClient : "SYN" \in r.flags}
Responses == {r \in toClient : r.len > 0}
PairsSent == {PairIn(r) : r \in SynAcks}
Pairs     == {PairOf(v) : v \in Peer} \cup PairsSent \cup heard

-----------------------------------------------------------------------------
(***************************************************************************)
(* The inductive invariant.                                                *)
(***************************************************************************)
Client == [waits : {"menu", "handshake", "send_data", "close"}, my_seq : SeqNum, their_seq : SeqNum,
           state : {"CLOSED", "ESTABLISHED"}, len : 0 .. SeqMod - 3,
           last : {"none", "linked", "failed", "stuck"}]
ToServer == [flags : SUBSET Flag, seq : SeqNum, ack : SeqNum, len : 0 .. SeqMod - 3]
ToClient == [flags : SUBSET Flag, seq : SeqNum, ack : SeqNum, len : 0 .. MaxBody]
PeerType == [iss : IssValues, irs : SeqNum, next : SeqNum, state : TCP_State]

(* The list holds the one client's block, or none.                         *)
Listed == /\ states \in Seq(TCB) /\ Len(states) <= 1
          /\ \A i \in 1 .. Len(states) : states[i].id = c

Typed == /\ client \in Client /\ heard \cup PairsSent \subseteq Pair /\ calm \in BOOLEAN
         /\ toServer \subseteq ToServer /\ IsFiniteSet(toServer) /\ toClient \subseteq ToClient
         /\ Peer \subseteq PeerType

Counted == /\ calls \in 0 .. MaxCalls /\ deliveries \in Nat /\ Pend <= calls /\ Served \in Nat
           /\ ~calm => deliveries <= MaxDeliveries

(* What the client sends acknowledges only numbers in play; what the       *)
(* server sends but a SYN-ACK is numbered by them.                         *)
FromClient(m, H, lim) == /\ "ACK" \in m.flags => InPlay(H, lim, m.ack, 1)
                         /\ "SYN" \in m.flags => m.flags = {"SYN"}
FromServer(r, H, lim) == /\ "SYN" \notin r.flags => InPlay(H, lim, r.seq, 0)
                         /\ "SYN" \in r.flags => r.flags = {"SYN", "ACK"} /\ r.len = 0
Sent(lim)    == \A m \in toServer : FromClient(m, heard, lim)
Replied(lim) == \A r \in toClient : FromServer(r, heard, lim)
Expects(lim) == client.state = "ESTABLISHED" => InPlay(heard, lim, client.their_seq, 1)

(* An initial number is drawn once, so it stands for one pair.             *)
DrawnOnce == \A x, y \in Pairs : x.iss \in drawn /\ (x.iss = y.iss => x.irs = y.irs)

Counting(v, H, lim) == /\ 1 <= Sub32(v.next, v.iss) /\ Sub32(v.next, v.iss) <= lim
                       /\ IF v.state = "TCP_SYN_RECEIVED" THEN v.next = Add32(v.iss, 1)
                                                          ELSE PairOf(v) \in H
Counters(lim) == \A v \in Peer : Counting(v, heard, lim)

(* A response is counted from a number the client heard; those of the      *)
(* present connection lie behind its next number, and no two overlap.      *)
Within(r, b, lim) == 1 <= Sub32(r.seq, b) /\ Sub32(r.seq, b) + r.len <= lim
Numbered(lim) == \A r \in Responses : \E h \in heard : Within(r, h.iss, lim)
Behind == \A v \in Peer, r \in Responses :
            Sub32(r.seq, v.iss) <= Reach => Sub32(r.seq, v.iss) + r.len <= Sub32(v.next, v.iss)

Conversation(lim) == /\ Sent(lim) /\ Replied(lim) /\ Expects(lim) /\ Counters(lim) /\ Numbered(lim)

SessionInv == /\ Listed /\ Typed /\ Counted /\ Conversation(Limit(Count))
              /\ DrawnOnce /\ Behind /\ ResponsesDisjoint

-----------------------------------------------------------------------------
(***************************************************************************)
(* Arithmetic.                                                             *)
(***************************************************************************)
LEMMA SeqFacts == SeqMod \in Nat /\ SeqMod >= 4 /\ 0 \in SeqNum /\ 1 \in SeqNum /\ 0 \in 0 .. SeqMod - 3
<1>1. W16 \in Nat /\ W16 >= 2
  BY W16Assumption
<1>2. W16 * W16 \in Nat /\ W16 * W16 >= 4
  BY <1>1
<1> QED BY <1>2 DEF SeqMod, SeqNum

LEMMA BodyFacts ==
  /\ MaxBody \in Nat /\ MaxBody >= 1 /\ MaxBody < SeqMod
  /\ \A b \in Body : BodyLen[b] \in 1 .. MaxBody
<1> DEFINE S == {BodyLen[b] : b \in Body}
           Top(n) == \A b \in Body : BodyLen[b] <= n
<1>1. \A b \in Body : BodyLen[b] \in Nat /\ BodyLen[b] >= 1 /\ BodyLen[b] < SeqMod
  BY BodyAssumption, SeqFacts DEF SeqNum
<1>2. \E n \in S : Top(n)
  <2> DEFINE Le(x, y) == BodyLen[x] <= BodyLen[y]
             Larger(x, y) == IF Le(x, y) THEN y ELSE x
             p == Larger("200_OK", "400_Bad_Request")
             q == Larger("404_Not_Found", "500_Internal_Server_Error")
  <2>1. p \in Body /\ Le("200_OK", p) /\ Le("400_Bad_Request", p)
    BY <1>1 DEF Body
  <2>2. q \in Body /\ Le("404_Not_Found", q) /\ Le("500_Internal_Server_Error", q)
    BY <1>1 DEF Body
  <2> HIDE DEF p, q
  <2>3. Larger(p, q) \in Body /\ Le(p, Larger(p, q)) /\ Le(q, Larger(p, q))
    BY <1>1, <2>1, <2>2
  <2> DEFINE t == Larger(p, q)
  <2> HIDE DEF t
  <2>4. t \in Body /\ \A b \in Body : BodyLen[b] <= BodyLen[t]
    BY <1>1, <2>1, <2>2, <2>3 DEF Body, t
  <2> QED BY <2>4
<1>3. MaxBody \in S /\ Top(MaxBody)
  BY <1>2 DEF MaxBody
<1> QED BY <1>1, <1>3

LEMMA Bounds == /\ MaxCalls \in Nat /\ MaxDeliveries \in Nat /\ MaxReads \in Nat
                /\ Reach \in Nat /\ Reach < SeqMod /\ Reach >= 1
<1>1. MaxCalls \in Nat /\ MaxDeliveries \in Nat /\ Reach < SeqMod
  BY BoundAssumption
<1>2. MaxReads \in Nat
  BY <1>1 DEF MaxReads
<1>3. MaxBody * (MaxCalls + MaxReads) \in Nat
  BY <1>1, <1>2, BodyFacts
<1> QED BY <1>1, <1>2, <1>3 DEF Reach

LEMMA LimitGrows ==
  ASSUME NEW m \in Nat, NEW n \in Nat
  PROVE  /\ Limit(m) \in Nat /\ Limit(m) >= 1
         /\ m <= n => Limit(m) <= Limit(n)
         /\ m < n => Limit(m) + MaxBody <= Limit(n)
<1> DEFINE B == MaxBody
<1>1. B \in Nat
  BY BodyFacts
<1> HIDE DEF B
<1>2. B * m \in Nat /\ B * n \in Nat
  BY <1>1
<1>3. m <= n => B * m <= B * n
  BY <1>1
<1>4. m < n => B * (m + 1) <= B * n
  BY <1>1
<1>5. B * (m + 1) = B * m + B
  BY <1>1
<1> QED BY <1>1, <1>2, <1>3, <1>4, <1>5 DEF Limit, B

LEMMA InReach ==
  ASSUME NEW n \in Nat, n <= MaxCalls + MaxReads
  PROVE  Limit(n) <= Reach
<1>1. MaxCalls + MaxReads \in Nat
  BY Bounds
<1>2. Limit(n) <= Limit(MaxCalls + MaxReads)
  BY <1>1, LimitGrows
<1> QED BY <1>2 DEF Limit, Reach

LEMMA AddInRange == ASSUME NEW a \in SeqNum, NEW b \in SeqNum PROVE Add32(a, b) \in SeqNum
  BY SeqFacts DEF Add32, SeqNum

(* Counting on from a number that is a certain way from b.                 *)
LEMMA OffAdd ==
  ASSUME NEW a \in SeqNum, NEW b \in SeqNum, NEW n \in Nat, Sub32(a, b) + n <= Reach
  PROVE  Add32(a, n) \in SeqNum /\ Sub32(Add32(a, n), b) = Sub32(a, b) + n
  BY SeqFacts, Bounds DEF Add32, Sub32, SeqNum

LEMMA OffRange == ASSUME NEW a \in SeqNum, NEW b \in SeqNum PROVE Sub32(a, b) \in SeqNum
  BY SeqFacts DEF Sub32, SeqNum

LEMMA OffOne ==
  ASSUME NEW b \in SeqNum
  PROVE  /\ Sub32(Add32(b, 1), b) = 1 /\ Sub32(Add32(b, 1), 1) = b /\ Sub32(b, b) = 0
         /\ Sub32(b, 1) \in SeqNum /\ Add32(b, 1) \in SeqNum
  BY SeqFacts DEF Sub32, Add32, SeqNum

(* The initial numbers are too far apart for a number to be in reach of    *)
(* two of them, and for the one after a SYN-ACK to be in reach of another. *)
LEMMA IssTyped == IssValues \subseteq SeqNum /\ 0 \notin IssValues
  BY InputAssumption, SpacingAssumption

LEMMA OneBase ==
  ASSUME NEW s \in IssValues, NEW b \in IssValues, NEW a \in SeqNum,
         Sub32(a, s) <= Reach, Sub32(a, b) <= Reach
  PROVE  b = s
<1>1. s \in 0 .. SeqMod - 1 /\ b \in 0 .. SeqMod - 1 /\ a \in 0 .. SeqMod - 1
  BY IssTyped DEF SeqNum
<1>2. (b = s \/ Sub32(s, b) > Reach) /\ (s = b \/ Sub32(b, s) > Reach)
  BY SpacingAssumption
<1>3. Sub32(s, b) <= Reach \/ Sub32(b, s) <= Reach
  BY <1>1, SeqFacts, Bounds DEF Sub32
<1>4. Sub32(s, b) \in Int /\ Sub32(b, s) \in Int /\ Reach \in Int
  BY <1>1, SeqFacts, Bounds DEF Sub32
<1> QED BY <1>2, <1>3, <1>4

LEMMA AckedBase ==
  ASSUME NEW s \in IssValues, NEW b \in IssValues \cup {0},
         1 <= Sub32(Add32(s, 1), b), Sub32(Add32(s, 1), b) <= Reach
  PROVE  b = s
<1>1. s \in 0 .. SeqMod - 1 /\ b \in 0 .. SeqMod - 1
  BY IssTyped, SeqFacts DEF SeqNum
<1>2. b = s \/ Sub32(s, b) > Reach
  BY SpacingAssumption
<1>3. Sub32(s, b) <= Reach
  BY <1>1, SeqFacts, Bounds DEF Sub32, Add32
<1>4. Sub32(s, b) \in Int /\ Reach \in Int
  BY <1>1, SeqFacts, Bounds DEF Sub32
<1> QED BY <1>2, <1>3, <1>4

-----------------------------------------------------------------------------
(***************************************************************************)
(* What holds stays so when more is heard and more is counted.             *)
(***************************************************************************)
LEMMA InPlayMore ==
  ASSUME NEW G, NEW H, G \subseteq H, H \subseteq Pair, NEW l \in Nat, NEW n \in Nat, l <= n,
         NEW a \in SeqNum, NEW lo, InPlay(G, l, a, lo)
  PROVE  InPlay(H, n, a, lo)
<1>1. PICK b \in {h.iss : h \in G} \cup {0} : lo <= Sub32(a, b) /\ Sub32(a, b) <= l
  BY DEF InPlay
<1>2. b \in {h.iss : h \in H} \cup {0} /\ b \in SeqNum
  BY IssTyped, SeqFacts DEF Pair
<1>3. Sub32(a, b) \in SeqNum
  BY <1>2, OffRange
<1>4. Sub32(a, b) <= n
  BY <1>1, <1>3, SeqFacts DEF SeqNum
<1> QED BY <1>1, <1>2, <1>4 DEF InPlay

LEMMA ClientMore ==
  ASSUME NEW G, NEW H, G \subseteq H, H \subseteq Pair, NEW l \in Nat, NEW n \in Nat, l <= n,
         NEW m \in ToServer, FromClient(m, G, l)
  PROVE  FromClient(m, H, n)
<1>1. m.ack \in SeqNum
  BY DEF ToServer
<1> QED BY <1>1, InPlayMore DEF FromClient

LEMMA ServerMore ==
  ASSUME NEW G, NEW H, G \subseteq H, H \subseteq Pair, NEW l \in Nat, NEW n \in Nat, l <= n,
         NEW r \in ToClient, FromServer(r, G, l)
  PROVE  FromServer(r, H, n)
<1>1. r.seq \in SeqNum
  BY DEF ToClient
<1> QED BY <1>1, InPlayMore DEF FromServer

LEMMA WithinMore ==
  ASSUME NEW r \in ToClient, NEW b \in SeqNum, NEW l \in Nat, NEW n \in Nat, l <= n, Within(r, b, l)
  PROVE  Within(r, b, n)
<1>1. Sub32(r.seq, b) \in Int /\ r.len \in Int
  BY OffRange, SeqFacts, BodyFacts DEF ToClient, SeqNum
<1> QED BY <1>1 DEF Within

LEMMA CountingMore ==
  ASSUME NEW v \in PeerType, NEW G, NEW H, G \subseteq H, NEW l \in Nat, NEW n \in Nat, l <= n,
         Counting(v, G, l)
  PROVE  Counting(v, H, n)
<1>1. Sub32(v.next, v.iss) \in Int
  <2>1. v.next \in SeqNum /\ v.iss \in SeqNum
    BY IssTyped DEF PeerType
  <2>2. Sub32(v.next, v.iss) \in SeqNum
    BY <2>1, OffRange
  <2> QED BY <2>2, SeqFacts DEF SeqNum
<1>2. 1 <= Sub32(v.next, v.iss) /\ Sub32(v.next, v.iss) <= n
  BY <1>1 DEF Counting
<1> QED BY <1>2 DEF Counting

CountOK == /\ Count \in Nat /\ Limit(Count) \in Nat /\ Limit(Count) >= 1 /\ Limit(Count) <= Reach
           /\ Pend \in {0, 1} /\ Cardinality(toServer) \in Nat

LEMMA CountFacts == Counted /\ IsFiniteSet(toServer) => CountOK
<1> SUFFICES ASSUME Counted, IsFiniteSet(toServer) PROVE CountOK
  OBVIOUS
<1>1. /\ calls \in 0 .. MaxCalls /\ Pend \in {0, 1} /\ Pend <= calls /\ Served \in Nat /\ deliveries \in Nat
      /\ ~calm => deliveries <= MaxDeliveries
  BY DEF Counted, Pend
<1>2. Cardinality(toServer) \in Nat
  BY FS_CardinalityType
<1>3. Served <= MaxReads
  <2>1. CASE calm
    <3>1. Served <= 2 * calls
      BY <1>1, <1>2, <2>1, Bounds DEF Served
    <3>2. 2 * MaxCalls <= MaxReads
      BY Bounds DEF MaxReads
    <3> QED BY <1>1, <3>1, <3>2, Bounds
  <2>2. CASE ~calm
    <3>1. Served = deliveries
      BY <2>2 DEF Served
    <3>2. MaxDeliveries <= MaxReads
      BY Bounds DEF MaxReads
    <3> QED BY <1>1, <2>2, <3>1, <3>2, Bounds
  <2> QED BY <2>1, <2>2
<1>4. Count \in Nat /\ Count <= MaxCalls + MaxReads
  BY <1>1, <1>3, Bounds DEF Count
<1> QED BY <1>1, <1>2, <1>4, InReach, LimitGrows DEF CountOK

(* The bounds hold before and after a step.                                *)
LEMMA CountNow == ASSUME SessionInv PROVE CountOK
  BY CountFacts DEF SessionInv, Typed

LEMMA CountNext == ASSUME Counted', IsFiniteSet(toServer)' PROVE CountOK'
  BY CountFacts, PTL

-----------------------------------------------------------------------------
(***************************************************************************)
(* Steps of the client leave the server alone.                             *)
(***************************************************************************)
LEMMA ServerUntouched ==
  ASSUME UNCHANGED vars
  PROVE  Peer' = Peer /\ (Listed => Listed')
  BY DEF vars, Peer, Listed

LEMMA ClientFrame ==
  ASSUME SessionInv, UNCHANGED serverVars, Typed', Counted', Count <= Count',
         \A m \in toServer' : m \in toServer \/ FromClient(m, heard', Limit(Count')),
         toClient' \subseteq toClient, heard \subseteq heard', heard' \subseteq heard \cup PairsSent,
         client'.state = "ESTABLISHED" => InPlay(heard', Limit(Count'), client'.their_seq, 1)
  PROVE  SessionInv'
<1> DEFINE l == Limit(Count)
           n == Limit(Count')
<1>1. Peer' = Peer /\ Listed' /\ drawn' = drawn
  BY ServerUntouched DEF SessionInv, serverVars
<1>2. heard' \subseteq Pair /\ toServer \subseteq ToServer /\ toClient \subseteq ToClient /\ Peer \subseteq PeerType
  BY DEF SessionInv, Typed
<1>3. l \in Nat /\ n \in Nat /\ l <= n /\ Count \in Nat /\ Count' \in Nat
  <2>1. Count \in Nat /\ Count' \in Nat /\ l \in Nat /\ n \in Nat
    BY CountNow, CountNext DEF Typed, CountOK
  <2> QED BY <2>1, LimitGrows
<1>4. Conversation(l)
  BY DEF SessionInv
<1> HIDE DEF l, n
<1>5. \A m \in toServer' : FromClient(m, heard', n)
  BY <1>2, <1>3, <1>4, ClientMore DEF Conversation, Sent, n
<1>6. \A r \in toClient' : FromServer(r, heard', n)
  BY <1>2, <1>3, <1>4, ServerMore DEF Conversation, Replied
<1>7. \A v \in Peer' : Counting(v, heard', n)
  BY <1>1, <1>2, <1>3, <1>4, CountingMore DEF Conversation, Counters
<1>8. Responses' \subseteq Responses
  BY DEF Responses
<1>9. \A r \in Responses' : \E h \in heard' : Within(r, h.iss, n)
  <2> SUFFICES ASSUME NEW r \in Responses PROVE \E h \in heard' : Within(r, h.iss, n)
    BY <1>8
  <2>1. PICK h \in heard : Within(r, h.iss, l)
    BY <1>4 DEF Conversation, Numbered
  <2>2. h.iss \in SeqNum /\ r \in ToClient
    BY <1>2, IssTyped DEF Pair, Responses
  <2> QED BY <1>3, <2>1, <2>2, WithinMore
<1>10. Conversation(Limit(Count))'
  BY <1>5, <1>6, <1>7, <1>9 DEF Conversation, Sent, Replied, Expects, Counters, Numbered, n
<1>11. DrawnOnce'
  <2>1. Pairs' \subseteq Pairs
    BY <1>1 DEF Pairs, PairsSent, SynAcks
  <2> QED BY <1>1, <2>1 DEF SessionInv, DrawnOnce
<1>12. Behind' /\ ResponsesDisjoint'
  BY <1>1, <1>8 DEF SessionInv, Behind, ResponsesDisjoint, Responses
<1> QED BY <1>1, <1>10, <1>11, <1>12 DEF SessionInv

LEMMA LimitNext ==
  ASSUME SessionInv, Counted', IsFiniteSet(toServer)', Count <= Count'
  PROVE  /\ Count \in Nat /\ Count' \in Nat /\ Limit(Count) \in Nat /\ Limit(Count') \in Nat
         /\ Limit(Count) <= Limit(Count') /\ Limit(Count') <= Reach
         /\ Count < Count' => Limit(Count) + MaxBody <= Limit(Count')
<1>1. Count \in Nat /\ Count' \in Nat /\ Limit(Count) \in Nat /\ Limit(Count') \in Nat /\ Limit(Count') <= Reach
  BY CountNow, CountNext DEF CountOK
<1> QED BY <1>1, LimitGrows

LEMMA StillExpects ==
  ASSUME SessionInv, Counted', IsFiniteSet(toServer)', Count <= Count', heard \subseteq heard',
         heard' \subseteq Pair, client.state = "ESTABLISHED"
  PROVE  InPlay(heard', Limit(Count'), client.their_seq, 1)
<1>1. InPlay(heard, Limit(Count), client.their_seq, 1) /\ client.their_seq \in SeqNum
  BY DEF SessionInv, Conversation, Expects, Typed, Client
<1> QED BY <1>1, LimitNext, InPlayMore

LEMMA Tally ==
  ASSUME NEW a \in Nat, NEW b \in Nat, NEW p \in Nat, NEW q \in Nat, NEW x \in Nat, NEW y \in Nat,
         NEW k \in Nat, y <= x + k, 2 * (b - a) + p - q >= k
  PROVE  2 * b - y - q >= 2 * a - x - p
  OBVIOUS

LEMMA Total ==
  ASSUME NEW a \in Nat, NEW b \in Nat, NEW p \in Nat, NEW q \in Nat, NEW s \in Nat, NEW t \in Nat, t >= s
  PROVE  b - q + t >= a - p + s + (b - q) - (a - p)
  OBVIOUS

(* The client sends at most k segments in a step, and over a calm network  *)
(* no more than it starts methods for.                                     *)
LEMMA StepCounts ==
  ASSUME SessionInv, UNCHANGED <<deliveries, calm>>, NEW k \in {0, 1},
         IsFiniteSet(toServer)', Cardinality(toServer') <= Cardinality(toServer) + k,
         calls' \in 0 .. MaxCalls, Pend' \in {0, 1}, Pend' <= calls',
         calls' - Pend' >= calls - Pend,
         calm => 2 * (calls' - calls) + Pend - Pend' >= k
  PROVE  Counted' /\ Count' >= Count + (calls' - Pend') - (calls - Pend)
<1>1. /\ calls \in Nat /\ Pend \in {0, 1} /\ Served \in Nat /\ deliveries \in Nat /\ calm \in BOOLEAN
      /\ ~calm => deliveries <= MaxDeliveries
      /\ Cardinality(toServer) \in Nat
  BY CountNow DEF SessionInv, Counted, Typed, CountOK
<1>2. Cardinality(toServer') \in Nat
  BY FS_CardinalityType
<1>3. /\ calls \in Nat /\ calls' \in Nat /\ Pend \in Nat /\ Pend' \in Nat /\ k \in Nat /\ Served \in Nat
      /\ Cardinality(toServer) \in Nat
  BY <1>1, Bounds
<1>4. Served' \in Nat /\ Served' >= Served
  <2>1. CASE calm
    <3>1. Served = 2 * calls - Cardinality(toServer) - Pend
      BY <2>1 DEF Served
    <3>2. Served' = 2 * calls' - Cardinality(toServer') - Pend'
      BY <2>1 DEF Served
    <3>3. Served' >= Served
      <4>1. 2 * (calls' - calls) + Pend - Pend' >= k
        BY <2>1
      <4> QED BY <1>2, <1>3, <3>1, <3>2, <4>1, Tally
    <3>4. Served' \in Int
      BY <1>2, <1>3, <3>2
    <3> QED BY <1>1, <3>3, <3>4
  <2>2. CASE ~calm
    BY <1>1, <2>2 DEF Served
  <2> QED BY <2>1, <2>2
<1>5. Counted'
  BY <1>1, <1>4 DEF Counted
<1>6. Count = calls - Pend + Served /\ Count' = calls' - Pend' + Served'
  BY DEF Count
<1> QED BY <1>3, <1>4, <1>5, <1>6, Total

LEMMA OneMore ==
  ASSUME SessionInv, NEW m, toServer' = toServer \cup {m}
  PROVE  IsFiniteSet(toServer)' /\ Cardinality(toServer') <= Cardinality(toServer) + 1
<1>1. IsFiniteSet(toServer) /\ Cardinality(toServer) \in Nat
  BY CountNow DEF SessionInv, Typed, CountOK
<1> QED BY <1>1, FS_AddElement

LEMMA CallStep ==
  ASSUME SessionInv, UNCHANGED serverVars, NEW method \in {"handshake", "send_data", "close"},
         NEW m \in ToServer, Call(method, m), FromClient(m, heard, Limit(Count))
  PROVE  SessionInv'
<1>1. /\ client \in Client /\ heard \subseteq Pair /\ toServer \subseteq ToServer /\ toClient \subseteq ToClient
      /\ PairsSent \subseteq Pair /\ Peer \subseteq PeerType /\ calm \in BOOLEAN
  BY DEF SessionInv, Typed
<1>2. /\ client.waits = "menu" /\ calls < MaxCalls /\ calls' = calls + 1
      /\ client' = [client EXCEPT !.waits = method, !.len = m.len]
      /\ toServer' = toServer \cup {m} /\ toClient' = toClient /\ heard' = heard /\ calm' = calm
  BY DEF Call
<1>3. UNCHANGED vars /\ deliveries' = deliveries /\ Peer' = Peer
  BY ServerUntouched DEF serverVars
<1>4. /\ client' \in Client /\ client'.waits = method /\ client'.state = client.state
      /\ client'.their_seq = client.their_seq
  BY <1>1, <1>2 DEF Client, ToServer
<1>5. Pend = 0 /\ Pend' = 1
  BY <1>2, <1>4 DEF Pend
<1>6. IsFiniteSet(toServer)' /\ Cardinality(toServer') <= Cardinality(toServer) + 1
  BY <1>2, OneMore
<1>7. calls \in Nat /\ calls' \in 0 .. MaxCalls
  BY <1>2, Bounds DEF SessionInv, Counted
<1>8. Counted' /\ Count' >= Count + (calls' - Pend') - (calls - Pend)
  BY <1>2, <1>3, <1>5, <1>6, <1>7, StepCounts
<1>9. Count <= Count'
  BY <1>2, <1>5, <1>6, <1>7, <1>8, CountNow, CountNext DEF CountOK
<1>10. Typed'
  BY <1>1, <1>2, <1>3, <1>4, <1>6 DEF Typed, PairsSent, SynAcks
<1>11. FromClient(m, heard', Limit(Count'))
  BY <1>1, <1>2, <1>6, <1>8, <1>9, LimitNext, ClientMore
<1>12. client'.state = "ESTABLISHED" => InPlay(heard', Limit(Count'), client'.their_seq, 1)
  BY <1>1, <1>2, <1>4, <1>6, <1>8, <1>9, StillExpects
<1> QED BY <1>2, <1>8, <1>9, <1>10, <1>11, <1>12, ClientFrame

(* A method that ends, having sent one more segment at most, is counted.   *)
LEMMA EndCounts ==
  ASSUME SessionInv, UNCHANGED serverVars, UNCHANGED <<calls, calm>>,
         client.waits # "menu", client'.waits = "menu",
         IsFiniteSet(toServer)', Cardinality(toServer') <= Cardinality(toServer) + 1
  PROVE  /\ Counted' /\ Count < Count' /\ Count <= Count'
         /\ Limit(Count) + MaxBody <= Limit(Count') /\ Limit(Count') \in Nat
<1>1. Pend = 1 /\ Pend' = 0
  BY DEF Pend
<1>2. calls \in 0 .. MaxCalls /\ calls' = calls /\ calls \in Nat
  BY Bounds DEF SessionInv, Counted
<1>3. deliveries' = deliveries
  BY DEF serverVars
<1>4. Counted' /\ Count' >= Count + (calls' - Pend') - (calls - Pend)
  BY <1>1, <1>2, <1>3, StepCounts
<1>5. Count \in Nat /\ Count' \in Nat
  BY <1>4, CountNow, CountNext DEF CountOK
<1>6. Count < Count' /\ Count <= Count'
  BY <1>1, <1>2, <1>4, <1>5
<1> QED BY <1>4, <1>6, LimitNext

LEMMA SameSent ==
  ASSUME SessionInv, toServer' = toServer
  PROVE  IsFiniteSet(toServer)' /\ Cardinality(toServer') <= Cardinality(toServer) + 1
<1>1. IsFiniteSet(toServer) /\ Cardinality(toServer) \in Nat
  BY CountNow DEF SessionInv, Typed, CountOK
<1> QED BY <1>1

LEMMA TypedNow ==
  ASSUME SessionInv
  PROVE  /\ client \in Client /\ heard \subseteq Pair /\ toServer \subseteq ToServer
         /\ toClient \subseteq ToClient /\ PairsSent \subseteq Pair /\ Peer \subseteq PeerType
         /\ calm \in BOOLEAN
  BY DEF SessionInv, Typed

LEMMA StillTyped ==
  ASSUME SessionInv, UNCHANGED serverVars, client' \in Client, heard' \subseteq heard \cup PairsSent,
         toServer' \subseteq ToServer, IsFiniteSet(toServer)', toClient' \subseteq toClient, calm' = calm
  PROVE  Typed'
<1>1. Peer' = Peer
  BY ServerUntouched DEF serverVars
<1>2. PairsSent' \subseteq PairsSent
  BY DEF PairsSent, SynAcks
<1> QED BY <1>1, <1>2, TypedNow DEF Typed

LEMMA Leaves == ASSUME NEW r, toClient' = Received(toClient, r) PROVE toClient' \subseteq toClient
  BY DEF Received

LEMMA GivesUpStep ==
  ASSUME SessionInv, UNCHANGED serverVars, client.waits # "menu", client' = GivesUp,
         toClient' \subseteq toClient, UNCHANGED <<toServer, heard, calls, calm>>
  PROVE  SessionInv'
<1>1. /\ client' \in Client /\ client'.waits = "menu" /\ client'.state = client.state
      /\ client'.their_seq = client.their_seq
  BY TypedNow DEF GivesUp, Client
<1>2. IsFiniteSet(toServer)' /\ Cardinality(toServer') <= Cardinality(toServer) + 1
  BY SameSent
<1>3. Counted' /\ Count <= Count'
  BY <1>1, <1>2, EndCounts
<1>4. Typed'
  BY <1>1, <1>2, TypedNow, StillTyped
<1>5. client'.state = "ESTABLISHED" => InPlay(heard', Limit(Count'), client'.their_seq, 1)
  BY <1>1, <1>2, <1>3, TypedNow, StillExpects
<1> QED BY <1>3, <1>4, <1>5, ClientFrame

LEMMA RestartStep == ASSUME SessionInv, UNCHANGED serverVars, Restart PROVE SessionInv'
<1>1. /\ ~calm /\ calls < MaxCalls /\ calls' = calls + 1 /\ client' = Fresh
      /\ toServer' = toServer /\ toClient' = toClient /\ heard' = heard /\ calm' = calm
  BY DEF Restart
<1>2. client' \in Client /\ client'.waits = "menu" /\ client'.state = "CLOSED"
  BY <1>1, ClientAssumption, SeqFacts DEF Fresh, Client
<1>3. IsFiniteSet(toServer)' /\ Cardinality(toServer') <= Cardinality(toServer) + 1
  BY <1>1, SameSent
<1>4. Pend \in {0, 1} /\ Pend' = 0
  BY <1>2 DEF Pend
<1>5. calls \in Nat /\ calls' \in 0 .. MaxCalls
  BY <1>1, Bounds DEF SessionInv, Counted
<1>6. deliveries' = deliveries
  BY DEF serverVars
<1>7. Counted' /\ Count' >= Count + (calls' - Pend') - (calls - Pend)
  BY <1>1, <1>3, <1>4, <1>5, <1>6, StepCounts
<1>8. Count <= Count'
  <2>1. Count \in Nat /\ Count' \in Nat
    BY <1>3, <1>7, CountNow, CountNext DEF CountOK
  <2> QED BY <1>1, <1>4, <1>5, <1>7, <2>1
<1>9. Typed'
  BY <1>1, <1>2, <1>3, TypedNow, StillTyped
<1> QED BY <1>1, <1>2, <1>7, <1>8, <1>9, ClientFrame

(* The number after a SYN-ACK is in play once it is heard.                 *)
LEMMA GotSynAckStep ==
  ASSUME SessionInv, UNCHANGED serverVars, NEW r \in toClient, GotSynAck(r)
  PROVE  SessionInv'
<1> DEFINE a == Add32(r.seq, 1)
           m == Wire({"ACK"}, r.ack, a, 0)
<1>1. /\ client.waits = "handshake" /\ r.flags = {"SYN", "ACK"}
      /\ client' = [client EXCEPT !.waits = "menu", !.state = "ESTABLISHED",
                                  !.last = IF calm THEN "linked" ELSE @,
                                  !.my_seq = r.ack, !.their_seq = a]
      /\ toServer' = toServer \cup {m} /\ heard' = heard \cup {PairIn(r)}
      /\ toClient' = Received(toClient, r) /\ calls' = calls /\ calm' = calm
  BY DEF GotSynAck, Answers, PairIn
<1>2. r \in ToClient /\ r.seq \in SeqNum /\ r.ack \in SeqNum
  BY TypedNow DEF ToClient
<1>3. PairIn(r) \in PairsSent
  BY <1>1 DEF PairsSent, SynAcks
<1>4. a \in SeqNum /\ Sub32(a, r.seq) = 1
  BY <1>2, OffOne
<1> HIDE DEF a
<1>5. client' \in Client /\ client'.waits = "menu" /\ client'.their_seq = a
  BY <1>1, <1>2, <1>4, TypedNow DEF Client
<1>6. m \in ToServer
  BY <1>2, <1>4, SeqFacts DEF ToServer, Wire, Flag
<1>7. IsFiniteSet(toServer)' /\ Cardinality(toServer') <= Cardinality(toServer) + 1
  BY <1>1, OneMore
<1>8. Counted' /\ Count <= Count'
  BY <1>1, <1>5, <1>7, EndCounts
<1>9. toClient' \subseteq toClient /\ heard' \subseteq heard \cup PairsSent /\ toServer' \subseteq ToServer
  BY <1>1, <1>3, <1>6, Leaves, TypedNow
<1>10. Typed'
  BY <1>1, <1>5, <1>7, <1>9, StillTyped
<1>11. InPlay(heard', Limit(Count'), a, 1)
  <2>1. PairIn(r) \in heard' /\ PairIn(r).iss = r.seq
    BY <1>1 DEF PairIn
  <2>2. r.seq \in {h.iss : h \in heard'} \cup {0}
    BY <2>1
  <2>3. Limit(Count') \in Nat /\ Limit(Count') >= 1
    BY <1>7, <1>8, CountNext DEF CountOK
  <2> QED BY <1>4, <2>2, <2>3 DEF InPlay
<1>12. FromClient(m, heard', Limit(Count'))
  BY <1>11 DEF FromClient, Wire
<1>13. \A x \in toServer' : x \in toServer \/ FromClient(x, heard', Limit(Count'))
  BY <1>1, <1>12
<1>14. client'.state = "ESTABLISHED" => InPlay(heard', Limit(Count'), client'.their_seq, 1)
  BY <1>5, <1>11
<1>15. heard \subseteq heard'
  BY <1>1
<1> QED BY <1>8, <1>9, <1>10, <1>13, <1>14, <1>15, ClientFrame

(* A method that ends allows for one more response.                        *)
LEMMA InPlayOn ==
  ASSUME NEW H, H \subseteq Pair, NEW l \in Nat, NEW n \in Nat, n <= Reach, NEW k \in Nat,
         k <= MaxBody, l + MaxBody <= n, NEW lo \in Nat, NEW a \in SeqNum, InPlay(H, l, a, lo)
  PROVE  Add32(a, k) \in SeqNum /\ InPlay(H, n, Add32(a, k), lo + k)
<1>1. PICK b \in {h.iss : h \in H} \cup {0} : lo <= Sub32(a, b) /\ Sub32(a, b) <= l
  BY DEF InPlay
<1>2. b \in SeqNum
  BY IssTyped, SeqFacts DEF Pair
<1>3. Sub32(a, b) \in Nat
  BY <1>2, OffRange, SeqFacts DEF SeqNum
<1>4. Sub32(a, b) + k <= Reach
  BY <1>1, <1>3, BodyFacts, Bounds
<1>5. Add32(a, k) \in SeqNum /\ Sub32(Add32(a, k), b) = Sub32(a, b) + k
  BY <1>2, <1>4, OffAdd
<1>6. lo + k <= Sub32(Add32(a, k), b) /\ Sub32(Add32(a, k), b) <= n
  BY <1>1, <1>3, <1>5, BodyFacts
<1> QED BY <1>1, <1>5, <1>6 DEF InPlay

LEMMA InPlayLower ==
  ASSUME NEW H, H \subseteq Pair, NEW l \in Nat, NEW a \in SeqNum, NEW lo \in Nat, NEW hi \in Nat,
         lo <= hi, InPlay(H, l, a, hi)
  PROVE  InPlay(H, l, a, lo)
<1>1. PICK b \in {h.iss : h \in H} \cup {0} : hi <= Sub32(a, b) /\ Sub32(a, b) <= l
  BY DEF InPlay
<1>2. b \in SeqNum
  BY IssTyped, SeqFacts DEF Pair
<1>3. Sub32(a, b) \in Nat
  BY <1>2, OffRange, SeqFacts DEF SeqNum
<1> QED BY <1>1, <1>3 DEF InPlay

LEMMA GotResponseStep ==
  ASSUME SessionInv, UNCHANGED serverVars, NEW r \in toClient, GotResponse(r)
  PROVE  SessionInv'
<1> DEFINE a == Add32(client.their_seq, r.len)
<1>1. /\ client.waits = "send_data"
      /\ client' = [client EXCEPT !.waits = "menu", !.my_seq = Add32(@, client.len), !.their_seq = a]
      /\ toClient' = Received(toClient, r)
      /\ toServer' = toServer /\ heard' = heard /\ calls' = calls /\ calm' = calm
  BY DEF GotResponse, Answers
<1>2. /\ r.len \in Nat /\ r.len <= MaxBody /\ r.len \in SeqNum
      /\ client.their_seq \in SeqNum /\ client.my_seq \in SeqNum /\ client.len \in SeqNum
  <2>1. r.len \in 0 .. MaxBody /\ client.their_seq \in SeqNum /\ client.my_seq \in SeqNum /\ client.len \in 0 .. SeqMod - 3
    BY TypedNow DEF ToClient, Client
  <2> QED BY <2>1, BodyFacts, SeqFacts DEF SeqNum
<1>3. a \in SeqNum /\ Add32(client.my_seq, client.len) \in SeqNum
  BY <1>2, AddInRange
<1> HIDE DEF a
<1>4. client' \in Client /\ client'.waits = "menu" /\ client'.their_seq = a /\ client'.state = client.state
  BY <1>1, <1>2, <1>3, TypedNow DEF Client
<1>5. IsFiniteSet(toServer)' /\ Cardinality(toServer') <= Cardinality(toServer) + 1
  BY <1>1, SameSent
<1>6. Counted' /\ Count <= Count' /\ Limit(Count) + MaxBody <= Limit(Count')
  BY <1>1, <1>4, <1>5, EndCounts
<1>7. toClient' \subseteq toClient
  BY <1>1, Leaves
<1>8. Typed'
  BY <1>1, <1>4, <1>5, <1>7, TypedNow, StillTyped
<1>9. client'.state = "ESTABLISHED" => InPlay(heard', Limit(Count'), client'.their_seq, 1)
  <2> SUFFICES ASSUME client.state = "ESTABLISHED" PROVE InPlay(heard, Limit(Count'), a, 1)
    BY <1>1, <1>4
  <2>1. InPlay(heard, Limit(Count), client.their_seq, 1)
    BY DEF SessionInv, Conversation, Expects
  <2>2. /\ Limit(Count) \in Nat /\ Limit(Count') \in Nat /\ Limit(Count') <= Reach
    BY <1>5, <1>6, LimitNext
  <2>3. InPlay(heard, Limit(Count'), a, 1 + r.len)
    BY <1>2, <1>6, <2>1, <2>2, TypedNow, InPlayOn DEF a
  <2> QED BY <1>2, <1>3, <2>2, <2>3, TypedNow, InPlayLower
<1> QED BY <1>1, <1>6, <1>7, <1>8, <1>9, ClientFrame

LEMMA GotFinAckStep ==
  ASSUME SessionInv, UNCHANGED serverVars, NEW r \in toClient, GotFinAck(r)
  PROVE  SessionInv'
<1> DEFINE a == Add32(r.seq, 1)
           s == Add32(client.my_seq, 1)
           m == Wire({"ACK"}, s, a, 0)
<1>1. /\ client.waits = "close" /\ "SYN" \notin r.flags
      /\ client' = [client EXCEPT !.waits = "menu", !.state = "CLOSED", !.their_seq = a]
      /\ toServer' = toServer \cup {m} /\ heard' = heard
      /\ toClient' = Received(toClient, r) /\ calls' = calls /\ calm' = calm
  BY DEF GotFinAck, Answers
<1>2. r \in ToClient /\ r.seq \in SeqNum /\ client.my_seq \in SeqNum
  BY TypedNow DEF ToClient, Client
<1>3. a \in SeqNum /\ s \in SeqNum
  BY <1>2, OffOne
<1>4. InPlay(heard, Limit(Count), r.seq, 0)
  BY <1>1 DEF SessionInv, Conversation, Replied, FromServer
<1>5. client' \in Client /\ client'.waits = "menu" /\ client'.state = "CLOSED"
  <2> HIDE DEF a, s
  <2> QED BY <1>1, <1>3, TypedNow DEF Client
<1>6. m \in ToServer
  <2> HIDE DEF a, s
  <2> QED BY <1>3, SeqFacts DEF ToServer, Wire, Flag
<1>7. IsFiniteSet(toServer)' /\ Cardinality(toServer') <= Cardinality(toServer) + 1
  BY <1>1, OneMore
<1>8. Counted' /\ Count <= Count' /\ Limit(Count) + MaxBody <= Limit(Count')
  BY <1>1, <1>5, <1>7, EndCounts
<1>9. toClient' \subseteq toClient /\ toServer' \subseteq ToServer
  <2> HIDE DEF a, s
  <2> QED BY <1>1, <1>6, Leaves, TypedNow
<1>10. Typed'
  BY <1>1, <1>5, <1>7, <1>9, StillTyped
<1>11. InPlay(heard, Limit(Count'), a, 1)
  <2>1. Limit(Count) \in Nat /\ Limit(Count') \in Nat /\ Limit(Count') <= Reach
    BY <1>7, <1>8, LimitNext
  <2>2. InPlay(heard, Limit(Count'), a, 0 + 1)
    BY <1>2, <1>4, <1>8, <2>1, TypedNow, BodyFacts, InPlayOn
  <2> QED BY <2>2
<1>12. FromClient(m, heard', Limit(Count'))
  BY <1>1, <1>11 DEF FromClient, Wire
<1>13. \A x \in toServer' : x \in toServer \/ FromClient(x, heard', Limit(Count'))
  BY <1>1, <1>12
<1> QED BY <1>1, <1>5, <1>8, <1>9, <1>10, <1>13, ClientFrame

(* Nothing the client does counts.                                         *)
LEMMA UnheardStep ==
  ASSUME SessionInv, UNCHANGED serverVars, NEW r \in toClient, Unheard(r)
  PROVE  SessionInv'
<1>1. /\ toClient' \subseteq toClient /\ client' = client /\ toServer' = toServer /\ heard' = heard
      /\ calls' = calls /\ calm' = calm /\ deliveries' = deliveries
  BY DEF Unheard, serverVars
<1>2. IsFiniteSet(toServer)'
  BY <1>1, SameSent
<1>3. Counted' /\ Count' = Count
  BY <1>1 DEF SessionInv, Counted, Count, Served, Pend
<1>4. Count <= Count'
  BY <1>2, <1>3, CountNow, CountNext DEF CountOK
<1>5. Typed'
  BY <1>1, <1>2, TypedNow, StillTyped
<1>6. client'.state = "ESTABLISHED" => InPlay(heard', Limit(Count'), client'.their_seq, 1)
  BY <1>1, <1>2, <1>3, <1>4, TypedNow, StillExpects
<1> QED BY <1>1, <1>3, <1>4, <1>5, <1>6, ClientFrame

LEMMA KernelResetStep ==
  ASSUME SessionInv, UNCHANGED serverVars, NEW r \in toClient, KernelReset(r)
  PROVE  SessionInv'
<1> DEFINE m == Wire({"RST"}, r.ack, 0, 0)
<1>1. /\ ~calm /\ toServer' = toServer \cup {m} /\ toClient' = toClient /\ client' = client /\ heard' = heard
      /\ calls' = calls /\ calm' = calm /\ deliveries' = deliveries
  BY DEF KernelReset, serverVars
<1>2. IsFiniteSet(toServer)'
  BY <1>1, OneMore
<1>3. Counted' /\ Count' = Count
  BY <1>1 DEF SessionInv, Counted, Count, Served, Pend
<1>4. Count <= Count'
  BY <1>2, <1>3, CountNow, CountNext DEF CountOK
<1>5. m \in ToServer
  <2>1. r.ack \in SeqNum
    BY TypedNow DEF ToClient
  <2> QED BY <2>1, SeqFacts DEF ToServer, Wire, Flag
<1>6. Typed'
  BY <1>1, <1>2, <1>5, TypedNow, StillTyped
<1>7. client'.state = "ESTABLISHED" => InPlay(heard', Limit(Count'), client'.their_seq, 1)
  BY <1>1, <1>2, <1>3, <1>4, TypedNow, StillExpects
<1>8. FromClient(m, heard', Limit(Count'))
  BY DEF FromClient, Wire
<1>9. \A x \in toServer' : x \in toServer \/ FromClient(x, heard', Limit(Count'))
  BY <1>1, <1>8
<1> QED BY <1>1, <1>3, <1>4, <1>6, <1>7, <1>9, ClientFrame

LEMMA ClientKeeps == ASSUME SessionInv, UNCHANGED serverVars, ClientStep PROVE SessionInv'
<1>1. client.my_seq \in SeqNum /\ client.their_seq \in SeqNum
  BY TypedNow DEF Client
<1>2. client.state = "ESTABLISHED" => InPlay(heard, Limit(Count), client.their_seq, 1)
  BY DEF SessionInv, Conversation, Expects
<1>3. CASE Handshake
  <2> DEFINE m == Wire({"SYN"}, client.my_seq, 0, 0)
  <2>1. m \in ToServer /\ FromClient(m, heard, Limit(Count))
    BY <1>1, SeqFacts DEF ToServer, FromClient, Wire, Flag
  <2> QED BY <1>3, <2>1, CallStep DEF Handshake
<1>4. CASE SendData
  <2>1. PICK n \in Requests :
          Call("send_data", Wire({"PSH", "ACK"}, client.my_seq, client.their_seq, n))
    BY <1>4 DEF SendData
  <2> DEFINE m == Wire({"PSH", "ACK"}, client.my_seq, client.their_seq, n)
  <2>2. m \in ToServer
    BY <1>1, ClientAssumption DEF ToServer, Wire, Flag
  <2>3. FromClient(m, heard, Limit(Count))
    BY <1>2, <1>4 DEF FromClient, Wire, SendData
  <2> QED BY <2>1, <2>2, <2>3, CallStep
<1>5. CASE Close
  <2> DEFINE m == Wire({"FIN", "ACK"}, client.my_seq, client.their_seq, 0)
  <2>1. m \in ToServer
    BY <1>1, SeqFacts DEF ToServer, Wire, Flag
  <2>2. FromClient(m, heard, Limit(Count))
    BY <1>2, <1>5 DEF FromClient, Wire, Close
  <2> QED BY <1>5, <2>1, <2>2, CallStep DEF Close
<1>6. CASE Timeout
  BY <1>6, GivesUpStep DEF Timeout
<1>7. CASE Restart
  BY <1>7, RestartStep
<1>8. CASE ClientHears
  <2>1. PICK r \in toClient : \/ GotSynAck(r) \/ GotNoSynAck(r) \/ GotResponse(r)
                              \/ GotFinAck(r) \/ Unheard(r) \/ KernelReset(r)
    BY <1>8 DEF ClientHears
  <2>2. CASE GotNoSynAck(r)
    <3>1. /\ client.waits = "handshake" /\ client' = GivesUp /\ toClient' = Received(toClient, r)
          /\ UNCHANGED <<toServer, heard, calls, calm>>
      BY <2>2 DEF GotNoSynAck, Answers
    <3>2. toClient' \subseteq toClient
      BY <3>1, Leaves
    <3> QED BY <3>1, <3>2, GivesUpStep
  <2> QED BY <2>1, <2>2, GotSynAckStep, GotResponseStep, GotFinAckStep, UnheardStep, KernelResetStep
<1> QED BY <1>3, <1>4, <1>5, <1>6, <1>7, <1>8 DEF ClientStep

-----------------------------------------------------------------------------
(***************************************************************************)
(* A step of the server, by what it does to the block and what it sends.   *)
(***************************************************************************)
LEMMA OneBlock ==
  ASSUME Listed
  PROVE  \/ states = <<>> /\ Peer = {} /\ Positions(c) = {}
         \/ /\ Len(states) = 1 /\ states = <<states[1]>> /\ states[1] \in TCB /\ states[1].id = c
            /\ Peer = {View(states[1])} /\ Positions(c) = {1} /\ tcp_get_state(c) = 1
<1>1. /\ states \in Seq(TCB) /\ Len(states) \in {0, 1}
      /\ \A i \in 1 .. Len(states) : states[i].id = c
  <2>1. states \in Seq(TCB) /\ Len(states) <= 1
    BY DEF Listed
  <2>2. Len(states) \in Nat
    BY <2>1
  <2>3. Len(states) \in {0, 1}
    BY <2>1, <2>2
  <2> QED BY <2>1, <2>3 DEF Listed
<1>2. CASE Len(states) = 0
  <2>1. states = <<>>
    BY <1>1, <1>2
  <2>2. 1 .. Len(states) = {}
    BY <1>2
  <2> QED BY <2>1, <2>2 DEF Peer, Positions
<1>3. CASE Len(states) = 1
  <2>1. 1 .. Len(states) = {1}
    BY <1>3
  <2>2. states = <<states[1]>> /\ states[1] \in TCB
    <3>1. states[1] \in TCB
      BY <1>1, <1>3
    <3>2. <<states[1]>> \in Seq(TCB) /\ Len(<<states[1]>>) = 1 /\ <<states[1]>>[1] = states[1]
      BY <3>1
    <3>3. \A i \in 1 .. Len(states) : states[i] = <<states[1]>>[i]
      BY <2>1, <3>2
    <3> QED BY <1>1, <1>3, <3>1, <3>2, <3>3, SeqEqual
  <2>3. states[1].id = c
    BY <1>1, <2>1
  <2>4. Peer = {View(states[1])}
    BY <2>1 DEF Peer
  <2>5. Positions(c) = {1}
    BY <2>1, <2>3 DEF Positions
  <2>6. tcp_get_state(c) = 1
    <3>1. 1 \in Positions(c) /\ \A j \in Positions(c) : 1 <= j
      BY <2>5
    <3>2. \A i \in Positions(c) : i = 1
      BY <2>5
    <3> QED BY <3>1, <3>2 DEF tcp_get_state
  <2> QED BY <1>3, <2>2, <2>3, <2>4, <2>5, <2>6
<1> QED BY <1>1, <1>2, <1>3

LEMMA BlockAfter ==
  ASSUME NEW t \in TCB, t.id = c, states' = <<t>>
  PROVE  Listed' /\ Peer' = {View(t)} /\ states'[1] = t
<1>1. states' \in Seq(TCB) /\ Len(states') = 1 /\ states'[1] = t
  OBVIOUS
<1>2. 1 .. Len(states') = {1}
  BY <1>1
<1> QED BY <1>1, <1>2 DEF Listed, Peer

LEMMA SameAfter ==
  ASSUME Listed, states' = states
  PROVE  Listed' /\ Peer' = Peer
  BY DEF Listed, Peer

LEMMA NoneAfter ==
  ASSUME states' = <<>>
  PROVE  Listed' /\ Peer' = {}
<1>1. states' \in Seq(TCB) /\ Len(states') = 0 /\ 1 .. Len(states') = {}
  OBVIOUS
<1> QED BY <1>1 DEF Listed, Peer

Sends(r) == toClient' \subseteq toClient \cup {r}

Quiet == Peer' \subseteq Peer /\ toClient' = toClient /\ drawn' = drawn

Refuses(m) ==
  \E r \in ToClient :
    /\ Peer' = Peer /\ drawn' = drawn /\ Sends(r) /\ "SYN" \notin r.flags /\ r.len = 0
    /\ r.seq = 0 \/ ("ACK" \in m.flags /\ r.seq = m.ack)

Opens(m) ==
  \E iss \in IssValues :
    /\ iss \notin drawn /\ drawn' = drawn \cup {iss}
    /\ Peer' = {View(SynReceived(c, m.seq, iss))}
    /\ Sends(Wire({"SYN", "ACK"}, iss, Add32(m.seq, 1), 0))

Becomes(v, w) == PairOf(w) = PairOf(v) /\ w.state # "TCP_SYN_RECEIVED" /\ Peer' = {w}

Confirms(m) ==
  \E v \in Peer, w \in PeerType :
    /\ v.state = "TCP_SYN_RECEIVED" /\ "ACK" \in m.flags /\ m.ack = v.next
    /\ Becomes(v, w) /\ w.next = v.next /\ toClient' = toClient /\ drawn' = drawn

Serves ==
  \E v \in Peer, w \in PeerType, r \in ToClient :
    /\ v.state # "TCP_SYN_RECEIVED" /\ Becomes(v, w) /\ w.next = Add32(v.next, r.len)
    /\ "SYN" \notin r.flags /\ r.seq = v.next /\ Sends(r) /\ drawn' = drawn

LEMMA ReadFields ==
  ASSUME NEW m \in ToServer
  PROVE  /\ Read(m).id = c /\ Read(m).flags = m.flags /\ Read(m).seq = m.seq /\ Read(m).ack = m.ack
         /\ Read(m).len = m.len /\ m.flags \subseteq Flag /\ m.seq \in SeqNum /\ m.ack \in SeqNum
         /\ m.len \in 0 .. SeqMod - 3 /\ m.len \in SeqNum
<1>1. /\ m.flags \subseteq Flag /\ m.seq \in SeqNum /\ m.ack \in SeqNum /\ m.len \in 0 .. SeqMod - 3
  BY DEF ToServer
<1>2. m.len \in SeqNum
  BY <1>1, SeqFacts DEF SeqNum
<1> QED BY <1>1, <1>2 DEF Read

LEMMA Delivered ==
  ASSUME NEW m, Deliver(m)
  PROVE  /\ ~Draws(Read(m)) \/ ~alive' => drawn' = drawn
         /\ Draws(Read(m)) /\ alive' => /\ states'[1].send.iss \notin drawn
                                        /\ drawn' = drawn \cup {states'[1].send.iss}
         /\ out' = None => toClient' = toClient
         /\ Sends(Written(out')) /\ tcp_dispatch(Read(m)) /\ alive
  BY DEF Deliver, Sends, tcp_dispatch

LEMMA QuietStep ==
  ASSUME SessionInv, NEW m \in toServer, Deliver(m), states' = states, out' = None,
         ~Draws(Read(m)) \/ ~alive'
  PROVE  Listed' /\ Quiet
<1>1. Listed
  BY DEF SessionInv
<1> QED BY <1>1, SameAfter, Delivered DEF Quiet

LEMMA RefuseStep ==
  ASSUME SessionInv, NEW m \in toServer, Deliver(m), UnknownOther(Read(m))
  PROVE  Listed' /\ Refuses(m)
<1> DEFINE g == Read(m)
           r == Written(tcp_null_rst(g))
<1>1. Listed /\ m \in ToServer
  BY TypedNow DEF SessionInv
<1>2. /\ g.flags = m.flags /\ g.seq = m.seq /\ g.ack = m.ack /\ m.seq \in SeqNum /\ m.ack \in SeqNum
      /\ g.len \in 0 .. SeqMod - 3
  BY <1>1, ReadFields
<1>3. states' = states /\ out' = tcp_null_rst(g) /\ ~Draws(g)
  BY DEF UnknownOther, Send, Draws, Has
<1>4. Listed' /\ Peer' = Peer /\ drawn' = drawn /\ Sends(r)
  BY <1>1, <1>3, SameAfter, Delivered
<1>5. CASE "ACK" \in m.flags
  <2>1. r = Wire({"RST"}, m.ack, 0, 0)
    BY <1>2, <1>5 DEF Written, Wire, tcp_null_rst, Has
  <2>2. r \in ToClient /\ "SYN" \notin r.flags /\ r.len = 0 /\ r.seq = m.ack
    BY <1>2, <2>1, SeqFacts, BodyFacts DEF ToClient, Wire, Flag
  <2> HIDE DEF r
  <2> QED BY <1>4, <1>5, <2>2 DEF Refuses
<1>6. CASE "ACK" \notin m.flags
  <2> DEFINE a == (g.seq + SegLen(g)) % SeqMod
  <2>1. r = Wire({"RST", "ACK"}, 0, a, 0)
    BY <1>2, <1>6 DEF Written, Wire, tcp_null_rst, Has
  <2>2. SegLen(g) \in Nat
    BY <1>2, SeqFacts DEF SegLen
  <2>3. a \in SeqNum
    BY <1>2, <2>2, SeqFacts DEF SeqNum
  <2> HIDE DEF a
  <2>4. r \in ToClient /\ "SYN" \notin r.flags /\ r.len = 0 /\ r.seq = 0
    BY <2>1, <2>3, SeqFacts, BodyFacts DEF ToClient, Wire, Flag
  <2> HIDE DEF r
  <2> QED BY <1>4, <2>4 DEF Refuses
<1> QED BY <1>5, <1>6

LEMMA ResetStep ==
  ASSUME SessionInv, NEW m \in toServer, Deliver(m), Reset(Read(m))
  PROVE  Listed' /\ Quiet
<1> DEFINE g == Read(m)
<1>1. Listed /\ g.id = c
  BY TypedNow, ReadFields DEF SessionInv
<1>2. out' = None /\ ~Draws(g) /\ Positions(c) # {}
  BY <1>1 DEF Reset, Silent, Draws, Has, Unknown
<1>3. CASE states' = states
  BY <1>2, <1>3, QuietStep
<1>4. CASE states' = tcp_remove_connection(tcp_get_state(g.id))
  <2>1. states \in Seq(TCB) /\ Len(states) = 1 /\ tcp_get_state(c) = 1
    BY <1>1, <1>2, OneBlock DEF Listed
  <2>2. states' = SubSeq(states, 1, 1 - 1) \o SubSeq(states, 1 + 1, 1)
    BY <1>1, <1>4, <2>1 DEF tcp_remove_connection
  <2>3. states' = <<>>
    BY <2>1, <2>2
  <2> QED BY <1>2, <2>3, NoneAfter, Delivered DEF Quiet
<1> QED BY <1>3, <1>4 DEF Reset

LEMMA SynBlock ==
  ASSUME NEW seq \in SeqNum, NEW iss \in IssValues
  PROVE  /\ SynReceived(c, seq, iss) \in TCB /\ SynReceived(c, seq, iss).id = c
         /\ SynReceived(c, seq, iss).send.iss = iss
         /\ Written(SynAck(SynReceived(c, seq, iss))) = Wire({"SYN", "ACK"}, iss, Add32(seq, 1), 0)
<1>1. c \in ID
  BY PeerAssumption DEF c
<1>2. iss \in SeqNum /\ Add32(iss, 1) \in SeqNum /\ Add32(seq, 1) \in SeqNum
  BY IssTyped, OffOne
<1>3. SynReceived(c, seq, iss) \in TCB
  BY <1>1, <1>2 DEF SynReceived, TCB, TCP_State
<1> QED BY <1>3 DEF SynReceived, SynAck, Written, Wire

(* A block is made, or made anew, from a SYN.                              *)
LEMMA OpenStep ==
  ASSUME SessionInv, NEW m \in toServer, Deliver(m), UnknownSyn(Read(m)) \/ RepeatedSyn(Read(m))
  PROVE  Listed' /\ Opens(m)
<1> DEFINE g == Read(m)
<1>1. Listed /\ m \in ToServer /\ g.id = c /\ g.flags = m.flags /\ g.seq = m.seq /\ m.seq \in SeqNum
  BY TypedNow, ReadFields DEF SessionInv
<1>2. "SYN" \in m.flags => m.flags = {"SYN"}
  BY DEF SessionInv, Conversation, Sent, FromClient
<1>3. Draws(g) /\ alive'
  BY <1>1, <1>2, Delivered DEF UnknownSyn, RepeatedSyn, Has, Draws, Send, Silent
<1>4. PICK iss \in IssValues :
        /\ states' = <<SynReceived(c, m.seq, iss)>>
        /\ toClient' = toClient \/ Sends(Wire({"SYN", "ACK"}, iss, Add32(m.seq, 1), 0))
  <2>1. CASE UnknownSyn(g)
    <3>1. PICK iss \in IssValues : /\ states' = Append(states, SynReceived(c, m.seq, iss))
                                   /\ out' = SynAck(SynReceived(c, m.seq, iss))
      BY <1>1, <2>1 DEF UnknownSyn, tcp_insert_tcb, Send
    <3>2. states = <<>>
      BY <1>1, <2>1, OneBlock DEF UnknownSyn, Unknown
    <3>3. states' = <<SynReceived(c, m.seq, iss)>>
      BY <3>1, <3>2
    <3> QED BY <1>1, <3>1, <3>3, SynBlock, Delivered
  <2>2. CASE RepeatedSyn(g)
    <3>1. PICK iss \in IssValues :
            states' = [states EXCEPT ![tcp_get_state(c)] = SynReceived(c, m.seq, iss)]
      BY <1>1, <2>2 DEF RepeatedSyn, Update
    <3>2. states = <<states[1]>> /\ tcp_get_state(c) = 1
      BY <1>1, <2>2, OneBlock DEF RepeatedSyn, In, Known, Unknown
    <3>3. states' = <<SynReceived(c, m.seq, iss)>>
      BY <3>1, <3>2
    <3>4. toClient' = toClient
      BY <2>2, Delivered DEF RepeatedSyn, Silent
    <3> QED BY <3>3, <3>4
  <2> QED BY <2>1, <2>2
<1>5. Listed' /\ Peer' = {View(SynReceived(c, m.seq, iss))} /\ states'[1].send.iss = iss
  BY <1>1, <1>4, SynBlock, BlockAfter
<1>6. iss \notin drawn /\ drawn' = drawn \cup {iss}
  BY <1>3, <1>5, Delivered
<1>7. Sends(Wire({"SYN", "ACK"}, iss, Add32(m.seq, 1), 0))
  BY <1>4 DEF Sends
<1> QED BY <1>5, <1>6, <1>7 DEF Opens

LEMMA TheBlock ==
  ASSUME SessionInv, NEW m \in toServer, NEW s, In(Read(m), s)
  PROVE  /\ Read(m).id = c /\ states = <<states[1]>> /\ states[1] \in TCB /\ states[1].id = c
         /\ Peer = {View(states[1])} /\ tcp_get_state(c) = 1 /\ Block(Read(m)) = states[1]
         /\ states[1].state = s /\ View(states[1]) \in PeerType
         /\ Draws(Read(m)) => s = "TCP_SYN_RECEIVED" /\ m.flags = {"SYN"}
<1>1. Listed /\ m \in ToServer /\ Read(m).id = c /\ Read(m).flags = m.flags /\ Peer \subseteq PeerType
  BY TypedNow, ReadFields DEF SessionInv
<1>2. Positions(c) # {} /\ Block(Read(m)).state = s
  BY <1>1 DEF In, Known, Unknown
<1>3. /\ states = <<states[1]>> /\ states[1] \in TCB /\ states[1].id = c
      /\ Peer = {View(states[1])} /\ tcp_get_state(c) = 1
  BY <1>1, <1>2, OneBlock
<1>4. Block(Read(m)) = states[1]
  BY <1>1, <1>3 DEF Block
<1>5. Draws(Read(m)) => s = "TCP_SYN_RECEIVED" /\ m.flags = {"SYN"}
  BY <1>1, <1>2 DEF Draws, In, Unknown
<1> QED BY <1>1, <1>2, <1>3, <1>4, <1>5

(* A block of the same numbers takes the place of the old one.             *)
LEMMA Replaced ==
  ASSUME NEW t \in TCB, NEW u \in TCB, t.id = c, u.id = c, View(t) \in PeerType,
         states = <<t>>, tcp_get_state(c) = 1, states' = [states EXCEPT ![tcp_get_state(c)] = u],
         u.send.iss = t.send.iss, u.recv.irs = t.recv.irs, u.state # "TCP_SYN_RECEIVED"
  PROVE  /\ Listed' /\ View(u) \in PeerType /\ Becomes(View(t), View(u))
         /\ View(u).next = u.send.next /\ View(t).next = t.send.next
<1>1. states' = <<u>>
  OBVIOUS
<1>2. Listed' /\ Peer' = {View(u)}
  BY <1>1, BlockAfter
<1>3. t.send.iss \in IssValues /\ u.recv.irs \in SeqNum /\ u.send.next \in SeqNum /\ u.state \in TCP_State
  BY DEF View, PeerType, TCB
<1>4. View(u) \in PeerType
  BY <1>3 DEF View, PeerType
<1>5. PairOf(View(u)) = PairOf(View(t)) /\ View(u).state # "TCP_SYN_RECEIVED"
  BY DEF PairOf, View
<1> QED BY <1>2, <1>4, <1>5 DEF Becomes, View

LEMMA ConfirmStep ==
  ASSUME SessionInv, NEW m \in toServer, Deliver(m), FinalAck(Read(m))
  PROVE  Listed' /\ (Quiet \/ Confirms(m))
<1> DEFINE g == Read(m)
           t == states[1]
           u == [t EXCEPT !.state = "TCP_ESTABLISHED", !.send.unac = m.ack]
<1>1. In(g, "TCP_SYN_RECEIVED") /\ "ACK" \in m.flags /\ "SYN" \notin m.flags /\ g.ack = m.ack /\ out' = None
  BY TypedNow, ReadFields DEF FinalAck, Has, Silent
<1>2. /\ g.id = c /\ states = <<t>> /\ t \in TCB /\ t.id = c /\ Peer = {View(t)} /\ tcp_get_state(c) = 1
      /\ Block(g) = t /\ t.state = "TCP_SYN_RECEIVED" /\ View(t) \in PeerType /\ ~Draws(g)
  BY <1>1, TheBlock
<1>3. CASE states' = states
  BY <1>1, <1>2, <1>3, QuietStep
<1>4. CASE m.ack = t.send.next /\ states' = [states EXCEPT ![tcp_get_state(c)] = u]
  <2>1. m.ack \in SeqNum
    BY TypedNow, ReadFields
  <2>2. /\ u \in TCB /\ u.id = c /\ u.send.iss = t.send.iss /\ u.recv.irs = t.recv.irs
        /\ u.state # "TCP_SYN_RECEIVED" /\ u.send.next = t.send.next
    BY <1>2, <2>1 DEF TCB, TCP_State
  <2> HIDE DEF t, u
  <2>3. /\ Listed' /\ View(u) \in PeerType /\ Becomes(View(t), View(u))
        /\ View(u).next = View(t).next /\ View(t).next = t.send.next
    BY <1>2, <1>4, <2>2, Replaced
  <2>4. toClient' = toClient /\ drawn' = drawn
    BY <1>1, <1>2, Delivered
  <2>5. View(t) \in Peer /\ View(t).state = "TCP_SYN_RECEIVED"
    BY <1>2 DEF View
  <2> QED BY <1>1, <1>4, <2>3, <2>4, <2>5 DEF Confirms
<1> QED BY <1>1, <1>2, <1>3, <1>4 DEF FinalAck, Update

(* A FIN or a request is answered with the next n numbers.                 *)
LEMMA ServeStep ==
  ASSUME SessionInv, NEW m \in toServer, Deliver(m), In(Read(m), "TCP_ESTABLISHED"),
         NEW a \in SeqNum, NEW n \in 0 .. MaxBody, NEW s \in {"TCP_ESTABLISHED", "TCP_CLOSE_WAIT"},
         NEW u \in TCB, u.id = c, u.state = s, u.send.iss = states[1].send.iss,
         u.recv.irs = states[1].recv.irs, u.send.next = Add32(states[1].send.next, n),
         states' = [states EXCEPT ![tcp_get_state(c)] = u],
         out' = [to |-> c, seq |-> states[1].send.next, ack |-> a,
                 flags |-> IF n > 0 THEN {"PSH", "ACK"} ELSE {"ACK"}, len |-> n]
  PROVE  Listed' /\ Serves
<1> DEFINE t == states[1]
           r == Written(out')
<1>1. /\ states = <<t>> /\ t \in TCB /\ t.id = c /\ Peer = {View(t)} /\ tcp_get_state(c) = 1
      /\ t.state = "TCP_ESTABLISHED" /\ View(t) \in PeerType /\ ~Draws(Read(m))
  BY TheBlock
<1>2. t.send.next \in SeqNum
  BY <1>1 DEF TCB
<1>3. r \in ToClient /\ "SYN" \notin r.flags /\ r.seq = t.send.next /\ r.len = n
  BY <1>2 DEF Written, Wire, ToClient, Flag
<1>4. drawn' = drawn /\ Sends(r)
  BY <1>1, Delivered
<1> HIDE DEF t, r
<1>5. /\ Listed' /\ View(u) \in PeerType /\ Becomes(View(t), View(u))
      /\ View(u).next = u.send.next /\ View(t).next = t.send.next
  BY <1>1, Replaced DEF t
<1>6. View(t) \in Peer /\ View(t).state # "TCP_SYN_RECEIVED"
  BY <1>1 DEF View
<1>7. View(u).next = Add32(View(t).next, r.len)
  BY <1>3, <1>5 DEF t
<1> QED BY <1>3, <1>4, <1>5, <1>6, <1>7 DEF Serves

LEMMA FinStep ==
  ASSUME SessionInv, NEW m \in toServer, Deliver(m), Fin(Read(m))
  PROVE  Listed' /\ Serves
<1> DEFINE g == Read(m)
           t == states[1]
           a == Add32(m.seq, 1)
           x == [t EXCEPT !.recv.next = a]
           u == [x EXCEPT !.state = "TCP_CLOSE_WAIT"]
<1>1. In(g, "TCP_ESTABLISHED") /\ g.seq = m.seq /\ m.seq \in SeqNum /\ m.flags = g.flags
  BY TypedNow, ReadFields DEF Fin
<1>2. g.id = c /\ t \in TCB /\ t.id = c /\ Block(g) = t
  BY <1>1, TheBlock
<1>3. states' = [states EXCEPT ![tcp_get_state(c)] = u] /\ out' = AckReply(x, 0)
  BY <1>1, <1>2 DEF Fin, Update, Send
<1>4. a \in SeqNum
  BY <1>1, OffOne
<1> HIDE DEF a
<1>5. /\ u \in TCB /\ u.id = c /\ u.state = "TCP_CLOSE_WAIT" /\ u.send.iss = t.send.iss
      /\ u.recv.irs = t.recv.irs /\ u.send.next = t.send.next
      /\ x.id = c /\ x.send.next = t.send.next /\ x.recv.next = a /\ t.send.next \in SeqNum
  BY <1>2, <1>4 DEF TCB, TCP_State
<1>6. u.send.next = Add32(t.send.next, 0)
  BY <1>5, SeqFacts DEF Add32, SeqNum
<1>7. out' = [to |-> c, seq |-> t.send.next, ack |-> a,
              flags |-> IF 0 > 0 THEN {"PSH", "ACK"} ELSE {"ACK"}, len |-> 0]
  BY <1>3, <1>5 DEF AckReply
<1>8. 0 \in 0 .. MaxBody
  BY BodyFacts
<1> QED BY <1>1, <1>3, <1>4, <1>5, <1>6, <1>7, <1>8, ServeStep

LEMMA DataStep ==
  ASSUME SessionInv, NEW m \in toServer, Deliver(m), tcp_handle_data(Read(m))
  PROVE  Listed' /\ Serves
<1> DEFINE g == Read(m)
           t == states[1]
           a == Add32(t.recv.next, m.len)
           x == [t EXCEPT !.recv.next = a]
<1>1. In(g, "TCP_ESTABLISHED") /\ g.len = m.len /\ m.len \in SeqNum /\ m.flags = g.flags
  BY TypedNow, ReadFields DEF tcp_handle_data
<1>2. g.id = c /\ t \in TCB /\ t.id = c /\ Block(g) = t
  BY <1>1, TheBlock
<1>3. PICK body \in http_handle_request(g) :
        LET z == [Block(g) EXCEPT !.recv.next = Add32(@, g.len)]
        IN  Update(g, AfterAck(z, BodyLen[body])) /\ Send(AckReply(z, BodyLen[body]))
  BY DEF tcp_handle_data
<1> DEFINE n == BodyLen[body]
           u == [x EXCEPT !.send.next = Add32(@, n)]
<1>4. states' = [states EXCEPT ![tcp_get_state(c)] = u] /\ out' = AckReply(x, n)
  BY <1>1, <1>2, <1>3 DEF Update, Send, AfterAck
<1>5. n \in 1 .. MaxBody
  BY <1>3, BodyFacts DEF http_handle_request, http_serve_file, Body
<1>6. n \in 0 .. MaxBody /\ n \in SeqNum
  BY <1>5, BodyFacts, SeqFacts DEF SeqNum
<1>7. t.recv.next \in SeqNum /\ t.send.next \in SeqNum
  BY <1>2 DEF TCB
<1>8. a \in SeqNum /\ Add32(t.send.next, n) \in SeqNum
  BY <1>1, <1>6, <1>7, AddInRange
<1> HIDE DEF a, n
<1>9. /\ u \in TCB /\ u.id = c /\ u.state = t.state /\ u.send.iss = t.send.iss
      /\ u.recv.irs = t.recv.irs /\ u.send.next = Add32(t.send.next, n)
      /\ x.id = c /\ x.send.next = t.send.next /\ x.recv.next = a
  BY <1>2, <1>8 DEF TCB
<1>10. out' = [to |-> c, seq |-> t.send.next, ack |-> a,
               flags |-> IF n > 0 THEN {"PSH", "ACK"} ELSE {"ACK"}, len |-> n]
  BY <1>4, <1>9 DEF AckReply
<1>11. t.state = "TCP_ESTABLISHED"
  BY <1>1, TheBlock
<1> QED BY <1>1, <1>4, <1>6, <1>8, <1>9, <1>10, <1>11, ServeStep

LEMMA Shape ==
  ASSUME SessionInv, NEW m \in toServer, Deliver(m)
  PROVE  Listed' /\ (Quiet \/ Refuses(m) \/ Opens(m) \/ Confirms(m) \/ Serves)
<1> DEFINE g == Read(m)
<1>1. g.flags = m.flags
  BY TypedNow, ReadFields
<1>2. ASSUME UnknownReset(g) \/ UnknownSynNoMemory(g) \/ Unexpected(g)
             \/ DataNoMemory(g) \/ NoData(g) \/ CloseWait(g)
      PROVE  Listed' /\ Quiet
  <2>1. states' = states /\ out' = None
    BY <1>2 DEF UnknownReset, UnknownSynNoMemory, Unexpected, DataNoMemory, NoData, CloseWait, Silent
  <2>2. ~Draws(g) \/ ~alive'
    <3>1. CASE UnknownReset(g) \/ Unexpected(g)
      BY <3>1 DEF UnknownReset, Unexpected, Draws, Has
    <3>2. CASE UnknownSynNoMemory(g) \/ DataNoMemory(g)
      BY <3>2 DEF UnknownSynNoMemory, DataNoMemory
    <3>3. CASE NoData(g)
      BY <3>3, TheBlock DEF NoData
    <3>4. CASE CloseWait(g)
      BY <3>4, TheBlock DEF CloseWait
    <3> QED BY <1>2, <3>1, <3>2, <3>3, <3>4
  <2> QED BY <2>1, <2>2, QuietStep
<1>3. \/ UnknownReset(g) \/ UnknownSyn(g) \/ UnknownSynNoMemory(g)
      \/ UnknownOther(g) \/ Reset(g) \/ RepeatedSyn(g) \/ FinalAck(g)
      \/ Unexpected(g) \/ Fin(g) \/ tcp_handle_data(g)
      \/ DataNoMemory(g) \/ NoData(g) \/ CloseWait(g)
  BY Delivered DEF tcp_dispatch
<1> QED BY <1>2, <1>3, RefuseStep, ResetStep, OpenStep, ConfirmStep, FinStep, DataStep

-----------------------------------------------------------------------------
(***************************************************************************)
(* Steps of the server.                                                    *)
(***************************************************************************)
LEMMA DeliverCounts ==
  ASSUME SessionInv, NEW m \in toServer, Deliver(m)
  PROVE  /\ IsFiniteSet(toServer)' /\ toServer' \subseteq toServer /\ Counted' /\ Count <= Count'
         /\ Limit(Count) + MaxBody <= Limit(Count')
         /\ client' = client /\ heard' = heard /\ calls' = calls /\ calm' = calm
<1>1. /\ client' = client /\ heard' = heard /\ calls' = calls /\ calm' = calm
      /\ calm \/ deliveries < MaxDeliveries
      /\ deliveries' = IF calm THEN deliveries ELSE deliveries + 1
      /\ toServer' = IF calm THEN toServer \ {m} ELSE toServer
  BY DEF Deliver, Received
<1>2. /\ IsFiniteSet(toServer) /\ Cardinality(toServer) \in Nat /\ calls \in 0 .. MaxCalls /\ Pend <= calls
      /\ Pend \in {0, 1} /\ Served \in Nat /\ deliveries \in Nat
  BY CountNow DEF SessionInv, Typed, Counted, CountOK
<1>3. Pend' = Pend
  BY <1>1 DEF Pend
<1>4. IsFiniteSet(toServer)' /\ toServer' \subseteq toServer /\ Served' = Served + 1 /\ deliveries' \in Nat
  <2>1. CASE calm
    <3>1. toServer' = toServer \ {m} /\ deliveries' = deliveries
      BY <1>1, <2>1
    <3>2. IsFiniteSet(toServer') /\ Cardinality(toServer') = Cardinality(toServer) - 1
      BY <1>2, <3>1, FS_RemoveElement
    <3>3. /\ Served = 2 * calls - Cardinality(toServer) - Pend
          /\ Served' = 2 * calls - Cardinality(toServer') - Pend
      BY <1>1, <1>3, <2>1 DEF Served
    <3>4. calls \in Nat /\ Pend \in Nat
      BY <1>2, Bounds
    <3>5. Served' = Served + 1
      BY <1>2, <3>2, <3>3, <3>4
    <3> QED BY <1>2, <3>1, <3>2, <3>5
  <2>2. CASE ~calm
    <3>1. toServer' = toServer /\ deliveries' = deliveries + 1 /\ Served = deliveries /\ Served' = deliveries'
      BY <1>1, <2>2 DEF Served
    <3> QED BY <1>2, <3>1
  <2> QED BY <2>1, <2>2
<1>5. ~calm' => deliveries' <= MaxDeliveries
  BY <1>1, <1>2, Bounds
<1>6. Served' \in Nat
  BY <1>2, <1>4
<1>7. Counted'
  BY <1>1, <1>2, <1>3, <1>4, <1>5, <1>6 DEF Counted
<1>8. Count \in Nat /\ Count' = Count + 1
  <2>1. Count = calls - Pend + Served /\ Count' = calls - Pend + Served'
    BY <1>1, <1>3 DEF Count
  <2>2. calls \in Nat /\ Pend \in Nat /\ Count \in Nat
    BY <1>2, Bounds, CountNow DEF CountOK
  <2> QED BY <1>2, <1>4, <2>1, <2>2
<1>9. Count < Count' /\ Count <= Count'
  BY <1>8
<1> QED BY <1>1, <1>4, <1>7, <1>9, LimitNext

LEMMA ServerFrame ==
  ASSUME SessionInv, NEW m \in toServer, Deliver(m), Listed',
         \A r \in toClient' : \/ r \in toClient
                              \/ /\ r \in ToClient /\ FromServer(r, heard, Limit(Count'))
                                 /\ r.len > 0 => \E h \in heard : Within(r, h.iss, Limit(Count'))
                                 /\ "SYN" \in r.flags => PairIn(r) \in Pair,
         \A v \in Peer' : v \in PeerType /\ Counting(v, heard, Limit(Count')),
         DrawnOnce', Behind', ResponsesDisjoint'
  PROVE  SessionInv'
<1> DEFINE l == Limit(Count)
           n == Limit(Count')
<1>1. /\ IsFiniteSet(toServer)' /\ toServer' \subseteq toServer /\ Counted' /\ Count <= Count'
      /\ client' = client /\ heard' = heard /\ calm' = calm
  BY DeliverCounts
<1>2. l \in Nat /\ n \in Nat /\ l <= n
  BY <1>1, LimitNext
<1>3. Conversation(l)
  BY DEF SessionInv
<1>4. Typed'
  <2>1. toClient' \subseteq ToClient
    BY TypedNow
  <2>2. PairsSent' \subseteq Pair
    <3> SUFFICES ASSUME NEW r \in toClient', "SYN" \in r.flags PROVE PairIn(r) \in Pair
      BY DEF PairsSent, SynAcks
    <3>1. CASE r \in toClient
      BY <3>1, TypedNow DEF PairsSent, SynAcks
    <3> QED BY <3>1
  <2> QED BY <1>1, <2>1, <2>2, TypedNow DEF Typed
<1>5. client'.state = "ESTABLISHED" => InPlay(heard', n, client'.their_seq, 1)
  BY <1>1, TypedNow, StillExpects
<1> HIDE DEF l, n
<1>6. \A x \in toServer' : FromClient(x, heard, n)
  BY <1>1, <1>2, <1>3, TypedNow, ClientMore DEF Conversation, Sent
<1>7. \A r \in toClient' : FromServer(r, heard, n)
  <2>1. \A r \in toClient : FromServer(r, heard, n)
    BY <1>2, <1>3, TypedNow, ServerMore DEF Conversation, Replied
  <2> QED BY <2>1 DEF n
<1>8. \A r \in Responses' : \E h \in heard : Within(r, h.iss, n)
  <2> SUFFICES ASSUME NEW r \in toClient', r.len > 0 PROVE \E h \in heard : Within(r, h.iss, n)
    BY DEF Responses
  <2>1. CASE r \in toClient
    <3>1. PICK h \in heard : Within(r, h.iss, l)
      BY <1>3, <2>1 DEF Conversation, Numbered, Responses
    <3>2. h.iss \in SeqNum /\ r \in ToClient
      BY <2>1, TypedNow, IssTyped DEF Pair
    <3> QED BY <1>2, <3>1, <3>2, WithinMore
  <2> QED BY <2>1 DEF n
<1>9. Conversation(Limit(Count))'
  BY <1>1, <1>5, <1>6, <1>7, <1>8 DEF Conversation, Sent, Replied, Expects, Counters, Numbered, n
<1> QED BY <1>1, <1>4, <1>9 DEF SessionInv

LEMMA SamePeer ==
  ASSUME SessionInv, NEW m \in toServer, Deliver(m), NEW v \in Peer
  PROVE  v \in PeerType /\ Counting(v, heard, Limit(Count'))
<1>1. v \in PeerType /\ Counting(v, heard, Limit(Count))
  BY TypedNow DEF SessionInv, Conversation, Counters
<1> QED BY <1>1, DeliverCounts, LimitNext, CountingMore

LEMMA QuietKeeps ==
  ASSUME SessionInv, NEW m \in toServer, Deliver(m), Listed', Quiet
  PROVE  SessionInv'
<1>1. Peer' \subseteq Peer /\ toClient' = toClient /\ drawn' = drawn /\ heard' = heard
  BY DeliverCounts DEF Quiet
<1>2. DrawnOnce' /\ Behind' /\ ResponsesDisjoint'
  <2>1. Pairs' \subseteq Pairs
    BY <1>1 DEF Pairs, PairsSent, SynAcks
  <2>2. DrawnOnce'
    BY <1>1, <2>1 DEF SessionInv, DrawnOnce
  <2>3. Behind' /\ ResponsesDisjoint'
    BY <1>1 DEF SessionInv, Behind, ResponsesDisjoint, Responses
  <2> QED BY <2>2, <2>3
<1> QED BY <1>1, <1>2, SamePeer, ServerFrame

LEMMA RefuseKeeps ==
  ASSUME SessionInv, NEW m \in toServer, Deliver(m), Listed', Refuses(m)
  PROVE  SessionInv'
<1>1. PICK r \in ToClient :
        /\ Peer' = Peer /\ drawn' = drawn /\ Sends(r) /\ "SYN" \notin r.flags /\ r.len = 0
        /\ r.seq = 0 \/ ("ACK" \in m.flags /\ r.seq = m.ack)
  BY DEF Refuses
<1>2. /\ heard' = heard /\ Limit(Count) \in Nat /\ Limit(Count') \in Nat /\ Limit(Count) <= Limit(Count')
  BY DeliverCounts, LimitNext
<1>3. FromServer(r, heard, Limit(Count'))
  <2>1. CASE r.seq = 0
    <3>1. Sub32(r.seq, 0) = 0
      BY <2>1, SeqFacts, OffOne
    <3> QED BY <1>1, <1>2, <3>1 DEF FromServer, InPlay
  <2>2. CASE "ACK" \in m.flags /\ r.seq = m.ack
    <3>1. InPlay(heard, Limit(Count), r.seq, 1) /\ r.seq \in SeqNum
      BY <2>2, TypedNow DEF SessionInv, Conversation, Sent, FromClient, ToClient
    <3>2. InPlay(heard, Limit(Count'), r.seq, 1)
      BY <1>2, <3>1, TypedNow, InPlayMore
    <3>3. InPlay(heard, Limit(Count'), r.seq, 0)
      BY <1>2, <3>1, <3>2, TypedNow, InPlayLower
    <3> QED BY <1>1, <3>3 DEF FromServer
  <2> QED BY <1>1, <2>1, <2>2
<1>4. \A x \in toClient' : x \in toClient \/ x = r
  BY <1>1 DEF Sends
<1>5. Responses' \subseteq Responses /\ Pairs' \subseteq Pairs
  <2>1. Responses' \subseteq Responses
    BY <1>1, <1>4 DEF Responses
  <2>2. SynAcks' \subseteq SynAcks
    BY <1>1, <1>4 DEF SynAcks
  <2>3. PairsSent' \subseteq PairsSent
    BY <2>2 DEF PairsSent
  <2>4. {PairOf(v) : v \in Peer}' = {PairOf(v) : v \in Peer}
    BY <1>1
  <2> QED BY <1>2, <2>1, <2>3, <2>4 DEF Pairs
<1>6. DrawnOnce' /\ Behind' /\ ResponsesDisjoint'
  <2>1. DrawnOnce'
    BY <1>1, <1>5 DEF SessionInv, DrawnOnce
  <2>2. Behind'
    BY <1>1, <1>5 DEF SessionInv, Behind
  <2>3. ResponsesDisjoint'
    BY <1>5 DEF SessionInv, ResponsesDisjoint, Responses
  <2> QED BY <2>1, <2>2, <2>3
<1>7. \A x \in toClient' : \/ x \in toClient
                           \/ /\ x \in ToClient /\ FromServer(x, heard, Limit(Count'))
                              /\ x.len > 0 => \E h \in heard : Within(x, h.iss, Limit(Count'))
                              /\ "SYN" \in x.flags => PairIn(x) \in Pair
  <2>1. ~(r.len > 0)
    BY <1>1
  <2> QED BY <1>1, <1>3, <1>4, <2>1, Zenon
<1>8. \A v \in Peer' : v \in PeerType /\ Counting(v, heard, Limit(Count'))
  BY <1>1, SamePeer
<1> QED BY <1>6, <1>7, <1>8, ServerFrame

(* A SYN is answered with an initial number nobody has heard, and no       *)
(* response is counted from it.                                            *)
LEMMA OpenKeeps ==
  ASSUME SessionInv, NEW m \in toServer, Deliver(m), Listed', Opens(m)
  PROVE  SessionInv'
<1>1. PICK iss \in IssValues :
        /\ iss \notin drawn /\ drawn' = drawn \cup {iss}
        /\ Peer' = {View(SynReceived(c, m.seq, iss))}
        /\ Sends(Wire({"SYN", "ACK"}, iss, Add32(m.seq, 1), 0))
  BY DEF Opens
<1> DEFINE w == View(SynReceived(c, m.seq, iss))
           r == Wire({"SYN", "ACK"}, iss, Add32(m.seq, 1), 0)
           p == [iss |-> iss, irs |-> m.seq]
<1>2. m.seq \in SeqNum /\ iss \in SeqNum
  BY TypedNow, ReadFields, IssTyped
<1>3. Add32(m.seq, 1) \in SeqNum /\ Sub32(Add32(m.seq, 1), 1) = m.seq
  BY <1>2, OffOne
<1>4. Add32(iss, 1) \in SeqNum /\ Sub32(Add32(iss, 1), iss) = 1
  BY <1>2, OffOne
<1>5. /\ w \in PeerType /\ w.iss = iss /\ w.next = Add32(iss, 1) /\ w.state = "TCP_SYN_RECEIVED"
      /\ PairOf(w) = p
  BY <1>2, <1>4 DEF View, SynReceived, PeerType, TCP_State, PairOf
<1>6. /\ r \in ToClient /\ r.flags = {"SYN", "ACK"} /\ r.len = 0 /\ PairIn(r) = p /\ p \in Pair
  BY <1>2, <1>3, BodyFacts DEF Wire, ToClient, PairIn, Pair, Flag
<1>7. heard' = heard /\ Limit(Count') \in Nat /\ Limit(Count') >= 1
  BY DeliverCounts, CountNext DEF CountOK
<1> HIDE DEF w, r, p
<1>8. Peer' = {w} /\ \A x \in toClient' : x \in toClient \/ x = r
  BY <1>1 DEF Sends, w, r
<1>9. Counting(w, heard, Limit(Count'))
  BY <1>4, <1>5, <1>7 DEF Counting
<1>10. FromServer(r, heard, Limit(Count'))
  BY <1>6 DEF FromServer
<1>11. Responses' \subseteq Responses
  BY <1>6, <1>8 DEF Responses
<1>12. Pairs' \subseteq Pairs \cup {p}
  <2>1. {PairOf(v) : v \in Peer}' = {p}
    BY <1>5, <1>8
  <2>2. PairsSent' \subseteq PairsSent \cup {p}
    BY <1>6, <1>8 DEF PairsSent, SynAcks
  <2> QED BY <1>7, <2>1, <2>2 DEF Pairs
<1>13. DrawnOnce'
  <2>1. \A x, y \in Pairs : x.iss \in drawn /\ (x.iss = y.iss => x.irs = y.irs)
    BY DEF SessionInv, DrawnOnce
  <2>2. p.iss = iss
    BY DEF p
  <2>3. \A x, y \in Pairs \cup {p} : x.iss \in drawn' /\ (x.iss = y.iss => x.irs = y.irs)
    BY <1>1, <2>1, <2>2
  <2> QED BY <1>12, <2>3 DEF DrawnOnce
<1>14. Behind'
  <2> SUFFICES ASSUME NEW s \in Responses, Sub32(s.seq, iss) <= Reach PROVE FALSE
    BY <1>5, <1>8, <1>11 DEF Behind
  <2>1. PICK h \in heard : Within(s, h.iss, Limit(Count))
    BY DEF SessionInv, Conversation, Numbered
  <2>2. h.iss \in IssValues /\ s.seq \in SeqNum /\ s.len \in Nat /\ h.iss \in drawn
    <3>1. h \in Pairs /\ h \in Pair /\ s \in ToClient
      BY TypedNow DEF Pairs, Responses
    <3> QED BY <3>1, BodyFacts DEF SessionInv, DrawnOnce, Pair, ToClient
  <2>3. Sub32(s.seq, h.iss) \in Nat
    <3>1. Sub32(s.seq, h.iss) \in SeqNum
      BY <2>2, IssTyped, OffRange
    <3> QED BY <3>1, SeqFacts DEF SeqNum
  <2>4. Sub32(s.seq, h.iss) <= Reach
    BY <2>1, <2>2, <2>3, CountNow, Bounds DEF Within, CountOK
  <2>5. h.iss = iss
    BY <2>2, <2>4, OneBase
  <2> QED BY <1>1, <2>2, <2>5
<1>15. ResponsesDisjoint'
  BY <1>11 DEF SessionInv, ResponsesDisjoint, Responses
<1>16. \A x \in toClient' : \/ x \in toClient
                            \/ /\ x \in ToClient /\ FromServer(x, heard, Limit(Count'))
                               /\ x.len > 0 => \E h \in heard : Within(x, h.iss, Limit(Count'))
                               /\ "SYN" \in x.flags => PairIn(x) \in Pair
  <2>1. ~(r.len > 0)
    BY <1>6
  <2> QED BY <1>6, <1>8, <1>10, <2>1, Zenon
<1>17. \A v \in Peer' : v \in PeerType /\ Counting(v, heard, Limit(Count'))
  BY <1>5, <1>8, <1>9
<1> QED BY <1>13, <1>14, <1>15, <1>16, <1>17, ServerFrame

(* The acknowledged number is in play, and of all that are the block's     *)
(* initial number is the only one in reach: the client has heard it.       *)
LEMMA ConfirmKeeps ==
  ASSUME SessionInv, NEW m \in toServer, Deliver(m), Listed', Confirms(m)
  PROVE  SessionInv'
<1>1. PICK v \in Peer, w \in PeerType :
        /\ v.state = "TCP_SYN_RECEIVED" /\ "ACK" \in m.flags /\ m.ack = v.next
        /\ PairOf(w) = PairOf(v) /\ w.state # "TCP_SYN_RECEIVED" /\ Peer' = {w}
        /\ w.next = v.next /\ toClient' = toClient /\ drawn' = drawn
  BY DEF Confirms, Becomes
<1>2. v \in PeerType /\ Counting(v, heard, Limit(Count'))
  BY SamePeer
<1>3. v.next = Add32(v.iss, 1) /\ v.iss \in IssValues /\ w.iss = v.iss
  BY <1>1, <1>2 DEF Counting, PeerType, PairOf
<1>4. PICK b \in {h.iss : h \in heard} \cup {0} :
        1 <= Sub32(m.ack, b) /\ Sub32(m.ack, b) <= Limit(Count)
  BY <1>1 DEF SessionInv, Conversation, Sent, FromClient, InPlay
<1>5. b = v.iss
  <2>1. b \in IssValues \cup {0}
    BY TypedNow DEF Pair
  <2>2. b \in SeqNum /\ m.ack \in SeqNum
    BY <2>1, IssTyped, SeqFacts, TypedNow, ReadFields
  <2>3. Sub32(m.ack, b) \in Nat
    <3>1. Sub32(m.ack, b) \in SeqNum
      BY <2>2, OffRange
    <3> QED BY <3>1, SeqFacts DEF SeqNum
  <2>4. Sub32(m.ack, b) <= Reach
    BY <1>4, <2>3, CountNow, Bounds DEF CountOK
  <2> QED BY <1>1, <1>3, <1>4, <2>1, <2>4, AckedBase
<1>6. PairOf(w) \in heard
  <2>1. PICK h \in heard : h.iss = v.iss
    BY <1>3, <1>4, <1>5, IssTyped
  <2>2. h \in Pairs /\ PairOf(v) \in Pairs /\ h \in Pair
    BY TypedNow DEF Pairs
  <2>3. h.irs = v.irs
    BY <2>1, <2>2 DEF SessionInv, DrawnOnce, PairOf
  <2>4. h = [iss |-> h.iss, irs |-> h.irs]
    BY <2>2 DEF Pair
  <2> QED BY <1>1, <2>1, <2>3, <2>4 DEF PairOf
<1>7. Counting(w, heard, Limit(Count'))
  BY <1>1, <1>2, <1>3, <1>6 DEF Counting
<1>8. heard' = heard
  BY DeliverCounts
<1>9. Pairs' \subseteq Pairs
  <2>1. {PairOf(x) : x \in Peer}' = {PairOf(v)}
    BY <1>1
  <2>2. PairsSent' = PairsSent
    BY <1>1 DEF PairsSent, SynAcks
  <2> QED BY <1>8, <2>1, <2>2 DEF Pairs
<1>10. DrawnOnce'
  BY <1>1, <1>9 DEF SessionInv, DrawnOnce
<1>11. Behind' /\ ResponsesDisjoint'
  BY <1>1, <1>3 DEF SessionInv, Behind, ResponsesDisjoint, Responses
<1>12. \A x \in Peer' : x \in PeerType /\ Counting(x, heard, Limit(Count'))
  BY <1>1, <1>7
<1> QED BY <1>1, <1>10, <1>11, <1>12, ServerFrame

(* Two runs of numbers behind bases too far apart, and two behind the same *)
(* base one after the other, do not overlap.                               *)
LEMMA FarApart ==
  ASSUME NEW a \in SeqNum, NEW b \in SeqNum, NEW r \in SeqNum, NEW s \in SeqNum,
         NEW p \in Nat, NEW q \in Nat, Sub32(a, b) > Reach, Sub32(b, a) > Reach,
         Sub32(r, a) + p <= Reach, Sub32(s, b) + q <= Reach
  PROVE  Sub32(r, s) >= q
<1>1. /\ a \in Nat /\ b \in Nat /\ r \in Nat /\ s \in Nat /\ SeqMod \in Nat /\ Reach \in Nat
      /\ a < SeqMod /\ b < SeqMod /\ r < SeqMod /\ s < SeqMod
  BY SeqFacts, Bounds DEF SeqNum
<1> QED BY <1>1 DEF Sub32

LEMMA Following ==
  ASSUME NEW b \in SeqNum, NEW r \in SeqNum, NEW s \in SeqNum, NEW p \in Nat, NEW q \in Nat, q > 0,
         Sub32(s, b) + q <= Sub32(r, b), Sub32(r, b) + p <= Reach
  PROVE  Sub32(r, s) >= q /\ Sub32(s, r) >= p
<1>1. /\ b \in Nat /\ r \in Nat /\ s \in Nat /\ SeqMod \in Nat /\ Reach \in Nat /\ Reach < SeqMod
      /\ b < SeqMod /\ r < SeqMod /\ s < SeqMod
  BY SeqFacts, Bounds DEF SeqNum
<1> QED BY <1>1 DEF Sub32

LEMMA ServeKeeps ==
  ASSUME SessionInv, NEW m \in toServer, Deliver(m), Listed', Serves
  PROVE  SessionInv'
<1>1. PICK v \in Peer, w \in PeerType, r \in ToClient :
        /\ v.state # "TCP_SYN_RECEIVED" /\ PairOf(w) = PairOf(v) /\ w.state # "TCP_SYN_RECEIVED"
        /\ Peer' = {w} /\ w.next = Add32(v.next, r.len)
        /\ "SYN" \notin r.flags /\ r.seq = v.next /\ Sends(r) /\ drawn' = drawn
  BY DEF Serves, Becomes
<1> DEFINE n == Limit(Count')
           y == Sub32(v.next, v.iss)
<1>2. v \in PeerType /\ Counting(v, heard, Limit(Count))
  BY TypedNow DEF SessionInv, Conversation, Counters
<1>3. v.next \in SeqNum /\ v.iss \in IssValues /\ v.iss \in SeqNum /\ w.iss = v.iss /\ PairOf(v) \in heard
  BY <1>1, <1>2, IssTyped DEF Counting, PeerType, PairOf
<1>4. r.len \in Nat /\ r.len <= MaxBody
  <2>1. r.len \in 0 .. MaxBody
    BY DEF ToClient
  <2> QED BY <2>1, BodyFacts
<1>5. /\ heard' = heard /\ n \in Nat /\ n <= Reach /\ Limit(Count) \in Nat /\ Limit(Count) + MaxBody <= n
  BY DeliverCounts, LimitNext
<1>6. y \in Nat /\ 1 <= y /\ y + r.len <= n
  <2>1. y \in SeqNum
    BY <1>3, OffRange
  <2>2. y \in Nat
    BY <2>1, SeqFacts DEF SeqNum
  <2>3. 1 <= y /\ y <= Limit(Count)
    BY <1>2 DEF Counting
  <2> HIDE DEF y, n
  <2> QED BY <1>4, <1>5, <2>2, <2>3, BodyFacts
<1>7. Sub32(w.next, w.iss) = y + r.len
  <2>1. y + r.len <= Reach
    BY <1>4, <1>5, <1>6, Bounds
  <2>2. Sub32(Add32(v.next, r.len), v.iss) = y + r.len
    BY <1>3, <1>4, <2>1, OffAdd
  <2> QED BY <1>1, <1>3, <2>2
<1>8. Counting(w, heard, n)
  <2> HIDE DEF n, y
  <2>1. 1 <= y + r.len
    BY <1>4, <1>6
  <2> QED BY <1>1, <1>3, <1>6, <1>7, <2>1 DEF Counting
<1>9. Within(r, v.iss, n)
  BY <1>1, <1>6 DEF Within
<1>10. FromServer(r, heard, n)
  <2>1. PairOf(v).iss = v.iss
    BY DEF PairOf
  <2>2. v.iss \in {h.iss : h \in heard} \cup {0}
    BY <1>3, <2>1
  <2>3. 0 <= Sub32(r.seq, v.iss) /\ Sub32(r.seq, v.iss) <= n
    BY <1>1, <1>4, <1>5, <1>6
  <2> QED BY <1>1, <2>2, <2>3 DEF FromServer, InPlay
<1> HIDE DEF n
<1>11. \A x \in toClient' : x \in toClient \/ x = r
  BY <1>1 DEF Sends
<1>12. DrawnOnce'
  <2>1. {PairOf(x) : x \in Peer}' = {PairOf(v)}
    BY <1>1
  <2>2. SynAcks' \subseteq SynAcks
    BY <1>1, <1>11 DEF SynAcks
  <2>3. PairsSent' \subseteq PairsSent
    BY <2>2 DEF PairsSent
  <2>4. Pairs' \subseteq Pairs
    BY <1>5, <2>1, <2>3 DEF Pairs
  <2> QED BY <1>1, <2>4 DEF SessionInv, DrawnOnce
<1>13. \A s \in Responses : /\ s \in ToClient /\ s.seq \in SeqNum /\ s.len \in Nat /\ s.len > 0
                            /\ Sub32(s.seq, v.iss) \in Nat
  <2> SUFFICES ASSUME NEW s \in Responses
               PROVE  /\ s \in ToClient /\ s.seq \in SeqNum /\ s.len \in Nat /\ s.len > 0
                      /\ Sub32(s.seq, v.iss) \in Nat
    OBVIOUS
  <2>1. s \in ToClient /\ s.len > 0
    BY TypedNow DEF Responses
  <2>2. s.seq \in SeqNum /\ s.len \in Nat
    BY <2>1, BodyFacts DEF ToClient
  <2>3. Sub32(s.seq, v.iss) \in SeqNum
    BY <1>3, <2>2, OffRange
  <2> QED BY <2>1, <2>2, <2>3, SeqFacts DEF SeqNum
<1>14. \A s \in Responses : Sub32(s.seq, v.iss) <= Reach => Sub32(s.seq, v.iss) + s.len <= y
  BY DEF SessionInv, Behind
<1>15. Behind'
  <2> SUFFICES ASSUME NEW s \in Responses', Sub32(s.seq, v.iss) <= Reach
               PROVE  Sub32(s.seq, v.iss) + s.len <= y + r.len
    BY <1>1, <1>3, <1>7 DEF Behind
  <2> HIDE DEF y
  <2>1. CASE s \in Responses
    BY <1>4, <1>6, <1>13, <1>14, <2>1
  <2>2. CASE s = r
    BY <1>1, <1>4, <1>6, <2>2 DEF y
  <2> QED BY <1>11, <2>1, <2>2 DEF Responses
<1>16. ASSUME NEW s \in Responses
       PROVE  Sub32(r.seq, s.seq) >= s.len /\ Sub32(s.seq, r.seq) >= r.len
  <2>1. PICK h \in heard : Within(s, h.iss, Limit(Count))
    BY DEF SessionInv, Conversation, Numbered
  <2>2. h.iss \in IssValues /\ h.iss \in SeqNum /\ r.seq \in SeqNum
    BY <1>1, <1>3, TypedNow, IssTyped DEF Pair
  <2>3. Sub32(s.seq, h.iss) \in Nat
    <3>1. Sub32(s.seq, h.iss) \in SeqNum
      BY <1>13, <2>2, OffRange
    <3> QED BY <3>1, SeqFacts DEF SeqNum
  <2>4. Sub32(s.seq, h.iss) + s.len <= Reach
    BY <1>13, <2>1, <2>3, CountNow, Bounds DEF Within, CountOK
  <2>5. y + r.len <= Reach /\ y = Sub32(r.seq, v.iss)
    BY <1>1, <1>4, <1>5, <1>6, Bounds
  <2> HIDE DEF y
  <2>6. CASE h.iss = v.iss
    <3>1. Sub32(s.seq, v.iss) <= Reach
      BY <1>13, <2>3, <2>4, <2>6, Bounds
    <3>2. Sub32(s.seq, v.iss) + s.len <= Sub32(r.seq, v.iss)
      BY <1>14, <2>5, <3>1
    <3> QED BY <1>3, <1>4, <1>13, <2>2, <2>5, <3>2, Following
  <2>7. CASE h.iss # v.iss
    <3>1. Sub32(h.iss, v.iss) > Reach /\ Sub32(v.iss, h.iss) > Reach
      BY <1>3, <2>2, <2>7, SpacingAssumption
    <3> QED BY <1>3, <1>4, <1>13, <2>2, <2>4, <2>5, <3>1, FarApart
  <2> QED BY <2>6, <2>7
<1>17. ResponsesDisjoint'
  <2> SUFFICES ASSUME NEW s \in Responses', NEW t \in Responses', s # t
               PROVE  Sub32(t.seq, s.seq) >= s.len /\ Sub32(s.seq, t.seq) >= t.len
    BY DEF ResponsesDisjoint, Responses
  <2>1. (s \in Responses \/ s = r) /\ (t \in Responses \/ t = r)
    BY <1>11 DEF Responses
  <2>2. CASE s \in Responses /\ t \in Responses
    BY <2>2 DEF SessionInv, ResponsesDisjoint, Responses
  <2> QED BY <1>16, <2>1, <2>2
<1>18. \A x \in toClient' : \/ x \in toClient
                            \/ /\ x \in ToClient /\ FromServer(x, heard, Limit(Count'))
                               /\ x.len > 0 => \E h \in heard : Within(x, h.iss, Limit(Count'))
                               /\ "SYN" \in x.flags => PairIn(x) \in Pair
  <2>1. \E h \in heard : Within(r, h.iss, Limit(Count'))
    <3>1. PairOf(v).iss = v.iss
      BY DEF PairOf
    <3> QED BY <1>3, <1>9, <3>1 DEF n
  <2> QED BY <1>1, <1>10, <1>11, <2>1, Zenon DEF n
<1>19. \A x \in Peer' : x \in PeerType /\ Counting(x, heard, Limit(Count'))
  BY <1>1, <1>8 DEF n
<1> QED BY <1>12, <1>15, <1>17, <1>18, <1>19, ServerFrame

LEMMA ServerKeeps == ASSUME SessionInv, NEW m \in toServer, Deliver(m) PROVE SessionInv'
  BY Shape, QuietKeeps, RefuseKeeps, OpenKeeps, ConfirmKeeps, ServeKeeps

-----------------------------------------------------------------------------
LEMMA StutterKeeps == ASSUME SessionInv, UNCHANGED sessionVars PROVE SessionInv'
<1>1. UNCHANGED vars /\ UNCHANGED clientVars /\ drawn' = drawn /\ deliveries' = deliveries
  BY DEF sessionVars, serverVars
<1>2. Listed' /\ Peer' = Peer
  BY <1>1, ServerUntouched DEF SessionInv
<1>3. /\ client' = client /\ toServer' = toServer /\ toClient' = toClient /\ heard' = heard
      /\ calls' = calls /\ calm' = calm
  BY <1>1 DEF clientVars
<1>4. Count' = Count /\ Counted'
  BY <1>1, <1>3 DEF Count, Served, Pend, SessionInv, Counted
<1>5. PairsSent' = PairsSent /\ Pairs' = Pairs /\ Responses' = Responses
  BY <1>2, <1>3 DEF PairsSent, SynAcks, Pairs, Responses
<1>6. Typed'
  BY <1>2, <1>3, <1>5 DEF SessionInv, Typed
<1>7. Conversation(Limit(Count))'
  BY <1>2, <1>3, <1>4, <1>5 DEF SessionInv, Conversation, Sent, Replied, Expects, Counters, Numbered
<1>8. DrawnOnce' /\ Behind' /\ ResponsesDisjoint'
  BY <1>1, <1>2, <1>3, <1>5 DEF SessionInv, DrawnOnce, Behind, ResponsesDisjoint
<1> QED BY <1>2, <1>4, <1>6, <1>7, <1>8 DEF SessionInv

LEMMA SessionStarts == SessionInit => SessionInv
<1> SUFFICES ASSUME SessionInit PROVE SessionInv
  OBVIOUS
<1>1. /\ states = <<>> /\ client = Fresh /\ toServer = {} /\ toClient = {} /\ heard = {} /\ calls = 0
      /\ calm \in BOOLEAN /\ drawn = {} /\ deliveries = 0
  BY DEF SessionInit, Init, ClientInit
<1>2. Listed /\ Peer = {}
  <2>1. states \in Seq(TCB) /\ Len(states) = 0 /\ 1 .. Len(states) = {}
    BY <1>1
  <2> QED BY <2>1 DEF Listed, Peer
<1>3. client \in Client /\ client.waits = "menu" /\ client.state = "CLOSED"
  BY <1>1, ClientAssumption, SeqFacts DEF Fresh, Client
<1>4. PairsSent = {} /\ Pairs = {} /\ Responses = {}
  BY <1>1, <1>2 DEF PairsSent, SynAcks, Pairs, Responses
<1>5. IsFiniteSet(toServer) /\ Cardinality(toServer) = 0
  BY <1>1, FS_EmptySet
<1>6. Typed
  BY <1>1, <1>2, <1>3, <1>4, <1>5 DEF Typed
<1>7. Counted
  <2>1. Pend = 0
    BY <1>3 DEF Pend
  <2>2. Served = 0
    BY <1>1, <1>5, <2>1 DEF Served
  <2> QED BY <1>1, <2>1, <2>2, Bounds DEF Counted
<1>8. Conversation(Limit(Count))
  BY <1>1, <1>2, <1>3, <1>4 DEF Conversation, Sent, Replied, Expects, Counters, Numbered
<1>9. DrawnOnce /\ Behind /\ ResponsesDisjoint
  BY <1>1, <1>2, <1>4 DEF DrawnOnce, Behind, ResponsesDisjoint
<1> QED BY <1>2, <1>6, <1>7, <1>8, <1>9 DEF SessionInv

(* The inductive invariant holds of every step of client, network and      *)
(* server.                                                                 *)
LEMMA SessionKept == SessionSpec => []SessionInv
<1>1. SessionInv /\ [SessionNext]_sessionVars => SessionInv'
  <2> SUFFICES ASSUME SessionInv, [SessionNext]_sessionVars PROVE SessionInv'
    OBVIOUS
  <2>1. CASE ClientStep /\ UNCHANGED serverVars
    BY <2>1, ClientKeeps
  <2>2. CASE \E m \in toServer : Deliver(m)
    BY <2>2, ServerKeeps
  <2>3. CASE UNCHANGED sessionVars
    BY <2>3, StutterKeeps
  <2> QED BY <2>1, <2>2, <2>3 DEF SessionNext
<1> QED BY <1>1, SessionStarts, PTL DEF SessionSpec

(* Whatever SYN, SYN-ACK, ACK, request or reset is lost, repeated, late or *)
(* out of order, and however often the client starts anew on the same      *)
(* port, tcp_dispatch establishes a connection only with the very SYN-ACK  *)
(* its client accepted, for every width of a number, number of calls and   *)
(* deliveries, and length of a request or response.                        *)
THEOREM HandshakeAgreed == SessionSpec => []HandshakeAgrees
<1>1. SessionInv => HandshakeAgrees
  <2> SUFFICES ASSUME SessionInv, NEW i \in 1 .. Len(states), states[i].state # "TCP_SYN_RECEIVED"
               PROVE  [iss |-> states[i].send.iss, irs |-> states[i].recv.irs] \in heard
    BY DEF HandshakeAgrees
  <2>1. View(states[i]) \in Peer
    BY DEF Peer
  <2>2. Counting(View(states[i]), heard, Limit(Count))
    BY <2>1 DEF SessionInv, Conversation, Counters
  <2> QED BY <2>2 DEF Counting, View, PairOf
<1> QED BY <1>1, SessionKept, PTL

(* tcp_send_ack never numbers two bytes alike: responses of one connection *)
(* follow one another, those of different connections lie apart, also when *)
(* a request is delivered again or the client connects anew.               *)
THEOREM ResponsesNeverOverlap == SessionSpec => []ResponsesDisjoint
<1>1. SessionInv => ResponsesDisjoint
  BY DEF SessionInv
<1> QED BY <1>1, SessionKept, PTL

-----------------------------------------------------------------------------
(***************************************************************************)
(* A calm network.  Nothing is lost or sent twice, but the user need not   *)
(* wait, so a SYN, a request or a FIN may overtake the ACK of the          *)
(* handshake.  What is under way, the block and the client's numbers tell  *)
(* each other, one phase of the block at a time.                           *)
(***************************************************************************)
InSync(t) == t.recv.next = client.my_seq /\ t.send.next = client.their_seq

(* Before the first SYN is read the client is closed.                      *)
Unborn == /\ client.state = "CLOSED" /\ toClient = {}
          /\ toServer \subseteq {Wire({"SYN"}, client.my_seq, 0, 0)}
          /\ toServer # {} => client.waits = "handshake"

(* Its SYN-ACK is under way, and nothing else.                             *)
Invited(t) == /\ client.waits = "handshake" /\ toServer = {}
              /\ \E r \in toClient : /\ toClient = {r} /\ r.flags = {"SYN", "ACK"}
                                     /\ r.ack = t.recv.next /\ Add32(r.seq, 1) = t.send.next

(* The only data under way is the request the client waits for.            *)
OneRequest ==
  \A m \in toServer :
    m.len > 0 => /\ client.waits = "send_data" /\ toClient = {}
                 /\ m = Wire({"PSH", "ACK"}, client.my_seq, client.their_seq, client.len)

(* Half open with the numbers the client took, or renumbered by a SYN that *)
(* overtook its ACK, which no acknowledgement will ever match.             *)
Forgotten(t) == \A h \in heard : h.iss # t.send.iss
HalfOpen(t)  == toClient = {} /\ OneRequest /\ (InSync(t) \/ Forgotten(t))

(* Established: in step, or ahead of the client by the request read and    *)
(* the response under way.                                                 *)
Ahead(t) == /\ client.waits = "send_data" /\ t.recv.next = Add32(client.my_seq, client.len)
            /\ \E r \in toClient : /\ toClient = {r} /\ "SYN" \notin r.flags
                                   /\ t.send.next = Add32(client.their_seq, r.len)
InUse(t) == OneRequest /\ ((toClient = {} /\ InSync(t)) \/ Ahead(t))

Phase(t) == /\ t.state = "TCP_SYN_RECEIVED" => Invited(t) \/ HalfOpen(t)
            /\ t.state = "TCP_ESTABLISHED" => InUse(t)

CalmNet == /\ \A m \in toServer : "RST" \notin m.flags
           /\ states = <<>> => Unborn
           /\ \A i \in 1 .. Len(states) : Phase(states[i])

CalmInv == calm => CalmNet

(* The block after a step, and its phase.                                  *)
LEMMA PhaseAfter ==
  ASSUME NEW u, states' = <<u>>, Phase(u)', \A m \in toServer' : "RST" \notin m.flags
  PROVE  CalmNet'
<1>1. Len(states') = 1 /\ states'[1] = u /\ states' # <<>>
  OBVIOUS
<1>2. \A i \in 1 .. Len(states') : states'[i] = u
  BY <1>1
<1> QED BY <1>1, <1>2 DEF CalmNet

(* What a segment that resets nothing does.                                *)
Nothing    == states' = states /\ toClient' = toClient
Refusal(m) == states = <<>> /\ ("SYN" \in m.flags => "ACK" \in m.flags)
Birth(m)   == \E iss \in IssValues :
                /\ states = <<>> /\ states' = <<SynReceived(c, m.seq, iss)>>
                /\ toClient' = toClient \cup {Wire({"SYN", "ACK"}, iss, Add32(m.seq, 1), 0)}
Renumbered(t, u) == /\ t.state = "TCP_SYN_RECEIVED" /\ u.state = "TCP_SYN_RECEIVED"
                    /\ u.send.iss \notin drawn /\ toClient' = toClient
Confirmed(t, u)  == /\ t.state = "TCP_SYN_RECEIVED" /\ u.state = "TCP_ESTABLISHED"
                    /\ u.recv.next = t.recv.next /\ u.send.next = t.send.next
                    /\ u.send.iss = t.send.iss /\ toClient' = toClient
Answered(m, t, u) == /\ t.state = "TCP_ESTABLISHED" /\ u.state = "TCP_ESTABLISHED" /\ m.len > 0
                     /\ u.recv.next = Add32(t.recv.next, m.len)
                     /\ \E r \in ToClient : /\ toClient' = toClient \cup {r} /\ "SYN" \notin r.flags
                                            /\ u.send.next = Add32(t.send.next, r.len)
Changed(m) == \E t, u \in TCB :
                /\ states = <<t>> /\ states' = <<u>>
                /\ \/ Renumbered(t, u) \/ Confirmed(t, u) \/ Answered(m, t, u)
                   \/ u.state = "TCP_CLOSE_WAIT"

LEMMA BirthEffect ==
  ASSUME SessionInv, NEW m \in toServer, Deliver(m), UnknownSyn(Read(m))
  PROVE  Birth(m)
<1> DEFINE g == Read(m)
<1>1. Listed /\ m \in ToServer /\ g.id = c /\ g.seq = m.seq /\ m.seq \in SeqNum
  BY TypedNow, ReadFields DEF SessionInv
<1>2. PICK iss \in IssValues : /\ states' = Append(states, SynReceived(c, m.seq, iss))
                               /\ out' = SynAck(SynReceived(c, m.seq, iss))
  BY <1>1 DEF UnknownSyn, tcp_insert_tcb, Send
<1>3. states = <<>>
  BY <1>1, OneBlock DEF UnknownSyn, Unknown
<1>4. states' = <<SynReceived(c, m.seq, iss)>>
  BY <1>2, <1>3
<1>5. out' # None
  <2>1. SynReceived(c, m.seq, iss) \in TCB
    BY <1>1, SynBlock
  <2>2. SynAck(SynReceived(c, m.seq, iss)) \in Reply
    <3>1. \A t \in TCB : SynAck(t) \in Reply
      BY SeqFacts DEF SynAck, TCB, Reply, Flag
    <3> QED BY <2>1, <3>1
  <2> QED BY <1>2, <2>2, InputAssumption
<1>6. toClient' = toClient \cup {Written(out')}
  BY <1>5 DEF Deliver
<1> QED BY <1>1, <1>2, <1>3, <1>4, <1>6, SynBlock DEF Birth

LEMMA RenumberEffect ==
  ASSUME SessionInv, NEW m \in toServer, Deliver(m), RepeatedSyn(Read(m))
  PROVE  Changed(m)
<1> DEFINE g == Read(m)
           t == states[1]
<1>1. Listed /\ m \in ToServer /\ g.id = c /\ g.seq = m.seq /\ m.seq \in SeqNum /\ g.flags = m.flags
  BY TypedNow, ReadFields DEF SessionInv
<1>2. /\ states = <<t>> /\ t \in TCB /\ tcp_get_state(c) = 1 /\ t.state = "TCP_SYN_RECEIVED"
  BY TheBlock DEF RepeatedSyn
<1>3. PICK iss \in IssValues :
        states' = [states EXCEPT ![tcp_get_state(c)] = SynReceived(c, m.seq, iss)]
  BY <1>1 DEF RepeatedSyn, Update
<1> DEFINE u == SynReceived(c, m.seq, iss)
<1>4. u \in TCB /\ u.send.iss = iss
  BY <1>1, SynBlock
<1>5. u.state = "TCP_SYN_RECEIVED"
  BY DEF SynReceived
<1>6. states' = <<u>>
  BY <1>2, <1>3
<1>7. "SYN" \in m.flags => m.flags = {"SYN"}
  BY DEF SessionInv, Conversation, Sent, FromClient
<1>8. Draws(g) /\ alive' /\ toClient' = toClient
  BY <1>1, <1>7, Delivered DEF RepeatedSyn, Has, Draws, Silent
<1>9. states'[1].send.iss \notin drawn
  BY <1>8, Delivered
<1> HIDE DEF t, u
<1>10. u.send.iss \notin drawn
  BY <1>6, <1>9
<1>11. Renumbered(t, u)
  BY <1>2, <1>5, <1>8, <1>10 DEF Renumbered
<1> QED BY <1>2, <1>4, <1>6, <1>11 DEF Changed

LEMMA ConfirmEffect ==
  ASSUME SessionInv, NEW m \in toServer, Deliver(m), FinalAck(Read(m))
  PROVE  Nothing \/ Changed(m)
<1> DEFINE g == Read(m)
           t == states[1]
           u == [t EXCEPT !.state = "TCP_ESTABLISHED", !.send.unac = m.ack]
<1>1. In(g, "TCP_SYN_RECEIVED") /\ g.ack = m.ack /\ m.ack \in SeqNum /\ out' = None
  BY TypedNow, ReadFields DEF FinalAck, Silent
<1>2. /\ g.id = c /\ states = <<t>> /\ t \in TCB /\ tcp_get_state(c) = 1
      /\ Block(g) = t /\ t.state = "TCP_SYN_RECEIVED"
  BY <1>1, TheBlock
<1>3. toClient' = toClient
  BY <1>1, Delivered
<1>4. states' = states \/ states' = [states EXCEPT ![tcp_get_state(c)] = u]
  BY <1>1, <1>2 DEF FinalAck, Update
<1>5. CASE states' = states
  BY <1>3, <1>5 DEF Nothing
<1>6. CASE states' = [states EXCEPT ![tcp_get_state(c)] = u]
  <2>1. /\ u \in TCB /\ u.send.iss = t.send.iss /\ u.recv.next = t.recv.next
        /\ u.state = "TCP_ESTABLISHED" /\ u.send.next = t.send.next
    BY <1>1, <1>2 DEF TCB, TCP_State
  <2>2. states' = <<u>>
    BY <1>2, <1>6
  <2> HIDE DEF t, u
  <2>3. Confirmed(t, u)
    BY <1>2, <1>3, <2>1 DEF Confirmed
  <2> QED BY <1>2, <2>1, <2>2, <2>3 DEF Changed
<1> QED BY <1>4, <1>5, <1>6

LEMMA FinEffect ==
  ASSUME SessionInv, NEW m \in toServer, Deliver(m), Fin(Read(m))
  PROVE  Changed(m)
<1> DEFINE g == Read(m)
           t == states[1]
           x == [t EXCEPT !.recv.next = Add32(m.seq, 1)]
           u == [x EXCEPT !.state = "TCP_CLOSE_WAIT"]
<1>1. In(g, "TCP_ESTABLISHED") /\ g.seq = m.seq /\ m.seq \in SeqNum
  BY TypedNow, ReadFields DEF Fin
<1>2. g.id = c /\ states = <<t>> /\ t \in TCB /\ Block(g) = t /\ tcp_get_state(c) = 1
  BY <1>1, TheBlock
<1>3. states' = [states EXCEPT ![tcp_get_state(c)] = u]
  BY <1>1, <1>2 DEF Fin, Update
<1>4. Add32(m.seq, 1) \in SeqNum
  BY <1>1, OffOne
<1>5. u \in TCB /\ u.state = "TCP_CLOSE_WAIT"
  BY <1>2, <1>4 DEF TCB, TCP_State
<1>6. states' = <<u>>
  BY <1>2, <1>3
<1> HIDE DEF t, u
<1> QED BY <1>2, <1>5, <1>6 DEF Changed

LEMMA DataEffect ==
  ASSUME SessionInv, NEW m \in toServer, Deliver(m), tcp_handle_data(Read(m))
  PROVE  Changed(m)
<1> DEFINE g == Read(m)
           t == states[1]
           a == Add32(t.recv.next, m.len)
           x == [t EXCEPT !.recv.next = a]
<1>1. In(g, "TCP_ESTABLISHED") /\ g.len = m.len /\ m.len \in SeqNum /\ m.len > 0
  BY TypedNow, ReadFields DEF tcp_handle_data
<1>2. /\ g.id = c /\ t \in TCB /\ t.id = c /\ Block(g) = t /\ states = <<t>> /\ tcp_get_state(c) = 1
      /\ t.state = "TCP_ESTABLISHED"
  BY <1>1, TheBlock
<1>3. PICK body \in http_handle_request(g) :
        LET z == [Block(g) EXCEPT !.recv.next = Add32(@, g.len)]
        IN  Update(g, AfterAck(z, BodyLen[body])) /\ Send(AckReply(z, BodyLen[body]))
  BY DEF tcp_handle_data
<1> DEFINE n == BodyLen[body]
           u == [x EXCEPT !.send.next = Add32(@, n)]
           r == Written(out')
<1>4. states' = [states EXCEPT ![tcp_get_state(c)] = u] /\ out' = AckReply(x, n)
  BY <1>1, <1>2, <1>3 DEF Update, Send, AfterAck
<1>5. n \in 1 .. MaxBody
  BY <1>3, BodyFacts DEF http_handle_request, http_serve_file, Body
<1>6. n \in 0 .. MaxBody /\ n \in SeqNum
  BY <1>5, BodyFacts, SeqFacts DEF SeqNum
<1>7. t.recv.next \in SeqNum /\ t.send.next \in SeqNum
  BY <1>2 DEF TCB
<1>8. a \in SeqNum /\ Add32(t.send.next, n) \in SeqNum
  BY <1>1, <1>6, <1>7, AddInRange
<1> HIDE DEF a, n
<1>9. /\ u \in TCB /\ u.state = "TCP_ESTABLISHED" /\ u.recv.next = a
      /\ u.send.next = Add32(t.send.next, n)
      /\ x.id = c /\ x.send.next = t.send.next /\ x.recv.next = a
  BY <1>2, <1>8 DEF TCB
<1>10. out' = [to |-> c, seq |-> t.send.next, ack |-> a,
               flags |-> IF n > 0 THEN {"PSH", "ACK"} ELSE {"ACK"}, len |-> n]
  BY <1>4, <1>9 DEF AckReply
<1>11. out' # None
  <2>1. c \in ID
    BY PeerAssumption DEF c
  <2>2. out' \in Reply
    BY <1>6, <1>7, <1>8, <1>10, <2>1 DEF Reply, Flag
  <2> QED BY <2>2, InputAssumption
<1>12. toClient' = toClient \cup {r}
  BY <1>11 DEF Deliver
<1>13. r \in ToClient /\ "SYN" \notin r.flags /\ r.len = n
  BY <1>6, <1>7, <1>8, <1>10 DEF Written, Wire, ToClient, Flag
<1>14. states' = <<u>>
  BY <1>2, <1>4
<1> HIDE DEF t, u, r
<1>15. u.recv.next = Add32(t.recv.next, m.len)
  BY <1>9 DEF a
<1>16. Answered(m, t, u)
  BY <1>1, <1>2, <1>9, <1>12, <1>13, <1>15 DEF Answered
<1> QED BY <1>2, <1>9, <1>14, <1>16 DEF Changed

LEMMA CalmEffects ==
  ASSUME SessionInv, NEW m \in toServer, Deliver(m), "RST" \notin m.flags
  PROVE  Nothing \/ Refusal(m) \/ Birth(m) \/ Changed(m)
<1> DEFINE g == Read(m)
<1>1. g.flags = m.flags /\ g.id = c /\ Listed
  BY TypedNow, ReadFields DEF SessionInv
<1>2. ASSUME UnknownReset(g) \/ UnknownSynNoMemory(g) \/ Unexpected(g)
             \/ DataNoMemory(g) \/ NoData(g) \/ CloseWait(g)
      PROVE  Nothing
  <2>1. states' = states /\ out' = None
    BY <1>2 DEF UnknownReset, UnknownSynNoMemory, Unexpected, DataNoMemory, NoData, CloseWait, Silent
  <2> QED BY <2>1, Delivered DEF Nothing
<1>3. ASSUME UnknownOther(g) PROVE Refusal(m)
  BY <1>1, <1>3, OneBlock DEF UnknownOther, Unknown, Has, Refusal
<1>4. ~Reset(g)
  BY <1>1 DEF Reset, Has
<1>5. \/ UnknownReset(g) \/ UnknownSyn(g) \/ UnknownSynNoMemory(g)
      \/ UnknownOther(g) \/ Reset(g) \/ RepeatedSyn(g) \/ FinalAck(g)
      \/ Unexpected(g) \/ Fin(g) \/ tcp_handle_data(g)
      \/ DataNoMemory(g) \/ NoData(g) \/ CloseWait(g)
  BY Delivered DEF tcp_dispatch
<1> QED BY <1>2, <1>3, <1>4, <1>5, BirthEffect, RenumberEffect, ConfirmEffect, FinEffect, DataEffect

LEMMA CalmDeliver ==
  ASSUME SessionInv, SessionInv', calm, CalmNet, NEW m \in toServer, Deliver(m)
  PROVE  CalmNet'
<1>1. client' = client /\ heard' = heard /\ toServer' = toServer \ {m}
  BY DEF Deliver, Received
<1>2. \A x \in toServer' : "RST" \notin x.flags
  BY <1>1 DEF CalmNet
<1>3. "RST" \notin m.flags /\ m \in ToServer /\ m.len \in 0 .. SeqMod - 3
  BY TypedNow, ReadFields DEF CalmNet
<1>4. toClient' = toClient => (OneRequest => OneRequest')
  BY <1>1 DEF OneRequest
<1>5. states = <<>> => m = Wire({"SYN"}, client.my_seq, 0, 0) /\ toServer' = {} /\ client.waits = "handshake"
                       /\ toClient = {} /\ client.state = "CLOSED"
  BY <1>1 DEF CalmNet, Unborn
<1>6. CASE Nothing
  <2>1. states' = states /\ toClient' = toClient
    BY <1>6 DEF Nothing
  <2>2. states = <<>> => Unborn'
    BY <1>1, <1>5, <2>1 DEF Unborn
  <2>3. \A t : Phase(t) => Phase(t)'
    <3> SUFFICES ASSUME NEW t, Phase(t) PROVE Phase(t)'
      OBVIOUS
    <3>1. ~Invited(t)
      BY DEF Invited
    <3>2. HalfOpen(t) => HalfOpen(t)'
      BY <1>1, <1>4, <2>1 DEF HalfOpen, InSync, Forgotten
    <3>3. InUse(t) => InUse(t)'
      BY <1>1, <1>4, <2>1 DEF InUse, InSync, Ahead
    <3> QED BY <3>1, <3>2, <3>3 DEF Phase
  <2>4. \A i \in 1 .. Len(states) : Phase(states[i])
    BY DEF CalmNet
  <2>5. \A i \in 1 .. Len(states') : states'[i] = states[i] /\ Phase(states[i])'
    BY <2>1, <2>3, <2>4
  <2> QED BY <1>2, <2>1, <2>2, <2>5 DEF CalmNet
<1>7. ~Refusal(m)
  BY <1>5 DEF Refusal, Wire
<1>8. CASE Birth(m)
  <2>1. PICK iss \in IssValues :
          /\ states = <<>> /\ states' = <<SynReceived(c, m.seq, iss)>>
          /\ toClient' = toClient \cup {Wire({"SYN", "ACK"}, iss, Add32(m.seq, 1), 0)}
    BY <1>8 DEF Birth
  <2> DEFINE u == SynReceived(c, m.seq, iss)
             r == Wire({"SYN", "ACK"}, iss, Add32(m.seq, 1), 0)
  <2>2. /\ u.state = "TCP_SYN_RECEIVED" /\ u.recv.next = r.ack /\ u.send.next = Add32(r.seq, 1)
        /\ r.flags = {"SYN", "ACK"}
    BY DEF SynReceived, Wire
  <2>3. states' = <<u>> /\ toClient' = {r} /\ toServer' = {} /\ client'.waits = "handshake"
    BY <1>1, <1>5, <2>1
  <2> HIDE DEF u, r
  <2>4. Invited(u)'
    BY <2>2, <2>3 DEF Invited
  <2>5. Phase(u)'
    BY <2>2, <2>4 DEF Phase
  <2> QED BY <1>2, <2>3, <2>5, PhaseAfter
<1>9. CASE Changed(m)
  <2>1. PICK t \in TCB, u \in TCB :
          /\ states = <<t>> /\ states' = <<u>>
          /\ \/ Renumbered(t, u) \/ Confirmed(t, u) \/ Answered(m, t, u)
             \/ u.state = "TCP_CLOSE_WAIT"
    BY <1>9 DEF Changed
  <2>2. Phase(t) /\ ~Invited(t)
    <3>1. Len(states) = 1 /\ states[1] = t
      BY <2>1
    <3>2. Phase(states[1])
      BY <3>1 DEF CalmNet
    <3> QED BY <3>1, <3>2 DEF Invited
  <2>3. CASE Renumbered(t, u)
    <3>1. t.state = "TCP_SYN_RECEIVED" /\ u.state = "TCP_SYN_RECEIVED" /\ u.send.iss \notin drawn
          /\ toClient' = toClient
      BY <2>3 DEF Renumbered
    <3>2. HalfOpen(t)
      BY <2>2, <3>1 DEF Phase
    <3>3. \A h \in heard : h.iss \in drawn
      BY DEF SessionInv, DrawnOnce, Pairs
    <3>4. Forgotten(u)'
      BY <1>1, <3>1, <3>3 DEF Forgotten
    <3>5. HalfOpen(u)'
      BY <1>4, <3>1, <3>2, <3>4 DEF HalfOpen
    <3>6. Phase(u)'
      BY <3>1, <3>5 DEF Phase
    <3> QED BY <1>2, <2>1, <3>6, PhaseAfter
  <2>4. CASE Confirmed(t, u)
    <3>1. /\ t.state = "TCP_SYN_RECEIVED" /\ u.state = "TCP_ESTABLISHED"
          /\ u.recv.next = t.recv.next /\ u.send.next = t.send.next
          /\ u.send.iss = t.send.iss /\ toClient' = toClient
      BY <2>4 DEF Confirmed
    <3>2. HalfOpen(t)
      BY <2>2, <3>1 DEF Phase
    <3>3. \E h \in heard : h.iss = t.send.iss
      <4>1. Len(states') = 1 /\ states'[1] = u
        BY <2>1
      <4>2. View(u) \in Peer'
        BY <4>1 DEF Peer
      <4>3. \E lim : Counting(View(u), heard', lim)
        BY <4>2 DEF SessionInv, Conversation, Counters
      <4>4. PairOf(View(u)) \in heard
        BY <1>1, <3>1, <4>3 DEF Counting, View
      <4>5. PairOf(View(u)).iss = u.send.iss
        BY DEF PairOf, View
      <4> QED BY <3>1, <4>4, <4>5
    <3>4. InSync(t) /\ toClient = {} /\ OneRequest
      BY <3>2, <3>3 DEF HalfOpen, Forgotten
    <3>5. InUse(u)'
      BY <1>1, <1>4, <3>1, <3>4 DEF InUse, InSync
    <3>6. Phase(u)'
      BY <3>1, <3>5 DEF Phase
    <3> QED BY <1>2, <2>1, <3>6, PhaseAfter
  <2>5. CASE Answered(m, t, u)
    <3>1. /\ t.state = "TCP_ESTABLISHED" /\ u.state = "TCP_ESTABLISHED" /\ m.len > 0
          /\ u.recv.next = Add32(t.recv.next, m.len)
      BY <2>5 DEF Answered
    <3>2. PICK r \in ToClient : /\ toClient' = toClient \cup {r} /\ "SYN" \notin r.flags
                                /\ u.send.next = Add32(t.send.next, r.len)
      BY <2>5 DEF Answered
    <3>3. InUse(t)
      BY <2>2, <3>1 DEF Phase
    <3>4. /\ client.waits = "send_data" /\ toClient = {}
          /\ m = Wire({"PSH", "ACK"}, client.my_seq, client.their_seq, client.len)
      BY <3>1, <3>3 DEF InUse, OneRequest
    <3>5. m.len = client.len
      BY <3>4 DEF Wire
    <3>6. InSync(t)
      BY <3>3, <3>4 DEF InUse, Ahead
    <3>7. Ahead(u)'
      BY <1>1, <3>1, <3>2, <3>4, <3>5, <3>6 DEF Ahead, InSync
    <3>8. \A x \in toServer' : ~(x.len > 0)
      BY <1>1, <3>3, <3>4 DEF InUse, OneRequest
    <3>9. InUse(u)'
      BY <3>7, <3>8 DEF InUse, OneRequest
    <3>10. Phase(u)'
      BY <3>1, <3>9 DEF Phase
    <3> QED BY <1>2, <2>1, <3>10, PhaseAfter
  <2>6. CASE u.state = "TCP_CLOSE_WAIT"
    <3>1. Phase(u)'
      BY <2>6 DEF Phase
    <3> QED BY <1>2, <2>1, <3>1, PhaseAfter
  <2> QED BY <2>1, <2>3, <2>4, <2>5, <2>6
<1> QED BY <1>3, <1>6, <1>7, <1>8, <1>9, CalmEffects

-----------------------------------------------------------------------------
(* Steps of the client leave the block alone.                              *)
LEMMA PhasesAfter ==
  ASSUME SessionInv, CalmNet, UNCHANGED serverVars, \A m \in toServer' : "RST" \notin m.flags,
         states = <<>> => Unborn', \A t \in TCB : Phase(t) => Phase(t)'
  PROVE  CalmNet'
<1>1. states' = states
  BY DEF serverVars, vars
<1>2. \A i \in 1 .. Len(states) : states[i] \in TCB /\ Phase(states[i])
  BY DEF CalmNet, SessionInv, Listed
<1>3. \A i \in 1 .. Len(states') : states'[i] = states[i] /\ Phase(states[i])'
  BY <1>1, <1>2
<1> QED BY <1>1, <1>3 DEF CalmNet

LEMMA CalmCall ==
  ASSUME SessionInv, CalmNet, UNCHANGED serverVars, NEW w, NEW g, Call(w, g),
         "RST" \notin g.flags,
         g.len > 0 => w = "send_data" /\ g = Wire({"PSH", "ACK"}, client.my_seq, client.their_seq, g.len),
         client.state = "CLOSED" => w = "handshake" /\ g = Wire({"SYN"}, client.my_seq, 0, 0)
  PROVE  CalmNet'
<1>1. /\ client.waits = "menu" /\ toServer' = toServer \cup {g} /\ toClient' = toClient /\ heard' = heard
      /\ client' = [client EXCEPT !.waits = w, !.len = g.len]
  BY DEF Call
<1>2. /\ client'.waits = w /\ client'.len = g.len /\ client'.my_seq = client.my_seq
      /\ client'.their_seq = client.their_seq /\ client'.state = client.state
  BY <1>1, TypedNow DEF Client
<1>3. \A m \in toServer' : "RST" \notin m.flags
  BY <1>1 DEF CalmNet
<1>4. states = <<>> => Unborn'
  BY <1>1, <1>2 DEF CalmNet, Unborn
<1>5. OneRequest /\ toClient = {} => OneRequest'
  BY <1>1, <1>2 DEF OneRequest
<1>6. ASSUME NEW t \in TCB, Phase(t) PROVE Phase(t)'
  <2>1. ~Invited(t) /\ ~Ahead(t)
    BY <1>1 DEF Invited, Ahead
  <2>2. HalfOpen(t) => HalfOpen(t)'
    BY <1>1, <1>2, <1>5 DEF HalfOpen, InSync, Forgotten
  <2>3. InUse(t) => InUse(t)'
    BY <1>1, <1>2, <1>5, <2>1 DEF InUse, InSync
  <2> QED BY <1>6, <2>1, <2>2, <2>3 DEF Phase
<1> QED BY <1>3, <1>4, <1>6, PhasesAfter

LEMMA CalmCalls ==
  ASSUME SessionInv, CalmNet, UNCHANGED serverVars, Handshake \/ SendData \/ Close
  PROVE  CalmNet'
<1>1. CASE Handshake
  <2> DEFINE g == Wire({"SYN"}, client.my_seq, 0, 0)
  <2>1. Call("handshake", g) /\ "RST" \notin g.flags /\ ~(g.len > 0)
    BY <1>1 DEF Handshake, Wire
  <2> QED BY <2>1, CalmCall
<1>2. CASE SendData
  <2>1. PICK n \in Requests : Call("send_data", Wire({"PSH", "ACK"}, client.my_seq, client.their_seq, n))
    BY <1>2 DEF SendData
  <2> DEFINE g == Wire({"PSH", "ACK"}, client.my_seq, client.their_seq, n)
  <2>2. client.state # "CLOSED" /\ "RST" \notin g.flags /\ g.len = n
    BY <1>2 DEF SendData, Wire
  <2> QED BY <2>1, <2>2, CalmCall
<1>3. CASE Close
  <2> DEFINE g == Wire({"FIN", "ACK"}, client.my_seq, client.their_seq, 0)
  <2>1. Call("close", g) /\ "RST" \notin g.flags /\ ~(g.len > 0) /\ client.state # "CLOSED"
    BY <1>3 DEF Close, Wire
  <2> QED BY <2>1, CalmCall
<1> QED BY <1>1, <1>2, <1>3

LEMMA CalmTimeout ==
  ASSUME SessionInv, calm, CalmNet, UNCHANGED serverVars, Timeout
  PROVE  CalmNet'
<1>1. /\ toServer = {} /\ toClient = {} /\ toServer' = {} /\ toClient' = {} /\ heard' = heard
      /\ client' = GivesUp
  BY DEF Timeout, Drained
<1>2. /\ client'.my_seq = client.my_seq /\ client'.their_seq = client.their_seq /\ client'.state = client.state
  BY <1>1, TypedNow DEF GivesUp, Client
<1>3. states = <<>> => Unborn'
  BY <1>1, <1>2 DEF CalmNet, Unborn
<1>4. ASSUME NEW t \in TCB, Phase(t) PROVE Phase(t)'
  BY <1>1, <1>2, <1>4 DEF Phase, Invited, HalfOpen, InUse, Ahead, InSync, Forgotten, OneRequest
<1> QED BY <1>1, <1>3, <1>4, PhasesAfter

(* The client takes the SYN-ACK and the numbers of the block.              *)
LEMMA CalmSynAck ==
  ASSUME SessionInv, calm, CalmNet, UNCHANGED serverVars, NEW r \in toClient, GotSynAck(r)
  PROVE  CalmNet'
<1> DEFINE a == Wire({"ACK"}, r.ack, Add32(r.seq, 1), 0)
<1>1. /\ client.waits = "handshake" /\ toServer' = toServer \cup {a} /\ toClient' = toClient \ {r}
      /\ client' = [client EXCEPT !.waits = "menu", !.state = "ESTABLISHED", !.last = "linked",
                                  !.my_seq = r.ack, !.their_seq = Add32(r.seq, 1)]
  BY Zenon DEF GotSynAck, Answers, Received
<1>2. client'.my_seq = r.ack /\ client'.their_seq = Add32(r.seq, 1)
  BY <1>1, TypedNow DEF Client
<1>3. "RST" \notin a.flags /\ ~(a.len > 0)
  BY DEF Wire
<1> HIDE DEF a
<1>4. \A m \in toServer' : "RST" \notin m.flags
  BY <1>1, <1>3 DEF CalmNet
<1>5. states # <<>>
  BY DEF CalmNet, Unborn
<1>6. ASSUME NEW t \in TCB, Phase(t) PROVE Phase(t)'
  <2>1. CASE t.state = "TCP_SYN_RECEIVED"
    <3>1. Invited(t)
      BY <1>6, <2>1 DEF Phase, HalfOpen
    <3>2. toServer' = {a} /\ toClient' = {} /\ r.ack = t.recv.next /\ Add32(r.seq, 1) = t.send.next
      BY <1>1, <3>1 DEF Invited
    <3>3. HalfOpen(t)'
      BY <1>2, <1>3, <3>2 DEF HalfOpen, InSync, OneRequest
    <3> QED BY <2>1, <3>3 DEF Phase
  <2>2. t.state # "TCP_ESTABLISHED"
    BY <1>1, <1>6 DEF Phase, InUse, Ahead
  <2>3. CASE t.state # "TCP_SYN_RECEIVED"
    BY <2>2, <2>3 DEF Phase
  <2> QED BY <2>1, <2>3
<1> QED BY <1>4, <1>5, <1>6, PhasesAfter

(* The client takes the response, and has caught up with the server.       *)
LEMMA CalmResponse ==
  ASSUME SessionInv, calm, CalmNet, UNCHANGED serverVars, NEW r \in toClient, GotResponse(r)
  PROVE  CalmNet'
<1>1. /\ client.waits = "send_data" /\ toServer' = toServer /\ toClient' = toClient \ {r}
      /\ client' = [client EXCEPT !.waits = "menu", !.my_seq = Add32(client.my_seq, client.len),
                                  !.their_seq = Add32(client.their_seq, r.len)]
  BY Zenon DEF GotResponse, Answers, Received
<1>2. client'.my_seq = Add32(client.my_seq, client.len) /\ client'.their_seq = Add32(client.their_seq, r.len)
  BY <1>1, TypedNow DEF Client
<1>3. \A m \in toServer' : "RST" \notin m.flags
  BY <1>1 DEF CalmNet
<1>4. states # <<>>
  BY DEF CalmNet, Unborn
<1>5. ASSUME NEW t \in TCB, Phase(t) PROVE Phase(t)'
  <2>1. t.state # "TCP_SYN_RECEIVED"
    BY <1>1, <1>5 DEF Phase, Invited, HalfOpen
  <2>2. ASSUME t.state = "TCP_ESTABLISHED" PROVE InUse(t)'
    <3>1. OneRequest /\ Ahead(t)
      BY <1>5, <2>2 DEF Phase, InUse
    <3>2. /\ t.recv.next = client'.my_seq /\ t.send.next = client'.their_seq /\ toClient' = {}
      BY <1>1, <1>2, <3>1 DEF Ahead
    <3>3. OneRequest'
      BY <1>1, <3>1 DEF OneRequest
    <3> QED BY <3>2, <3>3 DEF InUse, InSync
  <2> QED BY <2>1, <2>2 DEF Phase
<1> QED BY <1>3, <1>4, <1>5, PhasesAfter

(* An answer to a FIN is one of a block in TCP_CLOSE_WAIT, and nothing is  *)
(* unexpected or refused before.                                           *)
LEMMA CalmOther ==
  ASSUME SessionInv, calm, CalmNet, UNCHANGED serverVars, NEW r \in toClient,
         GotNoSynAck(r) \/ GotFinAck(r) \/ Unheard(r)
  PROVE  CalmNet'
<1>1. ASSUME NEW t \in TCB, Phase(t) PROVE t.state \notin {"TCP_SYN_RECEIVED", "TCP_ESTABLISHED"}
  <2>1. ASSUME Invited(t) PROVE FALSE
    <3>1. client.waits = "handshake" /\ r.flags = {"SYN", "ACK"}
      BY <2>1 DEF Invited
    <3> QED BY <3>1 DEF GotNoSynAck, GotFinAck, Unheard, Answers
  <2>2. ASSUME Ahead(t) PROVE FALSE
    <3>1. client.waits = "send_data" /\ "SYN" \notin r.flags
      BY <2>2 DEF Ahead
    <3> QED BY <3>1 DEF GotNoSynAck, GotFinAck, Unheard, Answers
  <2> QED BY <1>1, <2>1, <2>2 DEF Phase, HalfOpen, InUse
<1>2. \A t \in TCB : Phase(t) => Phase(t)'
  BY <1>1 DEF Phase
<1>3. states # <<>>
  BY DEF CalmNet, Unborn
<1>4. \A m \in toServer' : "RST" \notin m.flags
  <2> DEFINE a == Wire({"ACK"}, Add32(client.my_seq, 1), Add32(r.seq, 1), 0)
  <2>1. "RST" \notin a.flags
    BY DEF Wire
  <2>2. toServer' \subseteq toServer \cup {a}
    BY DEF GotNoSynAck, GotFinAck, Unheard
  <2> HIDE DEF a
  <2> QED BY <2>1, <2>2 DEF CalmNet
<1> QED BY <1>2, <1>3, <1>4, PhasesAfter

LEMMA CalmClient ==
  ASSUME SessionInv, calm, CalmNet, UNCHANGED serverVars, ClientStep
  PROVE  CalmNet'
<1>1. ~Restart
  BY DEF Restart
<1>2. CASE ClientHears
  <2>1. PICK r \in toClient : \/ GotSynAck(r) \/ GotNoSynAck(r) \/ GotResponse(r)
                              \/ GotFinAck(r) \/ Unheard(r) \/ KernelReset(r)
    BY <1>2 DEF ClientHears
  <2>2. ~KernelReset(r)
    BY DEF KernelReset
  <2> QED BY <2>1, <2>2, CalmSynAck, CalmResponse, CalmOther
<1> QED BY <1>1, <1>2, CalmCalls, CalmTimeout DEF ClientStep

LEMMA CalmLasts == ASSUME ClientStep PROVE calm' = calm
<1>1. ASSUME NEW w, NEW g, Call(w, g) PROVE calm' = calm
  BY <1>1 DEF Call
<1> QED BY <1>1, Zenon DEF ClientStep, Handshake, SendData, Close, Timeout, Restart, ClientHears, GotSynAck,
             GotNoSynAck, GotResponse, GotFinAck, Unheard, KernelReset

LEMMA CalmKept == SessionSpec => []CalmInv
<1>1. SessionInit => CalmInv
  <2> SUFFICES ASSUME SessionInit PROVE CalmNet
    BY DEF CalmInv
  <2>1. states = <<>> /\ client = Fresh /\ toServer = {} /\ toClient = {}
    BY DEF SessionInit, Init, ClientInit
  <2>2. 1 .. Len(states) = {} /\ client.state = "CLOSED"
    BY <2>1 DEF Fresh
  <2> QED BY <2>1, <2>2 DEF CalmNet, Unborn
<1>2. SessionInv /\ SessionInv' /\ CalmInv /\ [SessionNext]_sessionVars => CalmInv'
  <2> SUFFICES ASSUME SessionInv, SessionInv', CalmInv, [SessionNext]_sessionVars, calm' PROVE CalmNet'
    BY DEF CalmInv
  <2>1. CASE ClientStep /\ UNCHANGED serverVars
    <3>1. calm
      BY <2>1, CalmLasts
    <3> QED BY <2>1, <3>1, CalmClient DEF CalmInv
  <2>2. ASSUME NEW m \in toServer, Deliver(m) PROVE CalmNet'
    <3>1. calm
      BY <2>2 DEF Deliver
    <3> QED BY <2>2, <3>1, CalmDeliver DEF CalmInv
  <2>3. CASE UNCHANGED sessionVars
    <3>1. /\ client' = client /\ toServer' = toServer /\ toClient' = toClient /\ heard' = heard
          /\ UNCHANGED serverVars
      BY <2>3 DEF sessionVars, clientVars
    <3>2. CalmNet
      BY <2>3 DEF CalmInv, sessionVars, clientVars
    <3>3. ASSUME NEW t \in TCB, Phase(t) PROVE Phase(t)'
      BY <3>1, <3>3 DEF Phase, Invited, HalfOpen, InUse, Ahead, InSync, Forgotten, OneRequest
    <3> QED BY <3>1, <3>2, <3>3, PhasesAfter DEF CalmNet, Unborn
  <2> QED BY <2>1, <2>2, <2>3 DEF SessionNext
<1> QED BY <1>1, <1>2, SessionKept, PTL DEF SessionSpec

(* Over a network that delivers every segment once, in any order, client   *)
(* and server are in step whenever the client is back in its menu: each    *)
(* expects the number the other sends next, also when a request, a FIN or  *)
(* another SYN overtakes the ACK of the handshake or the process dies for  *)
(* want of memory, for every number and length of requests and responses.  *)
THEOREM MenuInStep == SessionSpec => []InStep
<1>1. CalmInv => InStep
  <2> SUFFICES ASSUME CalmInv, NEW i \in 1 .. Len(states), calm, client.waits = "menu",
                      states[i].state = "TCP_ESTABLISHED"
               PROVE  InSync(states[i])
    BY DEF InStep, InSync
  <2>1. Phase(states[i])
    BY DEF CalmInv, CalmNet
  <2> QED BY <2>1 DEF Phase, InUse, Ahead
<1> QED BY <1>1, CalmKept, PTL
=============================================================================
