-------------------------- MODULE LegacyMainProofs --------------------------
(***************************************************************************)
(* The legacy process, for every number of peers and every segment: its    *)
(* list of connections stays sound, no peer disturbs another, and main     *)
(* gives back what it acquired on every path out.                          *)
(***************************************************************************)
EXTENDS LegacyMain, SequenceTheorems, TLAPS

(* 32-bit arithmetic stays in range.                                       *)
LEMMA SeqRange == SeqMod \in Nat /\ SeqMod >= 4 /\ 0 \in SeqNum /\ 1 \in SeqNum
<1>1. W16 \in Nat /\ W16 >= 2
  BY W16Assumption
<1>2. W16 * W16 \in Nat /\ W16 * W16 >= 4
  BY <1>1
<1> QED BY <1>2 DEF SeqMod, SeqNum

LEMMA AddInRange == ASSUME NEW a \in SeqNum, NEW b \in SeqNum PROVE Add32(a, b) \in SeqNum
  BY SeqRange DEF Add32, SeqNum

LEMMA BlockFields ==
  ASSUME NEW t \in TCB
  PROVE  /\ t.id \in ID /\ t.state \in TCP_State
         /\ t.send.unac \in SeqNum /\ t.send.next \in SeqNum /\ t.send.iss \in SeqNum
         /\ t.recv.next \in SeqNum /\ t.recv.irs \in SeqNum
         /\ t.send = [unac |-> t.send.unac, next |-> t.send.next, iss |-> t.send.iss]
         /\ t.recv = [next |-> t.recv.next, irs |-> t.recv.irs]
  BY DEF TCB

LEMMA SegmentFields ==
  ASSUME NEW g \in Segments
  PROVE  /\ g.id \in ID /\ g.flags \in SUBSET Flag /\ g.seq \in SeqNum /\ g.ack \in SeqNum
         /\ g.len \in SeqNum
  BY InputAssumption DEF Segment

-----------------------------------------------------------------------------
(***************************************************************************)
(* The blocks and replies the paths of tcp_dispatch build.                 *)
(***************************************************************************)
LEMMA SynBlock ==
  ASSUME NEW id \in ID, NEW seq \in SeqNum, NEW iss \in SeqNum
  PROVE  LET t == SynReceived(id, seq, iss)
         IN  t \in TCB /\ t.id = id /\ SynAck(t) \in Reply
<1>1. Add32(iss, 1) \in SeqNum /\ Add32(seq, 1) \in SeqNum /\ 0 \in SeqNum
  BY SeqRange, AddInRange
<1> HIDE DEF Add32
<1> QED BY <1>1 DEF SynReceived, TCB, TCP_State, SynAck, Reply, Flag

LEMMA AckBlock ==
  ASSUME NEW t \in TCB, NEW a \in SeqNum
  PROVE  LET u == [t EXCEPT !.state = "TCP_ESTABLISHED", !.send.unac = a]
         IN  u \in TCB /\ u.id = t.id /\ u.send.iss = t.send.iss /\ u.recv = t.recv
             /\ u.state = "TCP_ESTABLISHED"
  BY DEF TCB, TCP_State

LEMMA FinBlock ==
  ASSUME NEW t \in TCB, NEW n \in SeqNum
  PROVE  LET u == [t EXCEPT !.recv.next = n]
             w == [u EXCEPT !.state = "TCP_CLOSE_WAIT"]
         IN  /\ u \in TCB /\ u.id = t.id
             /\ w \in TCB /\ w.id = t.id /\ w.send.iss = t.send.iss /\ w.recv.irs = t.recv.irs
             /\ w.state = "TCP_CLOSE_WAIT"
  BY DEF TCB, TCP_State

LEMMA DataBlock ==
  ASSUME NEW t \in TCB, NEW n \in SeqNum, NEW k \in SeqNum
  PROVE  LET u == [t EXCEPT !.recv.next = Add32(@, n)]
             w == AfterAck(u, k)
         IN  /\ u \in TCB /\ u.id = t.id
             /\ w \in TCB /\ w.id = t.id /\ w.send.iss = t.send.iss /\ w.recv.irs = t.recv.irs
             /\ w.state = t.state
<1>1. t.recv.next \in SeqNum /\ t.send.next \in SeqNum
  BY BlockFields
<1>2. Add32(t.recv.next, n) \in SeqNum /\ Add32(t.send.next, k) \in SeqNum
  BY <1>1, AddInRange
<1> HIDE DEF Add32
<1> QED BY <1>2 DEF TCB, AfterAck

LEMMA AckReplyTyped == ASSUME NEW t \in TCB, NEW n \in SeqNum PROVE AckReply(t, n) \in Reply
  BY BlockFields DEF AckReply, Reply, Flag

LEMMA RstReply == ASSUME NEW g \in Segments PROVE tcp_null_rst(g) \in Reply
<1>1. CASE Has(g, "ACK")
  BY <1>1, SegmentFields, SeqRange DEF tcp_null_rst, Reply, Flag
<1>2. CASE ~Has(g, "ACK")
  <2>1. SegLen(g) \in Nat /\ g.seq \in Nat
    BY SegmentFields, SeqRange DEF SegLen, SeqNum
  <2>2. (g.seq + SegLen(g)) % SeqMod \in SeqNum
    BY <2>1, SeqRange DEF SeqNum
  <2> HIDE DEF SegLen
  <2> QED BY <1>2, <2>2, SegmentFields, SeqRange DEF tcp_null_rst, Reply, Flag
<1> QED BY <1>1, <1>2

-----------------------------------------------------------------------------
(***************************************************************************)
(* The list, as a function of the sequence that stands for it.             *)
(***************************************************************************)
Where(s, id)   == {i \in 1 .. Len(s) : s[i].id = id}
BlockIn(s, id) == IF Where(s, id) = {} THEN None
                  ELSE s[CHOOSE i \in Where(s, id) : \A j \in Where(s, id) : i <= j]

Sound(s) == /\ s \in Seq(TCB)
            /\ \A i, j \in 1 .. Len(s) : s[i].id = s[j].id => i = j

Without(s, i) == SubSeq(s, 1, i - 1) \o SubSeq(s, i + 1, Len(s))

LEMMA BlockNow == ASSUME NEW id PROVE BlockOf(id) = BlockIn(states, id) /\ Positions(id) = Where(states, id)
  BY Zenon DEF BlockOf, BlockIn, Positions, Where, tcp_get_state

LEMMA BlockNext == ASSUME NEW id PROVE BlockOf(id)' = BlockIn(states', id)
  BY Zenon DEF BlockOf, BlockIn, Positions, Where, tcp_get_state

(* In a sound list the position of a four-tuple is unique.                 *)
LEMMA BlockAt ==
  ASSUME NEW s, Sound(s), NEW k \in 1 .. Len(s)
  PROVE  /\ s[k] \in TCB /\ s[k].id \in ID /\ s[k] # None
         /\ Where(s, s[k].id) = {k} /\ BlockIn(s, s[k].id) = s[k]
<1>1. s[k] \in TCB
  BY ElementOfSeq DEF Sound
<1>2. Where(s, s[k].id) = {k}
  BY DEF Where, Sound
<1>3. Len(s) \in Nat
  BY LenProperties DEF Sound
<1>4. k <= k
  BY <1>3
<1>5. (CHOOSE i \in {k} : \A j \in {k} : i <= j) = k
  BY <1>4
<1> QED BY <1>1, <1>2, <1>5, BlockFields, InputAssumption DEF BlockIn

LEMMA BlockNone ==
  ASSUME NEW s, NEW id, \A k \in 1 .. Len(s) : s[k].id # id
  PROVE  Where(s, id) = {} /\ BlockIn(s, id) = None
  BY Zenon DEF BlockIn, Where

(* tcp_get_state finds the block of a known peer.                          *)
LEMMA GetState ==
  ASSUME Sound(states), NEW id, Positions(id) # {}
  PROVE  /\ tcp_get_state(id) \in 1 .. Len(states) /\ states[tcp_get_state(id)].id = id
         /\ states[tcp_get_state(id)] \in TCB
<1>1. PICK k \in 1 .. Len(states) : states[k].id = id
  BY DEF Positions
<1>2. Positions(id) = {k}
  BY <1>1, BlockNow, BlockAt
<1>3. k <= k
  BY LenProperties DEF Sound
<1>4. tcp_get_state(id) = k
  BY <1>2, <1>3 DEF tcp_get_state
<1> QED BY <1>1, <1>4, BlockAt

(* Two sound lists with the same blocks for other peers.                   *)
LEMMA SameBlock ==
  ASSUME NEW s, NEW u, Sound(s), Sound(u), NEW id,
         \A i \in 1 .. Len(s) : s[i].id = id => \E j \in 1 .. Len(u) : u[j] = s[i],
         \A j \in 1 .. Len(u) : u[j].id = id => \E i \in 1 .. Len(s) : s[i] = u[j]
  PROVE  BlockIn(u, id) = BlockIn(s, id)
<1>1. ASSUME NEW i \in 1 .. Len(s), s[i].id = id PROVE BlockIn(u, id) = BlockIn(s, id)
  <2>1. PICK j \in 1 .. Len(u) : u[j] = s[i]
    BY <1>1
  <2> QED BY <1>1, <2>1, BlockAt
<1>2. ASSUME \A i \in 1 .. Len(s) : s[i].id # id PROVE BlockIn(u, id) = BlockIn(s, id)
  <2>1. \A j \in 1 .. Len(u) : u[j].id # id
    BY <1>2
  <2> QED BY <1>2, <2>1, BlockNone
<1> QED BY <1>1, <1>2

(* Appending a block of a new peer.                                        *)
LEMMA Inserting ==
  ASSUME NEW s, Sound(s), NEW t \in TCB, \A k \in 1 .. Len(s) : s[k].id # t.id
  PROVE  /\ Sound(Append(s, t)) /\ Len(Append(s, t)) = Len(s) + 1
         /\ BlockIn(Append(s, t), t.id) = t
         /\ \A j : j # t.id => BlockIn(Append(s, t), j) = BlockIn(s, j)
<1> DEFINE u == Append(s, t)
<1>1. /\ u \in Seq(TCB) /\ Len(u) = Len(s) + 1 /\ u[Len(s) + 1] = t
      /\ \A k \in 1 .. Len(s) : u[k] = s[k]
  BY AppendProperties DEF Sound
<1>2. Len(s) \in Nat
  BY LenProperties DEF Sound
<1> HIDE DEF u
<1>3. Sound(u)
  <2> SUFFICES ASSUME NEW i \in 1 .. Len(u), NEW j \in 1 .. Len(u), u[i].id = u[j].id PROVE i = j
    BY <1>1, Zenon DEF Sound
  <2>1. (i \in 1 .. Len(s) \/ i = Len(s) + 1) /\ (j \in 1 .. Len(s) \/ j = Len(s) + 1)
    BY <1>1, <1>2
  <2> QED BY <1>1, <2>1 DEF Sound
<1>4. Len(s) + 1 \in 1 .. Len(u)
  BY <1>1, <1>2
<1>5. BlockIn(u, t.id) = t
  BY <1>1, <1>3, <1>4, BlockAt
<1>6. ASSUME NEW j, j # t.id PROVE BlockIn(u, j) = BlockIn(s, j)
  <2>1. \A i \in 1 .. Len(s) : i \in 1 .. Len(u) /\ u[i] = s[i]
    BY <1>1, <1>2
  <2>2. \A k \in 1 .. Len(u) : k \in 1 .. Len(s) \/ u[k] = t
    BY <1>1, <1>2
  <2>3. \A i \in 1 .. Len(s) : s[i].id = j => \E k \in 1 .. Len(u) : u[k] = s[i]
    BY <2>1
  <2>4. \A k \in 1 .. Len(u) : u[k].id = j => \E i \in 1 .. Len(s) : s[i] = u[k]
    BY <1>1, <1>6, <2>2
  <2> QED BY <1>3, <2>3, <2>4, SameBlock
<1> QED BY <1>1, <1>3, <1>5, <1>6 DEF u

(* Overwriting a block.                                                    *)
LEMMA Updating ==
  ASSUME NEW s, Sound(s), NEW k \in 1 .. Len(s), NEW t \in TCB, t.id = s[k].id,
         NEW u \in Seq(TCB), Len(u) = Len(s), u[k] = t, \A i \in 1 .. Len(s) : i # k => u[i] = s[i]
  PROVE  /\ Sound(u) /\ Len(u) = Len(s) /\ BlockIn(u, t.id) = t
         /\ \A j : j # t.id => BlockIn(u, j) = BlockIn(s, j)
<1>1. u \in Seq(TCB) /\ Len(u) = Len(s) /\ u[k] = t /\ \A i \in 1 .. Len(s) : i # k => u[i] = s[i]
  OBVIOUS
<1>2. \A i \in 1 .. Len(s) : u[i].id = s[i].id
  BY <1>1
<1>3. Sound(u)
  BY <1>1, <1>2 DEF Sound
<1>4. BlockIn(u, t.id) = t
  BY <1>1, <1>3, BlockAt
<1>5. ASSUME NEW j, j # t.id PROVE BlockIn(u, j) = BlockIn(s, j)
  <2>1. \A i \in 1 .. Len(s) : s[i].id = j \/ u[i].id = j => u[i] = s[i]
    BY <1>1, <1>2, <1>5
  <2>2. \A i \in 1 .. Len(s) : s[i].id = j => \E m \in 1 .. Len(u) : u[m] = s[i]
    BY <1>1, <2>1
  <2>3. \A m \in 1 .. Len(u) : u[m].id = j => \E i \in 1 .. Len(s) : s[i] = u[m]
    BY <1>1, <2>1
  <2> QED BY <1>3, <2>2, <2>3, SameBlock
<1> QED BY <1>1, <1>3, <1>4, <1>5

(* Unlinking one.                                                          *)
LEMMA WithoutSeq ==
  ASSUME NEW s \in Seq(TCB), NEW k \in 1 .. Len(s)
  PROVE  /\ Without(s, k) \in Seq(TCB) /\ Len(Without(s, k)) = Len(s) - 1
         /\ \A i \in 1 .. Len(s) - 1 : Without(s, k)[i] = s[IF i < k THEN i ELSE i + 1]
<1> DEFINE a == SubSeq(s, 1, k - 1)
           b == SubSeq(s, k + 1, Len(s))
<1>1. Len(s) \in Nat
  BY LenProperties
<1>2. a \in Seq(TCB) /\ Len(a) = k - 1 /\ \A i \in 1 .. k - 1 : a[i] = s[i]
  BY <1>1, SubSeqProperties
<1>3. b \in Seq(TCB) /\ Len(b) = Len(s) - k /\ \A i \in 1 .. Len(s) - k : b[i] = s[k + i]
  BY <1>1, SubSeqProperties
<1> HIDE DEF a, b
<1>4. /\ a \o b \in Seq(TCB) /\ Len(a \o b) = Len(a) + Len(b)
      /\ \A i \in 1 .. Len(a) + Len(b) : (a \o b)[i] = IF i <= Len(a) THEN a[i] ELSE b[i - Len(a)]
  BY <1>2, <1>3, ConcatProperties
<1>5. ASSUME NEW i \in 1 .. Len(s) - 1 PROVE (a \o b)[i] = s[IF i < k THEN i ELSE i + 1]
  <2>1. CASE i < k
    BY <1>1, <1>2, <1>3, <1>4, <2>1
  <2>2. CASE ~(i < k)
    <3>1. i - (k - 1) \in 1 .. Len(s) - k /\ k + (i - (k - 1)) = i + 1 /\ ~(i <= k - 1)
      BY <1>1, <2>2
    <3>2. b[i - (k - 1)] = s[i + 1]
      BY <1>3, <3>1
    <3> QED BY <1>1, <1>2, <1>3, <1>4, <2>2, <3>1, <3>2
  <2> QED BY <2>1, <2>2
<1>6. a \o b \in Seq(TCB) /\ Len(a \o b) = Len(s) - 1
  BY <1>1, <1>2, <1>3, <1>4
<1>7. Without(s, k) = a \o b
  BY DEF Without, a, b
<1> QED BY <1>5, <1>6, <1>7

LEMMA Removing ==
  ASSUME NEW s, Sound(s), NEW k \in 1 .. Len(s)
  PROVE  LET u == Without(s, k)
         IN  /\ Sound(u) /\ Len(u) = Len(s) - 1 /\ BlockIn(u, s[k].id) = None
             /\ \A j : j # s[k].id => BlockIn(u, j) = BlockIn(s, j)
<1> DEFINE u == Without(s, k)
           At(i) == IF i < k THEN i ELSE i + 1
<1>1. /\ u \in Seq(TCB) /\ Len(u) = Len(s) - 1 /\ Len(s) \in Nat
      /\ \A i \in 1 .. Len(u) : u[i] = s[At(i)]
  BY WithoutSeq, LenProperties DEF Sound
<1> HIDE DEF u
<1>2. \A i \in 1 .. Len(u) : At(i) \in 1 .. Len(s) /\ At(i) # k
  BY <1>1
<1>3. \A i, j \in 1 .. Len(u) : At(i) = At(j) => i = j
  BY <1>1
<1>4. \A i \in 1 .. Len(s) : i # k => \E m \in 1 .. Len(u) : At(m) = i
  <2> SUFFICES ASSUME NEW i \in 1 .. Len(s), i # k PROVE \E m \in 1 .. Len(u) : At(m) = i
    OBVIOUS
  <2>1. CASE i < k
    BY <1>1, <2>1
  <2>2. CASE i > k
    <3>1. i - 1 \in 1 .. Len(u) /\ At(i - 1) = i
      BY <1>1, <2>2
    <3> QED BY <3>1
  <2> QED BY <1>1, <2>1, <2>2
<1> HIDE DEF At
<1>5. Sound(u)
  BY <1>1, <1>2, <1>3 DEF Sound
<1>6. \A i \in 1 .. Len(u) : u[i].id # s[k].id
  BY <1>1, <1>2 DEF Sound
<1>7. BlockIn(u, s[k].id) = None
  BY <1>6, BlockNone
<1>8. ASSUME NEW j, j # s[k].id PROVE BlockIn(u, j) = BlockIn(s, j)
  <2>1. \A i \in 1 .. Len(s) : s[i].id = j => \E m \in 1 .. Len(u) : u[m] = s[i]
    BY <1>1, <1>4, <1>8
  <2>2. \A m \in 1 .. Len(u) : u[m].id = j => \E i \in 1 .. Len(s) : s[i] = u[m]
    BY <1>1, <1>2
  <2> QED BY <1>5, <2>1, <2>2, SameBlock
<1> QED BY <1>1, <1>5, <1>7, <1>8 DEF u

-----------------------------------------------------------------------------
(***************************************************************************)
(* The inductive invariant of tcp_dispatch, and what a step for segment g  *)
(* may do to the list.                                                     *)
(***************************************************************************)
ServerInv == /\ Sound(states) /\ size = Len(states) /\ alive \in BOOLEAN
             /\ out \in Reply \cup {None}

Keeps(old, new) ==
  /\ new # None
  /\ old.state # "TCP_SYN_RECEIVED" =>
       /\ new.send.iss = old.send.iss /\ new.recv.irs = old.recv.irs
       /\ new.state # "TCP_SYN_RECEIVED"

OnlyTouches(id) ==
  /\ \A j : j # id => BlockIn(states', j) = BlockIn(states, j)
  /\ \/ BlockIn(states, id) = None
     \/ BlockIn(states', id) \in {None, BlockIn(states, id)}
     \/ Keeps(BlockIn(states, id), BlockIn(states', id))

(* A path that updates the block of a known peer.                          *)
LEMMA UpdateStep ==
  ASSUME ServerInv, NEW g \in Segments, ~Unknown(g), NEW t \in TCB, t.id = g.id,
         Keeps(Block(g), t), Update(g, t), size' = size, alive' \in BOOLEAN,
         out' \in Reply \cup {None}
  PROVE  ServerInv' /\ OnlyTouches(g.id)
<1> DEFINE k == tcp_get_state(g.id)
<1>1. Sound(states) /\ k \in 1 .. Len(states) /\ states[k].id = g.id /\ Block(g) = states[k]
  BY GetState DEF ServerInv, Unknown, Block
<1>2. states' = [states EXCEPT ![k] = t]
  BY DEF Update
<1> HIDE DEF k
<1>3. /\ states' \in Seq(TCB) /\ Len(states') = Len(states) /\ states'[k] = t
      /\ \A i \in 1 .. Len(states) : i # k => states'[i] = states[i]
  BY <1>1, <1>2, ExceptSeq DEF Sound
<1>4. /\ Sound(states') /\ Len(states') = Len(states) /\ BlockIn(states', g.id) = t
      /\ \A j : j # g.id => BlockIn(states', j) = BlockIn(states, j)
  BY <1>1, <1>3, Updating
<1>5. BlockIn(states, g.id) = Block(g)
  BY <1>1, BlockAt
<1>6. ServerInv'
  BY <1>4 DEF ServerInv
<1> QED BY <1>4, <1>5, <1>6 DEF OnlyTouches

LEMMA SameStep ==
  ASSUME ServerInv, NEW id, states' = states, size' = size, alive' \in BOOLEAN,
         out' \in Reply \cup {None}
  PROVE  ServerInv' /\ OnlyTouches(id)
  BY DEF ServerInv, OnlyTouches

LEMMA DispatchStep ==
  ASSUME ServerInv, NEW g \in Segments, tcp_dispatch(g)
  PROVE  ServerInv' /\ OnlyTouches(g.id)
<1>0. Sound(states) /\ size = Len(states) /\ alive \in BOOLEAN /\ IssValues \subseteq SeqNum
  BY InputAssumption DEF ServerInv
<1>1. CASE states' = states /\ size' = size /\ alive' \in BOOLEAN /\ out' \in Reply \cup {None}
  BY <1>1, SameStep
<1>2. CASE UnknownReset(g) \/ UnknownSynNoMemory(g) \/ Unexpected(g) \/ DataNoMemory(g) \/ NoData(g) \/ CloseWait(g)
  <2>1. states' = states /\ size' = size /\ alive' \in BOOLEAN /\ out' = None
    BY <1>0, <1>2, Zenon DEF UnknownReset, UnknownSynNoMemory, Unexpected, DataNoMemory, NoData, CloseWait, Silent
  <2> QED BY <1>1, <2>1
<1>3. CASE UnknownOther(g)
  <2>1. states' = states /\ size' = size /\ alive' = alive /\ out' = tcp_null_rst(g)
    BY <1>3, Zenon DEF UnknownOther, Send
  <2> QED BY <1>0, <1>1, <2>1, RstReply
<1>4. CASE UnknownSyn(g)
  <2>1. PICK iss \in IssValues : /\ states' = Append(states, SynReceived(g.id, g.seq, iss))
                                 /\ out' = SynAck(SynReceived(g.id, g.seq, iss))
    BY <1>4, Zenon DEF UnknownSyn, tcp_insert_tcb, Send
  <2>2. size' = size + 1 /\ alive' = alive /\ Positions(g.id) = {}
    BY <1>4, Zenon DEF UnknownSyn, Send, Unknown
  <2> DEFINE t == SynReceived(g.id, g.seq, iss)
  <2>3. t \in TCB /\ t.id = g.id /\ out' \in Reply /\ states' = Append(states, t)
    BY <1>0, <2>1, SegmentFields, SynBlock
  <2> HIDE DEF t
  <2>4. \A i \in 1 .. Len(states) : states[i].id # t.id
    BY <2>2, <2>3 DEF Positions
  <2>5. /\ Sound(states') /\ Len(states') = Len(states) + 1
        /\ \A j : j # g.id => BlockIn(states', j) = BlockIn(states, j)
    BY <1>0, <2>3, <2>4, Inserting
  <2>6. BlockIn(states, g.id) = None
    BY <2>3, <2>4, BlockNone
  <2>7. ServerInv'
    BY <1>0, <2>2, <2>3, <2>5 DEF ServerInv
  <2> QED BY <2>5, <2>6, <2>7 DEF OnlyTouches
<1>5. CASE Reset(g)
  <2> DEFINE k == tcp_get_state(g.id)
  <2>1. k \in 1 .. Len(states) /\ states[k].id = g.id /\ out' = None /\ alive' = alive
    BY <1>0, <1>5, GetState, Zenon DEF Reset, Unknown, Silent
  <2>2. \/ states' = states /\ size' = size
        \/ states' = Without(states, k) /\ size' = size - 1
    BY <1>5, Zenon DEF Reset, tcp_remove_connection, Without
  <2> HIDE DEF k
  <2>3. CASE states' = Without(states, k) /\ size' = size - 1
    <3>1. /\ Sound(states') /\ Len(states') = Len(states) - 1 /\ BlockIn(states', g.id) = None
          /\ \A j : j # g.id => BlockIn(states', j) = BlockIn(states, j)
      BY <1>0, <2>1, <2>3, Removing
    <3>2. ServerInv'
      BY <1>0, <2>1, <2>3, <3>1 DEF ServerInv
    <3> QED BY <3>1, <3>2 DEF OnlyTouches
  <2> QED BY <1>0, <1>1, <2>1, <2>2, <2>3
<1>6. ASSUME NEW s, In(g, s)
      PROVE  ~Unknown(g) /\ Block(g) \in TCB /\ Block(g).id = g.id /\ Block(g).state = s
  BY <1>0, <1>6, GetState DEF In, Known, Unknown, Block
<1>7. ASSUME NEW t \in TCB PROVE t # None
  BY InputAssumption
<1>8. CASE RepeatedSyn(g)
  <2>1. PICK iss \in IssValues : Update(g, SynReceived(g.id, g.seq, iss))
    BY <1>8, Zenon DEF RepeatedSyn
  <2>2. size' = size /\ alive' = alive /\ out' = None /\ In(g, "TCP_SYN_RECEIVED")
    BY <1>8, Zenon DEF RepeatedSyn, Silent
  <2> DEFINE t == SynReceived(g.id, g.seq, iss)
  <2>3. t \in TCB /\ t.id = g.id /\ Update(g, t)
    BY <1>0, <2>1, SegmentFields, SynBlock
  <2> HIDE DEF t
  <2>4. Keeps(Block(g), t)
    BY <1>6, <1>7, <2>2, <2>3 DEF Keeps
  <2> QED BY <1>0, <1>6, <2>2, <2>3, <2>4, UpdateStep
<1>9. CASE FinalAck(g)
  <2>1. size' = size /\ alive' = alive /\ out' = None /\ In(g, "TCP_SYN_RECEIVED")
    BY <1>9, Zenon DEF FinalAck, Silent
  <2> DEFINE t == [Block(g) EXCEPT !.state = "TCP_ESTABLISHED", !.send.unac = g.ack]
  <2>2. states' = states \/ Update(g, t)
    BY <1>9, Zenon DEF FinalAck
  <2>3. CASE Update(g, t)
    <3>1. t \in TCB /\ t.id = g.id
      BY <1>6, <2>1, SegmentFields, AckBlock
    <3> HIDE DEF t
    <3>2. Keeps(Block(g), t)
      BY <1>6, <1>7, <2>1, <3>1 DEF Keeps
    <3> QED BY <1>0, <1>6, <2>1, <2>3, <3>1, <3>2, UpdateStep
  <2> QED BY <1>0, <1>1, <2>1, <2>2, <2>3
<1>10. CASE Fin(g)
  <2> DEFINE u == [Block(g) EXCEPT !.recv.next = Add32(g.seq, 1)]
             t == [u EXCEPT !.state = "TCP_CLOSE_WAIT"]
  <2>1. Update(g, t) /\ out' = AckReply(u, 0)
    BY <1>10, Zenon DEF Fin, Send
  <2>2. size' = size /\ alive' = alive /\ In(g, "TCP_ESTABLISHED")
    BY <1>10, Zenon DEF Fin, Send
  <2>3. Add32(g.seq, 1) \in SeqNum /\ 0 \in SeqNum
    BY SegmentFields, SeqRange, AddInRange
  <2>4. /\ u \in TCB /\ t \in TCB /\ t.id = g.id /\ t.send.iss = Block(g).send.iss
        /\ t.recv.irs = Block(g).recv.irs /\ t.state = "TCP_CLOSE_WAIT"
    BY <1>6, <2>2, <2>3, FinBlock
  <2>5. out' \in Reply
    BY <2>1, <2>3, <2>4, AckReplyTyped
  <2> HIDE DEF u, t
  <2>6. Keeps(Block(g), t)
    BY <1>7, <2>4 DEF Keeps
  <2> QED BY <1>0, <1>6, <2>1, <2>2, <2>4, <2>5, <2>6, UpdateStep
<1>11. CASE tcp_handle_data(g)
  <2> DEFINE u == [Block(g) EXCEPT !.recv.next = Add32(@, g.len)]
  <2>1. PICK body \in http_handle_request(g) :
          Update(g, AfterAck(u, BodyLen[body])) /\ out' = AckReply(u, BodyLen[body])
    BY <1>11, Zenon DEF tcp_handle_data, Send
  <2>2. size' = size /\ alive' = alive /\ In(g, "TCP_ESTABLISHED")
    BY <1>11, Zenon DEF tcp_handle_data, Send
  <2>3. BodyLen[body] \in SeqNum
    BY BodyAssumption DEF http_handle_request, http_serve_file, Body
  <2> DEFINE t == AfterAck(u, BodyLen[body])
  <2>4. /\ u \in TCB /\ t \in TCB /\ t.id = g.id /\ t.send.iss = Block(g).send.iss
        /\ t.recv.irs = Block(g).recv.irs /\ t.state = "TCP_ESTABLISHED"
    BY <1>6, <2>2, <2>3, SegmentFields, DataBlock
  <2>5. out' \in Reply /\ Update(g, t)
    BY <2>1, <2>3, <2>4, AckReplyTyped
  <2> HIDE DEF u, t
  <2>6. Keeps(Block(g), t)
    BY <1>7, <2>4 DEF Keeps
  <2> QED BY <1>0, <1>6, <2>2, <2>4, <2>5, <2>6, UpdateStep
<1> QED BY <1>2, <1>3, <1>4, <1>5, <1>8, <1>9, <1>10, <1>11 DEF tcp_dispatch

-----------------------------------------------------------------------------
(***************************************************************************)
(* main: what it owns is a function of where it is.                        *)
(***************************************************************************)
Names == {"ip_addr", "tun_name"}

Holds == [m \in {"args", "ip", "name", "alloc", "ioctl", "bind", "buffer", "serve", "exit"} |->
            CASE m \in {"args", "ip", "exit"}         -> {}
              [] m = "name"                           -> {"ip_addr"}
              [] m = "alloc"                          -> Names
              [] m \in {"ioctl", "bind", "buffer"}    -> virtual_device_destroy
              [] m = "serve"                          -> virtual_device_destroy \cup {"tu"}]

MainInv == mpc \in DOMAIN Holds /\ owned = Holds[mpc] /\ botched = FALSE

LegacyInv == ServerInv /\ MainInv

LEMMA LegacyInit == MainInit => LegacyInv
<1> SUFFICES ASSUME MainInit PROVE LegacyInv
  OBVIOUS
<1>1. states = <<>> /\ size = 0 /\ alive = TRUE /\ out = None
  BY DEF MainInit, Init
<1>2. states \in Seq(TCB) /\ Len(states) = 0
  BY <1>1, EmptySeq
<1>3. ServerInv
  BY <1>1, <1>2 DEF ServerInv, Sound
<1>4. MainInv
  BY DEF MainInit, MainInv, Holds
<1> QED BY <1>3, <1>4 DEF LegacyInv

LEMMA MainStep == MainInv /\ [MainNext]_legacyVars => MainInv'
<1> SUFFICES ASSUME MainInv, [MainNext]_legacyVars PROVE MainInv'
  OBVIOUS
<1> USE DEF MainInv, Holds, Names, virtual_device_destroy
<1>1. CASE Arguments
  BY <1>1 DEF Arguments
<1>2. CASE AllocIp
  BY <1>2 DEF AllocIp, Acquire, Returns
<1>3. CASE AllocName
  BY <1>3 DEF AllocName, Acquire, Returns
<1>4. CASE OpenDevice
  BY <1>4 DEF OpenDevice, Acquire, Returns
<1>5. CASE SetIff
  BY <1>5 DEF SetIff, Returns
<1>6. CASE tun_init
  BY <1>6 DEF tun_init, Returns
<1>7. CASE AllocTu
  BY <1>7 DEF AllocTu, Acquire, Returns
<1>8. CASE ReadEnds
  BY <1>8 DEF ReadEnds, Returns
<1>9. CASE UNCHANGED <<mpc, owned, botched>>
  BY <1>9
<1>10. ReadOther \/ (\E seg \in Segments : ReadTcp(seg)) \/ (\E type \in IcmpTypes : ReadIcmp(type))
         \/ UNCHANGED legacyVars => UNCHANGED <<mpc, owned, botched>>
  BY Zenon DEF ReadOther, ReadTcp, ReadIcmp, legacyVars, mainVars
<1> QED BY <1>1, <1>2, <1>3, <1>4, <1>5, <1>6, <1>7, <1>8, <1>9, <1>10 DEF MainNext, StartUp

(* What a step of the process does to the server: a segment, or nothing.   *)
LEMMA ServerStep ==
  ASSUME ServerInv, [MainNext]_legacyVars
  PROVE  ServerInv' /\ (UNCHANGED states \/ \E g \in Segments : OnlyTouches(g.id))
<1>1. ASSUME NEW g \in Segments, ReadTcp(g) PROVE ServerInv' /\ OnlyTouches(g.id)
  BY <1>1, DispatchStep DEF ReadTcp
<1>2. CASE UNCHANGED <<states, size, alive>> /\ out' \in {None, out}
  <2>1. ServerInv'
    BY <1>2 DEF ServerInv
  <2> QED BY <1>2, <2>1
<1>3. ReadOther \/ (\E type \in IcmpTypes : ReadIcmp(type)) =>
        UNCHANGED <<states, size, alive>> /\ out' = None
  BY Zenon DEF ReadOther, ReadIcmp
<1>4. StartUp \/ ReadEnds \/ UNCHANGED legacyVars => UNCHANGED <<states, size, alive>> /\ out' = out
  BY Zenon DEF StartUp, Arguments, AllocIp, AllocName, OpenDevice, SetIff, tun_init, AllocTu, Acquire,
               ReadEnds, vars, legacyVars
<1> QED BY <1>1, <1>2, <1>3, <1>4 DEF MainNext

LEMMA LegacyInvariant == MainSpec => []LegacyInv
<1>1. LegacyInv /\ [MainNext]_legacyVars => LegacyInv'
  BY MainStep, ServerStep DEF LegacyInv
<1> QED BY <1>1, LegacyInit, PTL DEF MainSpec

(* Every list of blocks and every reply of the legacy server is well       *)
(* typed: no number leaves the 32-bit space.                               *)
THEOREM TypeCorrect == MainSpec => []TypeOK
<1>1. LegacyInv => TypeOK
  <2> SUFFICES ASSUME LegacyInv PROVE TypeOK
    OBVIOUS
  <2>1. Sound(states) /\ size = Len(states) /\ alive \in BOOLEAN /\ out \in Reply \cup {None}
    BY DEF LegacyInv, ServerInv
  <2>2. states \in Seq(TCB) /\ Len(states) \in Nat
    BY <2>1, LenProperties DEF Sound
  <2> QED BY <2>1, <2>2 DEF TypeOK
<1> QED BY <1>1, LegacyInvariant, PTL

(* The linked list keeps one block per four-tuple and counts them exactly, *)
(* whichever peers connect, repeat themselves and reset, in any order.     *)
THEOREM ListStaysSound == MainSpec => []ListSound
<1>1. LegacyInv => ListSound
  BY DEF LegacyInv, ServerInv, Sound, ListSound
<1> QED BY <1>1, LegacyInvariant, PTL

(* main gives back what it owns, once, on every path out.                  *)
THEOREM GivesBack == MainSpec => []MainReleases
<1>1. LegacyInv => MainReleases
  BY DEF LegacyInv, MainInv, Holds, MainReleases
<1> QED BY <1>1, LegacyInvariant, PTL

(* No segment touches the block of another peer, and none but a reset of   *)
(* its own takes an established connection away or renumbers it.           *)
THEOREM PeersAreIsolated == MainSpec => Isolation
<1> DEFINE Alone(id) ==
      LET old == BlockOf(id)
      IN  old # None =>
            \/ BlockOf(id)' = old
            \/ BlockOf(id)' = None /\ \A j \in ID \ {id} : BlockOf(j)' = BlockOf(j)
            \/ /\ BlockOf(id)' # None
               /\ old.state # "TCP_SYN_RECEIVED" =>
                    /\ BlockOf(id)'.send.iss = old.send.iss
                    /\ BlockOf(id)'.recv.irs = old.recv.irs
                    /\ BlockOf(id)'.state # "TCP_SYN_RECEIVED"
               /\ \A j \in ID \ {id} : BlockOf(j)' = BlockOf(j)
<1>1. LegacyInv /\ [MainNext]_legacyVars => [\A id \in ID : Alone(id)]_vars
  <2> SUFFICES ASSUME LegacyInv, [MainNext]_legacyVars, NEW id \in ID PROVE Alone(id)
    OBVIOUS
  <2>1. \A j : BlockOf(j) = BlockIn(states, j) /\ BlockOf(j)' = BlockIn(states', j)
    BY BlockNow, BlockNext
  <2>2. CASE states' = states
    BY <2>1, <2>2
  <2>3. ASSUME NEW g \in Segments, OnlyTouches(g.id) PROVE Alone(id)
    <3>1. \A j : j # g.id => BlockOf(j)' = BlockOf(j)
      BY <2>1, <2>3 DEF OnlyTouches
    <3>2. CASE id # g.id
      BY <3>1, <3>2
    <3>3. CASE id = g.id
      <4>1. \/ BlockOf(id) = None
            \/ BlockOf(id)' \in {None, BlockOf(id)}
            \/ Keeps(BlockOf(id), BlockOf(id)')
        BY <2>1, <2>3, <3>3 DEF OnlyTouches
      <4> QED BY <3>1, <3>3, <4>1 DEF Keeps
    <3> QED BY <3>2, <3>3
  <2> QED BY <2>2, <2>3, ServerStep DEF LegacyInv
<1> QED BY <1>1, LegacyInvariant, PTL DEF MainSpec, Isolation
=============================================================================
