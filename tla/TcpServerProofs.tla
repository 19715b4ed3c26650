-------------------------- MODULE TcpServerProofs --------------------------
(***************************************************************************)
(* The connection table stays sound for any number of buckets, any initial *)
(* capacity, any hash function, any set of four-tuples and of addresses,   *)
(* and tcp_dispatch keeps it sound and the numbers of every block in step  *)
(* with its handshake, for every sequence number and every segment.        *)
(*                                                                         *)
(* The lemmas of the first part say what each operation of hash.c does to  *)
(* a sound store; those of the second chain them the way tcp_dispatch      *)
(* chains the calls.                                                       *)
(***************************************************************************)
EXTENDS TcpServer, FiniteSetTheorems, SequenceTheorems, TLAPS

(***************************************************************************)
(* The connection table.                                                   *)
(***************************************************************************)
LEMMA Constant ==
  /\ W16 \in Nat /\ W16 > 0 /\ SeqMod \in Nat /\ SeqMod > 0 /\ 0 \in SeqNum
  /\ HT_SIZE \in Nat /\ HT_SIZE > 0 /\ DEF_CAP \in Nat /\ DEF_CAP > 0
<1>1. W16 \in Nat /\ W16 > 0
  BY W16Assumption
<1>2. W16 * W16 \in Nat /\ W16 * W16 > 0
  BY <1>1
<1> QED BY <1>1, <1>2, TableAssumption DEF SeqMod, SeqNum

LEMMA FreshBlock == ASSUME NEW id \in ID PROVE tcb_init(id) \in TCB /\ tcb_init(id).id = id
<1>1. 0 \in SeqNum /\ 0 \in 0 .. W16 - 1
  BY Constant
<1> QED BY <1>1 DEF tcb_init, TCB, Send_State, Receive_State, Con_State

LEMMA HashInRange == ASSUME NEW id \in ID PROVE hash_id(id) \in Bucket
  BY TableAssumption DEF hash_id

LEMMA BlockID == ASSUME NEW t \in TCB PROVE t.id \in ID
  BY DEF TCB

-----------------------------------------------------------------------------
(* In a sound store the slots of a bucket that match an ID are one at      *)
(* most, so FirstMatch means that slot.                                    *)
LEMMA UniqueMatch ==
  ASSUME NEW s, StoreOK(s), NEW b \in Bucket, NEW id \in ID,
         NEW m \in Matches(s, s.vec[b], id)
  PROVE  /\ Matches(s, s.vec[b], id) = {m} /\ FirstMatch(s, s.vec[b], id) = m
         /\ m \in 1 .. Len(s.vec[b]) /\ s.vec[b][m] \in Live(s)
         /\ s.heap[s.vec[b][m]].id = id
<1> DEFINE v == s.vec[b]
           M == Matches(s, v, id)
<1>0. v \in Seq(Ptr) /\ Len(v) \in Nat
  BY DEF StoreOK, StoreType
<1>1. m \in 1 .. Len(v) /\ v[m] \in Live(s) /\ s.heap[v[m]].id = id
  BY <1>0 DEF Matches, StoreOK, NoDanglingSlot
<1>2. ASSUME NEW j \in M PROVE j = m
  <2>1. j \in 1 .. Len(v) /\ v[j] \in Live(s) /\ s.heap[v[j]].id = id
    BY <1>0 DEF Matches, StoreOK, NoDanglingSlot
  <2>2. v[j] = v[m]
    BY <1>1, <2>1 DEF StoreOK, OneBlockPerID
  <2> QED BY <1>1, <2>1, <2>2 DEF StoreOK, NoDanglingSlot
<1>3. M = {m} /\ m \in Nat
  <2>1. m \in M /\ m \in Nat
    BY <1>0, <1>1
  <2> HIDE DEF M
  <2> QED BY <1>2, <2>1
<1>4. FirstMatch(s, v, id) = m
  BY <1>3 DEF FirstMatch
<1> QED BY <1>1, <1>3, <1>4

(* hash_find returns the block of the ID, and NULL only when there is none.*)
LEMMA FindSpec ==
  ASSUME NEW s, StoreOK(s), NEW id \in ID
  PROVE  /\ hash_find(s, id) = NULL => \A q \in Live(s) : s.heap[q].id # id
         /\ hash_find(s, id) # NULL => hash_find(s, id) \in Live(s)
                                       /\ s.heap[hash_find(s, id)].id = id
<1> DEFINE v == s.vec[hash_id(id)]
           M == Matches(s, v, id)
<1>0. hash_id(id) \in Bucket
  BY HashInRange
<1>1. CASE M = {} \/ ~s.init
  <2>1. hash_find(s, id) = NULL
    BY <1>1 DEF hash_find
  <2>2. ASSUME NEW q \in Live(s), s.heap[q].id = id PROVE FALSE
    BY <1>1, <2>2 DEF StoreOK, NoLeak, Matches
  <2> QED BY <2>1, <2>2
<1>2. CASE M # {} /\ s.init
  <2>1. PICK m \in M : TRUE
    BY <1>2
  <2>2. hash_find(s, id) = v[m] /\ v[m] \in Live(s) /\ s.heap[v[m]].id = id
    BY <1>0, <1>2, <2>1, UniqueMatch DEF hash_find
  <2>3. v[m] # NULL
    BY <2>2, PtrAssumption DEF StoreOK, StoreType
  <2> QED BY <2>2, <2>3
<1> QED BY <1>1, <1>2

-----------------------------------------------------------------------------
(* A store that is not initialised holds nothing.                          *)
LEMMA Uninitialised ==
  ASSUME NEW s, StoreOK(s), ~s.init
  PROVE  Live(s) = {} /\ s.size = 0 /\ \A b \in Bucket : s.vec[b] = <<>>
<1>1. Live(s) = {}
  BY DEF StoreOK, NoLeak
<1>2. s.size = 0
  BY <1>1, FS_EmptySet DEF StoreOK, SizeExact
<1>3. ASSUME NEW b \in Bucket PROVE s.vec[b] = <<>>
  <2>1. s.vec[b] \in Seq(Ptr) /\ Len(s.vec[b]) \in Nat
    BY DEF StoreOK, StoreType
  <2>2. 1 \notin 1 .. Len(s.vec[b])
    BY <1>1 DEF StoreOK, NoDanglingSlot
  <2>3. Len(s.vec[b]) = 0
    BY <2>1, <2>2
  <2> QED BY <2>1, <2>3
<1> QED BY <1>1, <1>2, <1>3

(* hash_init, complete or not, turns such a store into a sound one that    *)
(* still holds nothing.                                                    *)
LEMMA InitSound ==
  ASSUME NEW s, StoreOK(s), ~s.init, NEW n \in 0 .. HT_SIZE
  PROVE  /\ StoreOK(hash_init(s, n)) /\ Live(hash_init(s, n)) = Live(s)
         /\ hash_init(s, n).init = (n = HT_SIZE)
<1> DEFINE t == hash_init(s, n)
<1>1. /\ t.init = (n = HT_SIZE) /\ t.heap = s.heap
      /\ t.vec = [b \in Bucket |-> IF b < n THEN <<>> ELSE s.vec[b]]
      /\ t.cap = [b \in Bucket |-> IF b < n THEN DEF_CAP ELSE s.cap[b]]
      /\ t.size = (IF n = HT_SIZE THEN 0 ELSE s.size)
      /\ DOMAIN t = {"init", "size", "vec", "cap", "heap"}
  BY DEF hash_init
<1>2. Live(s) = {} /\ s.size = 0 /\ \A b \in Bucket : s.vec[b] = <<>>
  BY Uninitialised
<1>3. t.size = 0 /\ t.vec = [b \in Bucket |-> <<>>] /\ Live(t) = {} /\ Live(t) = Live(s)
  BY <1>1, <1>2 DEF Live
<1> HIDE DEF t
<1>4. StoreType(t)
  <2>1. t.vec \in [Bucket -> Seq(Ptr)]
    BY <1>3
  <2>2. t.cap \in [Bucket -> Nat]
    BY <1>1, Constant DEF StoreOK, StoreType
  <2> QED BY <1>1, <1>3, <2>1, <2>2 DEF StoreType, StoreOK, Live
<1>5. \A b \in Bucket : Len(t.vec[b]) = 0
  BY <1>3
<1>6. NoDanglingSlot(t) /\ NoLeak(t) /\ OneBlockPerID(t)
  BY <1>3, <1>5 DEF NoDanglingSlot, NoLeak, OneBlockPerID
<1>7. WithinCapacity(t)
  <2>1. ASSUME NEW b \in Bucket PROVE 0 <= t.cap[b] /\ (n = HT_SIZE => t.cap[b] >= DEF_CAP)
    BY <1>1, <1>4, Constant DEF StoreType, Bucket
  <2> QED BY <1>1, <1>5, <2>1 DEF WithinCapacity
<1>8. SizeExact(t)
  BY <1>3, FS_EmptySet DEF SizeExact
<1>9. StoreOK(t) /\ Live(t) = Live(s) /\ t.init = (n = HT_SIZE)
  BY <1>1, <1>3, <1>4, <1>6, <1>7, <1>8 DEF StoreOK
<1> QED BY <1>9 DEF t

LEMMA FailuresSound ==
  ASSUME NEW s, StoreOK(s), NEW t \in InsertFailures(s)
  PROVE  StoreOK(t) /\ Live(t) = Live(s) /\ (t = s \/ Live(t) = {})
<1>1. CASE t = s
  BY <1>1
<1>2. CASE t # s
  <2>1. PICK n \in 0 .. HT_SIZE - 1 : ~s.init /\ t = hash_init(s, n)
    BY <1>2 DEF InsertFailures
  <2> QED BY <2>1, InitSound, Uninitialised, Constant
<1> QED BY <1>1, <1>2

-----------------------------------------------------------------------------
(* The caller of hash_insert has a fresh block and an ID without one.      *)
CanInsert(s, p, id) ==
  StoreOK(s) /\ id \in ID /\ p \in Ptr \ Live(s) /\ \A q \in Live(s) : s.heap[q].id # id

(* What it gets: a sound table with the new block and the old ones.        *)
Inserted(s, p, id, u) ==
  /\ StoreOK(u) /\ Live(u) = Live(s) \cup {p} /\ u.heap[p] = tcb_init(id)
  /\ \A q \in Live(s) : u.heap[q] = s.heap[q]

LEMMA InsertIntoInitialised ==
  ASSUME NEW s, NEW p, NEW id, CanInsert(s, p, id), s.init = TRUE
  PROVE  Inserted(s, p, id, hash_insert(s, p, id))
<1> USE DEF CanInsert
<1> DEFINE u == hash_insert(s, p, id)
           b == hash_id(id)
<1>1. /\ DOMAIN u = {"init", "size", "vec", "cap", "heap"}
      /\ u.init = s.init /\ u.size = s.size + 1
      /\ u.vec = [s.vec EXCEPT ![b] = Append(s.vec[b], p)]
      /\ u.cap = [s.cap EXCEPT ![b] = IF Len(s.vec[b]) = s.cap[b] THEN 2 * s.cap[b] ELSE s.cap[b]]
      /\ u.heap = [q \in Live(s) \cup {p} |-> IF q = p THEN tcb_init(id) ELSE s.heap[q]]
  <2> DEFINE h == [q \in Live(s) \cup {p} |-> IF q = p THEN tcb_init(id) ELSE s.heap[q]]
             m == malloc(s, p, tcb_init(id))
             v == vec_push(m, b, p)
  <2>1. /\ DOMAIN m = {"init", "size", "vec", "cap", "heap"}
        /\ m.init = s.init /\ m.size = s.size /\ m.vec = s.vec /\ m.cap = s.cap /\ m.heap = h
    BY DEF malloc, StoreType, StoreOK
  <2> HIDE DEF m, h
  <2>2. /\ DOMAIN v = {"init", "size", "vec", "cap", "heap"}
        /\ v.init = s.init /\ v.size = s.size /\ v.heap = h
        /\ v.vec = [s.vec EXCEPT ![b] = Append(s.vec[b], p)]
        /\ v.cap = [s.cap EXCEPT ![b] = IF Len(s.vec[b]) = s.cap[b] THEN 2 * s.cap[b] ELSE s.cap[b]]
    BY <2>1 DEF vec_push
  <2> HIDE DEF v
  <2>3. u = [v EXCEPT !.size = @ + 1]
    BY DEF hash_insert, v, m
  <2> HIDE DEF u
  <2> QED BY <2>2, <2>3 DEF h
<1>2. /\ s.vec \in [Bucket -> Seq(Ptr)] /\ s.cap \in [Bucket -> Nat] /\ s.size \in Nat
      /\ s.heap \in [Live(s) -> TCB] /\ Live(s) \subseteq Ptr /\ b \in Bucket
  BY HashInRange DEF StoreOK, StoreType
<1> HIDE DEF u, b
<1>3. Live(u) = Live(s) \cup {p} /\ p \notin Live(s)
  BY <1>1 DEF Live
<1>4. /\ \A c \in Bucket : c # b => u.vec[c] = s.vec[c] /\ u.cap[c] = s.cap[c]
      /\ u.vec[b] = Append(s.vec[b], p)
  BY <1>1, <1>2
<1>5. /\ u.vec[b] \in Seq(Ptr) /\ Len(u.vec[b]) = Len(s.vec[b]) + 1 /\ Len(s.vec[b]) \in Nat
      /\ u.vec[b][Len(s.vec[b]) + 1] = p
      /\ \A i \in 1 .. Len(s.vec[b]) : u.vec[b][i] = s.vec[b][i]
  BY <1>2, <1>4
<1>6. /\ u.heap[p] = tcb_init(id) /\ u.heap[p].id = id /\ u.heap[p] \in TCB
      /\ \A q \in Live(s) : u.heap[q] = s.heap[q]
  BY <1>1, <1>3, FreshBlock
<1>7. StoreType(u)
  <2>1. u.vec \in [Bucket -> Seq(Ptr)]
    BY <1>1, <1>2, <1>5
  <2>2. u.cap \in [Bucket -> Nat]
    BY <1>1, <1>2
  <2>3. u.heap \in [Live(u) -> TCB]
    BY <1>1, <1>2, <1>3, FreshBlock
  <2> QED BY <1>1, <1>2, <1>3, <2>1, <2>2, <2>3 DEF StoreType, StoreOK
<1>8. NoDanglingSlot(u)
  <2> SUFFICES ASSUME NEW c \in Bucket, NEW i \in 1 .. Len(u.vec[c])
               PROVE  /\ u.vec[c][i] \in Live(u) /\ hash_id(u.heap[u.vec[c][i]].id) = c
                      /\ \A j \in 1 .. Len(u.vec[c]) : u.vec[c][i] = u.vec[c][j] => i = j
    BY DEF NoDanglingSlot
  <2>0. \A d \in Bucket : \A j \in 1 .. Len(s.vec[d]) :
          /\ s.vec[d][j] \in Live(s) /\ hash_id(s.heap[s.vec[d][j]].id) = d
          /\ \A l \in 1 .. Len(s.vec[d]) : s.vec[d][j] = s.vec[d][l] => j = l
    BY DEF StoreOK, NoDanglingSlot
  <2>1. CASE c # b
    <3>1. u.vec[c] = s.vec[c]
      BY <1>4, <2>1
    <3>2. s.vec[c][i] \in Live(s) /\ hash_id(s.heap[s.vec[c][i]].id) = c
      BY <2>0, <3>1
    <3> QED BY <1>3, <1>6, <2>0, <3>1, <3>2
  <2>2. CASE c = b
    <3>1. CASE i = Len(s.vec[b]) + 1
      <4>1. u.vec[b][i] = p /\ p \in Live(u) /\ hash_id(u.heap[p].id) = b
        BY <1>3, <1>5, <1>6, <3>1 DEF b
      <4>2. ASSUME NEW j \in 1 .. Len(u.vec[b]), u.vec[b][j] = p PROVE i = j
        <5>1. CASE j \in 1 .. Len(s.vec[b])
          BY <1>2, <1>3, <1>5, <2>0, <4>2, <5>1
        <5> QED BY <1>5, <3>1, <5>1
      <4> QED BY <2>2, <4>1, <4>2
    <3>2. CASE i # Len(s.vec[b]) + 1
      <4>1. i \in 1 .. Len(s.vec[b]) /\ u.vec[b][i] = s.vec[b][i]
        BY <1>5, <2>2, <3>2
      <4>2. u.vec[b][i] \in Live(s) /\ u.vec[b][i] # p
        BY <1>3, <2>0, <4>1, <1>2
      <4>3. hash_id(u.heap[u.vec[b][i]].id) = b
        BY <1>2, <1>6, <2>0, <4>1, <4>2
      <4>4. ASSUME NEW j \in 1 .. Len(u.vec[b]), u.vec[b][i] = u.vec[b][j] PROVE i = j
        <5>1. j \in 1 .. Len(s.vec[b]) /\ u.vec[b][j] = s.vec[b][j]
          <6>1. j # Len(s.vec[b]) + 1
            BY <1>5, <4>2, <4>4
          <6> QED BY <1>5, <6>1
        <5> QED BY <1>2, <2>0, <4>1, <4>4, <5>1
      <4> QED BY <1>3, <2>2, <4>2, <4>3, <4>4
    <3> QED BY <3>1, <3>2
  <2> QED BY <2>1, <2>2
<1>9. NoLeak(u)
  <2> SUFFICES ASSUME NEW q \in Live(u)
               PROVE  \E i \in 1 .. Len(u.vec[hash_id(u.heap[q].id)]) :
                         u.vec[hash_id(u.heap[q].id)][i] = q
    BY <1>1 DEF NoLeak
  <2>1. CASE q = p
    <3>1. Len(s.vec[b]) + 1 \in 1 .. Len(u.vec[b])
      BY <1>5
    <3> QED BY <1>5, <1>6, <2>1, <3>1 DEF b
  <2>2. CASE q # p
    <3>1. q \in Live(s) /\ u.heap[q] = s.heap[q]
      BY <1>3, <1>6, <2>2
    <3>2. PICK i \in 1 .. Len(s.vec[hash_id(s.heap[q].id)]) : s.vec[hash_id(s.heap[q].id)][i] = q
      BY <3>1 DEF StoreOK, NoLeak
    <3>3. hash_id(s.heap[q].id) \in Bucket
      BY <1>2, <3>1, BlockID, HashInRange
    <3>4. CASE hash_id(s.heap[q].id) = b
      <4>1. i \in 1 .. Len(u.vec[b]) /\ u.vec[b][i] = q
        BY <1>5, <3>2, <3>4
      <4> QED BY <3>1, <3>4, <4>1
    <3>5. CASE hash_id(s.heap[q].id) # b
      BY <1>4, <3>1, <3>2, <3>3, <3>5
    <3> QED BY <3>4, <3>5
  <2> QED BY <2>1, <2>2
<1>10. OneBlockPerID(u)
  BY <1>3, <1>6 DEF OneBlockPerID, StoreOK
<1>11. WithinCapacity(u)
  <2>1. \A c \in Bucket : Len(s.vec[c]) <= s.cap[c] /\ s.cap[c] >= DEF_CAP
    BY DEF StoreOK, WithinCapacity
  <2>2. Len(u.vec[b]) <= u.cap[b] /\ u.cap[b] >= DEF_CAP
    <3>1. u.cap[b] = IF Len(s.vec[b]) = s.cap[b] THEN 2 * s.cap[b] ELSE s.cap[b]
      BY <1>1, <1>2
    <3>2. s.cap[b] \in Nat /\ s.cap[b] >= DEF_CAP /\ Len(s.vec[b]) <= s.cap[b]
      BY <1>2, <2>1
    <3> QED BY <1>5, <3>1, <3>2, Constant
  <2> QED BY <1>4, <2>1, <2>2 DEF WithinCapacity
<1>12. SizeExact(u)
  <2>1. IsFiniteSet(Live(u)) /\ Cardinality(Live(u)) = Cardinality(Live(s)) + 1
    BY <1>3, FS_AddElement DEF StoreOK, SizeExact
  <2> QED BY <1>1, <2>1 DEF StoreOK, SizeExact
<1>13. StoreOK(u)
  BY <1>7, <1>8, <1>9, <1>10, <1>11, <1>12 DEF StoreOK
<1> QED BY <1>3, <1>6, <1>13 DEF u, Inserted

(* The same for hash_insert in general, which initialises the table first  *)
(* when it has to.                                                         *)
LEMMA InsertSound ==
  ASSUME NEW s, NEW p, NEW id, CanInsert(s, p, id)
  PROVE  Inserted(s, p, id, hash_insert(s, p, id))
<1>1. CASE s.init = TRUE
  BY <1>1, InsertIntoInitialised
<1>2. CASE s.init = FALSE
  <2> DEFINE t == hash_init(s, HT_SIZE)
  <2>1. HT_SIZE \in 0 .. HT_SIZE
    BY Constant
  <2>2. StoreOK(t) /\ Live(t) = Live(s) /\ t.init = TRUE /\ Live(s) = {}
    BY <1>2, <2>1, InitSound, Uninitialised DEF CanInsert
  <2>3. hash_insert(s, p, id) = hash_insert(t, p, id)
    BY <1>2, <2>2 DEF hash_insert
  <2> HIDE DEF t
  <2>4. CanInsert(t, p, id)
    BY <2>2 DEF CanInsert
  <2>5. Inserted(t, p, id, hash_insert(t, p, id))
    BY <2>2, <2>4, InsertIntoInitialised
  <2> QED BY <2>2, <2>3, <2>5 DEF Inserted
<1> QED BY <1>1, <1>2 DEF CanInsert, StoreOK, StoreType

-----------------------------------------------------------------------------
(* vec_delete's swap-and-pop: the sequence is one shorter and has every    *)
(* element but the one at i, the last one now at i.                        *)
LEMMA SwapPopSeq ==
  ASSUME NEW v \in Seq(Ptr), NEW i \in 1 .. Len(v)
  PROVE  /\ SwapPop(v, i) \in Seq(Ptr) /\ Len(SwapPop(v, i)) = Len(v) - 1
         /\ \A j \in 1 .. Len(v) - 1 : SwapPop(v, i)[j] = IF j = i THEN v[Len(v)] ELSE v[j]
<1>1. Len(v) \in Nat /\ Len(v) - 1 \in Nat /\ \A j \in 1 .. Len(v) : v[j] \in Ptr
  BY LenProperties, ElementOfSeq
<1>2. SwapPop(v, i) \in [1 .. Len(v) - 1 -> Ptr]
  BY <1>1 DEF SwapPop
<1>3. SwapPop(v, i) \in Seq(Ptr)
  BY <1>1, <1>2, SeqDef
<1>4. DOMAIN SwapPop(v, i) = 1 .. Len(SwapPop(v, i)) /\ Len(SwapPop(v, i)) \in Nat
  BY <1>3, LenProperties
<1>5. Len(SwapPop(v, i)) = Len(v) - 1
  BY <1>1, <1>2, <1>4
<1> QED BY <1>1, <1>3, <1>5 DEF SwapPop

(* What hash_delete leaves: a sound table without that block.              *)
Deleted(s, p, u) ==
  /\ StoreOK(u) /\ Live(u) = Live(s) \ {p}
  /\ \A q \in Live(u) : u.heap[q] = s.heap[q]

LEMMA DeleteSound ==
  ASSUME NEW s, StoreOK(s), NEW p \in Live(s)
  PROVE  Deleted(s, p, hash_delete(s, p))
<1> DEFINE u  == hash_delete(s, p)
           id == s.heap[p].id
           b  == hash_id(id)
           v  == s.vec[b]
<1>1. /\ s.vec \in [Bucket -> Seq(Ptr)] /\ s.cap \in [Bucket -> Nat] /\ s.size \in Nat
      /\ s.heap \in [Live(s) -> TCB] /\ Live(s) \subseteq Ptr
      /\ DOMAIN s = {"init", "size", "vec", "cap", "heap"}
  BY DEF StoreOK, StoreType
<1>2. id \in ID /\ b \in Bucket /\ v \in Seq(Ptr) /\ Len(v) \in Nat
  BY <1>1, BlockID, HashInRange
<1>3. PICK m \in 1 .. Len(v) : v[m] = p
  BY DEF StoreOK, NoLeak
<1>4. m \in Matches(s, v, id)
  BY <1>3 DEF Matches
<1>5. FirstMatch(s, v, id) = m /\ Matches(s, v, id) # {}
  BY <1>2, <1>4, UniqueMatch
<1>6. /\ DOMAIN u = {"init", "size", "vec", "cap", "heap"}
      /\ u.init = s.init /\ u.cap = s.cap /\ u.size = s.size - 1
      /\ u.vec = [s.vec EXCEPT ![b] = SwapPop(v, m)]
      /\ u.heap = [q \in Live(s) \ {p} |-> s.heap[q]]
  <2> DEFINE t == vec_delete(s, b, id)
             f == free(s, {p})
  <2>1. /\ DOMAIN f = {"init", "size", "vec", "cap", "heap"}
        /\ f.init = s.init /\ f.cap = s.cap /\ f.size = s.size /\ f.vec = s.vec
        /\ f.heap = [q \in Live(s) \ {p} |-> s.heap[q]]
    BY <1>1 DEF free
  <2>2. t = [f EXCEPT !.vec[b] = SwapPop(v, m)]
    BY <1>3, <1>5 DEF vec_delete
  <2>3. u = [t EXCEPT !.size = @ - 1]
    BY DEF hash_delete
  <2> HIDE DEF t, f, u, b, v
  <2>4. /\ DOMAIN t = {"init", "size", "vec", "cap", "heap"}
        /\ t.init = s.init /\ t.cap = s.cap /\ t.size = s.size /\ t.heap = f.heap
        /\ t.vec = [s.vec EXCEPT ![b] = SwapPop(v, m)]
    BY <2>1, <2>2
  <2> QED BY <2>1, <2>3, <2>4
<1> HIDE DEF u
<1>7. Live(u) = Live(s) \ {p} /\ \A q \in Live(u) : u.heap[q] = s.heap[q]
  BY <1>6 DEF Live
<1>8. /\ \A c \in Bucket : c # b => u.vec[c] = s.vec[c]
      /\ u.vec[b] \in Seq(Ptr) /\ Len(u.vec[b]) = Len(v) - 1
      /\ \A j \in 1 .. Len(v) - 1 : u.vec[b][j] = IF j = m THEN v[Len(v)] ELSE v[j]
  <2>1. u.vec[b] = SwapPop(v, m) /\ \A c \in Bucket : c # b => u.vec[c] = s.vec[c]
    BY <1>1, <1>2, <1>6
  <2>2. /\ SwapPop(v, m) \in Seq(Ptr) /\ Len(SwapPop(v, m)) = Len(v) - 1
        /\ \A j \in 1 .. Len(v) - 1 : SwapPop(v, m)[j] = IF j = m THEN v[Len(v)] ELSE v[j]
    <3> HIDE DEF v, b, id
    <3> QED BY <1>2, SwapPopSeq
  <2> HIDE DEF v, b, id
  <2> QED BY <2>1, <2>2
<1>9. \A c \in Bucket : \A j \in 1 .. Len(s.vec[c]) :
        /\ s.vec[c][j] \in Live(s) /\ hash_id(s.heap[s.vec[c][j]].id) = c
        /\ \A l \in 1 .. Len(s.vec[c]) : s.vec[c][j] = s.vec[c][l] => j = l
  BY DEF StoreOK, NoDanglingSlot
<1>10. SizeExact(u) /\ u.size \in Nat
  <2>1. IsFiniteSet(Live(s)) /\ s.size = Cardinality(Live(s))
    BY DEF StoreOK, SizeExact
  <2>2. IsFiniteSet(Live(u)) /\ Cardinality(Live(u)) = Cardinality(Live(s)) - 1
    BY <1>7, <2>1, FS_RemoveElement
  <2>3. Cardinality(Live(u)) \in Nat
    BY <2>2, FS_CardinalityType
  <2> QED BY <1>6, <2>1, <2>2, <2>3 DEF SizeExact
<1> HIDE DEF id, b, v
<1>11. StoreType(u)
  <2>1. u.vec \in [Bucket -> Seq(Ptr)]
    BY <1>1, <1>2, <1>6, <1>8
  <2>2. u.heap \in [Live(u) -> TCB]
    BY <1>1, <1>6, <1>7
  <2> QED BY <1>1, <1>6, <1>7, <1>10, <2>1, <2>2 DEF StoreType, StoreOK
<1>12. NoDanglingSlot(u)
  <2> SUFFICES ASSUME NEW c \in Bucket, NEW i \in 1 .. Len(u.vec[c])
               PROVE  /\ u.vec[c][i] \in Live(u) /\ hash_id(u.heap[u.vec[c][i]].id) = c
                      /\ \A j \in 1 .. Len(u.vec[c]) : u.vec[c][i] = u.vec[c][j] => i = j
    BY DEF NoDanglingSlot
  <2>1. CASE c # b
    <3>1. u.vec[c] = s.vec[c]
      BY <1>8, <2>1
    <3>2. s.vec[c][i] \in Live(s) /\ hash_id(s.heap[s.vec[c][i]].id) = c
      BY <1>9, <3>1
    <3>3. s.vec[c][i] # p
      BY <2>1, <3>2 DEF b, id
    <3> QED BY <1>7, <1>9, <3>1, <3>2, <3>3
  <2>2. CASE c = b
    <3> DEFINE at(j) == IF j = m THEN Len(v) ELSE j
    <3>1. \A j \in 1 .. Len(v) - 1 : at(j) \in 1 .. Len(v) /\ at(j) # m /\ u.vec[b][j] = v[at(j)]
      BY <1>2, <1>3, <1>8
    <3>2. \A j, l \in 1 .. Len(v) - 1 : at(j) = at(l) => j = l
      BY <1>2, <1>3
    <3>3. i \in 1 .. Len(v) - 1
      BY <1>8, <2>2
    <3>4. \A j \in 1 .. Len(v) :
            /\ v[j] \in Live(s) /\ hash_id(s.heap[v[j]].id) = b
            /\ \A l \in 1 .. Len(v) : v[j] = v[l] => j = l
      BY <1>2, <1>9 DEF v
    <3> HIDE DEF at
    <3>5. u.vec[b][i] \in Live(s) /\ u.vec[b][i] # p /\ hash_id(s.heap[u.vec[b][i]].id) = b
      BY <1>3, <3>1, <3>3, <3>4
    <3>6. \A j \in 1 .. Len(v) - 1 : u.vec[b][i] = u.vec[b][j] => i = j
      BY <3>1, <3>2, <3>3, <3>4
    <3> QED BY <1>7, <1>8, <2>2, <3>5, <3>6
  <2> QED BY <2>1, <2>2
<1>13. NoLeak(u)
  <2> SUFFICES ASSUME NEW q \in Live(u)
               PROVE  /\ u.init
                      /\ \E i \in 1 .. Len(u.vec[hash_id(u.heap[q].id)]) :
                           u.vec[hash_id(u.heap[q].id)][i] = q
    BY DEF NoLeak
  <2>1. q \in Live(s) /\ q # p /\ u.heap[q] = s.heap[q]
    BY <1>7
  <2> DEFINE c == hash_id(s.heap[q].id)
  <2>2. s.init /\ \E i \in 1 .. Len(s.vec[c]) : s.vec[c][i] = q
    BY <2>1, Zenon DEF StoreOK, NoLeak
  <2>3. PICK i \in 1 .. Len(s.vec[c]) : s.vec[c][i] = q
    BY <2>2
  <2>4. c \in Bucket
    BY <1>1, <2>1, BlockID, HashInRange
  <2> HIDE DEF c
  <2>5. \E j \in 1 .. Len(u.vec[c]) : u.vec[c][j] = q
    <3>1. CASE c # b
      BY <1>8, <2>3, <2>4, <3>1
    <3>2. CASE c = b
      <4>1. i \in 1 .. Len(v) /\ v[i] = q /\ i # m
        BY <1>3, <2>1, <2>3, <3>2 DEF v
      <4>2. CASE i = Len(v)
        <5>1. m \in 1 .. Len(v) - 1 /\ u.vec[b][m] = q
          BY <1>2, <1>3, <1>8, <4>1, <4>2
        <5> QED BY <1>8, <3>2, <5>1
      <4>3. CASE i # Len(v)
        <5>1. i \in 1 .. Len(v) - 1 /\ u.vec[b][i] = q
          BY <1>2, <1>8, <4>1, <4>3
        <5> QED BY <1>8, <3>2, <5>1
      <4> QED BY <4>2, <4>3
    <3> QED BY <3>1, <3>2
  <2>6. u.init
    BY <1>6, <2>2
  <2> QED BY <2>1, <2>5, <2>6 DEF c
<1>14. OneBlockPerID(u)
  BY <1>7 DEF OneBlockPerID, StoreOK
<1>15. WithinCapacity(u)
  <2>1. \A c \in Bucket : Len(s.vec[c]) <= s.cap[c] /\ (s.init => s.cap[c] >= DEF_CAP)
    BY DEF StoreOK, WithinCapacity
  <2>2. Len(u.vec[b]) <= s.cap[b]
    BY <1>1, <1>2, <1>8, <2>1 DEF v
  <2> QED BY <1>6, <1>8, <2>1, <2>2 DEF WithinCapacity
<1> QED BY <1>7, <1>10, <1>11, <1>12, <1>13, <1>14, <1>15 DEF Deleted, StoreOK, u

-----------------------------------------------------------------------------
LEMMA EmptySound == StoreOK(EmptyStore)
<1> DEFINE s == EmptyStore
<1>1. /\ DOMAIN s = {"init", "size", "vec", "cap", "heap"} /\ s.init = FALSE /\ s.size = 0
      /\ s.vec = [b \in Bucket |-> <<>>] /\ s.cap = [b \in Bucket |-> 0]
      /\ s.heap = [p \in {} |-> NULL]
  BY DEF EmptyStore
<1> HIDE DEF s
<1>2. Live(s) = {}
  BY <1>1 DEF Live
<1>3. s.vec \in [Bucket -> Seq(Ptr)] /\ \A b \in Bucket : Len(s.vec[b]) = 0
  BY <1>1
<1>4. StoreType(s)
  <2>1. s.heap \in [Live(s) -> TCB]
    BY <1>1, <1>2
  <2>2. s.cap \in [Bucket -> Nat]
    BY <1>1
  <2>3. s.size \in Nat /\ Live(s) \subseteq Ptr
    BY <1>1, <1>2
  <2>5. s.init \in BOOLEAN
    BY <1>1, Zenon
  <2>4. DOMAIN s = {"init", "size", "vec", "cap", "heap"} /\ s.vec \in [Bucket -> Seq(Ptr)]
    BY <1>1, <1>3
  <2> QED BY <2>1, <2>2, <2>3, <2>4, <2>5, Zenon DEF StoreType
<1>5. NoDanglingSlot(s) /\ NoLeak(s) /\ OneBlockPerID(s)
  BY <1>2, <1>3 DEF NoDanglingSlot, NoLeak, OneBlockPerID
<1>6. WithinCapacity(s) /\ SizeExact(s)
  BY <1>1, <1>2, <1>3, FS_EmptySet DEF WithinCapacity, SizeExact
<1> QED BY <1>4, <1>5, <1>6 DEF StoreOK, s

(* hash_destroy frees every block, since every block sits in a slot.       *)
LEMMA DestroySound ==
  ASSUME NEW s, StoreOK(s)
  PROVE  StoreOK(hash_destroy(s)) /\ Live(hash_destroy(s)) = {}
<1> DEFINE u == hash_destroy(s)
           f == free(s, InSlots(s))
<1>1. Live(s) \subseteq InSlots(s)
  <2> SUFFICES ASSUME NEW p \in Live(s) PROVE p \in InSlots(s)
    OBVIOUS
  <2>1. hash_id(s.heap[p].id) \in Bucket
    BY BlockID, HashInRange DEF StoreOK, StoreType
  <2>2. \E i \in 1 .. Len(s.vec[hash_id(s.heap[p].id)]) : s.vec[hash_id(s.heap[p].id)][i] = p
    BY DEF StoreOK, NoLeak
  <2> QED BY <2>1, <2>2 DEF InSlots
<1>2. DOMAIN f = {"init", "size", "vec", "cap", "heap"} /\ f.heap = [q \in {} |-> s.heap[q]]
  <2>1. Live(s) \ InSlots(s) = {}
    BY <1>1
  <2> QED BY <2>1 DEF free, StoreOK, StoreType
<1> HIDE DEF f
<1>3. u = [f EXCEPT !.vec = [b \in Bucket |-> <<>>], !.cap = [b \in Bucket |-> 0],
                    !.size = 0, !.init = FALSE]
  BY DEF hash_destroy, f
<1> HIDE DEF u
<1>4. /\ DOMAIN u = {"init", "size", "vec", "cap", "heap"} /\ u.init = FALSE /\ u.size = 0
      /\ u.vec = [b \in Bucket |-> <<>>] /\ u.cap = [b \in Bucket |-> 0] /\ u.heap = f.heap
  BY <1>2, <1>3
<1>5. Live(u) = {}
  BY <1>2, <1>4 DEF Live
<1>6. u.vec \in [Bucket -> Seq(Ptr)] /\ \A b \in Bucket : Len(u.vec[b]) = 0
  BY <1>4
<1>7. StoreType(u)
  <2>1. u.heap \in [Live(u) -> TCB]
    BY <1>2, <1>4, <1>5
  <2>2. u.cap \in [Bucket -> Nat]
    BY <1>4
  <2>3. u.size \in Nat /\ Live(u) \subseteq Ptr
    BY <1>4, <1>5
  <2>5. u.init \in BOOLEAN
    BY <1>4, Zenon
  <2>4. DOMAIN u = {"init", "size", "vec", "cap", "heap"} /\ u.vec \in [Bucket -> Seq(Ptr)]
    BY <1>4, <1>6
  <2> QED BY <2>1, <2>2, <2>3, <2>4, <2>5, Zenon DEF StoreType
<1>8. NoDanglingSlot(u) /\ NoLeak(u) /\ OneBlockPerID(u)
  BY <1>5, <1>6 DEF NoDanglingSlot, NoLeak, OneBlockPerID
<1>9. WithinCapacity(u) /\ SizeExact(u)
  BY <1>4, <1>5, <1>6, FS_EmptySet DEF WithinCapacity, SizeExact
<1> QED BY <1>5, <1>7, <1>8, <1>9 DEF StoreOK, u

TableInv == StoreOK(store)

LEMMA TableStep == TableInv /\ [TableNext]_store => TableInv'
<1> SUFFICES ASSUME StoreOK(store), [TableNext]_store PROVE StoreOK(store')
  BY DEF TableInv
<1>1. ASSUME NEW id \in ID, Create(id) PROVE StoreOK(store')
  <2>1. CASE store' \in InsertFailures(store)
    BY <2>1, FailuresSound
  <2>2. ASSUME NEW p \in Ptr \ Live(store), store' = hash_insert(store, p, id)
        PROVE  StoreOK(store')
    <3>1. CanInsert(store, p, id)
      BY <1>1, FindSpec DEF CanInsert, Create
    <3> QED BY <2>2, <3>1, InsertSound DEF Inserted
  <2> QED BY <1>1, <2>1, <2>2 DEF Create
<1>2. ASSUME NEW id \in ID, Delete(id) PROVE StoreOK(store')
  BY <1>2, FindSpec, DeleteSound DEF Delete, Deleted
<1>3. CASE Destroy
  BY <1>3, DestroySound DEF Destroy
<1>4. CASE UNCHANGED store
  BY <1>4
<1> QED BY <1>1, <1>2, <1>3, <1>4 DEF TableNext

LEMMA TableInvariant == TableSpec => []TableInv
<1>1. TableInit => TableInv
  BY EmptySound DEF TableInit, TableInv
<1> QED BY <1>1, TableStep, PTL DEF TableSpec

(* Slots and allocated blocks correspond one to one, whatever is inserted, *)
(* deleted or destroyed and whichever allocations fail: nothing dangles,   *)
(* nothing is freed twice and nothing leaks.                               *)
THEOREM OwnsBlocks == TableSpec => []TableOwnsBlocks
<1>1. TableInv => TableOwnsBlocks
  BY DEF TableInv, StoreOK, TableOwnsBlocks
<1> QED BY <1>1, TableInvariant, PTL

(* A lookup is exact: hash_find returns the block of the four-tuple, NULL  *)
(* only when there is none.                                                *)
THEOREM LookupExact == TableSpec => []TableLookup
<1>1. TableInv => TableLookup
  BY FindSpec DEF TableInv, TableLookup
<1> QED BY <1>1, TableInvariant, PTL

(* The vectors stay inside their arrays.                                   *)
THEOREM CapacityRespected == TableSpec => []TableCapacity
<1>1. TableInv => TableCapacity
  BY DEF TableInv, StoreOK, TableCapacity
<1> QED BY <1>1, TableInvariant, PTL

(* The size counter counts the live blocks, so it never wraps below zero.  *)
THEOREM SizeCounts == TableSpec => []TableSize
<1>1. TableInv => TableSize
  BY DEF TableInv, StoreOK, TableSize
<1> QED BY <1>1, TableInvariant, PTL

(* A four-tuple never has two blocks.                                      *)
THEOREM BlocksUnique == TableSpec => []TableUnique
<1>1. TableInv => TableUnique
  BY DEF TableInv, StoreOK, TableUnique
<1> QED BY <1>1, TableInvariant, PTL

-----------------------------------------------------------------------------
(***************************************************************************)
(* tcp_dispatch.                                                           *)
(***************************************************************************)
(* 32-bit addition stays in range.                                         *)
LEMMA AddInRange ==
  ASSUME NEW a \in SeqNum, NEW b \in 0 .. SeqMod - 1
  PROVE  Add32(a, b) \in SeqNum
  BY Constant DEF Add32, SeqNum

LEMMA OneInRange == 1 \in 0 .. SeqMod - 1 /\ SeqMod >= 4
<1>1. W16 \in Nat /\ W16 >= 2
  BY W16Assumption
<1>2. W16 * W16 >= 4
  BY <1>1
<1> QED BY <1>1, <1>2 DEF SeqMod

LEMMA Next1 == ASSUME NEW a \in SeqNum PROVE Add32(a, 1) \in SeqNum
  BY AddInRange, OneInRange

LEMMA BlockFields ==
  ASSUME NEW t \in TCB
  PROVE  /\ t.id \in ID /\ t.state \in Con_State /\ t.send \in Send_State /\ t.recv \in Receive_State
         /\ t.send.unac \in SeqNum /\ t.send.next \in SeqNum /\ t.send.iss \in SeqNum
         /\ t.recv.next \in SeqNum /\ t.recv.irs \in SeqNum /\ t.recv.window = TCP_WIN_DEF
  BY DEF TCB, Send_State, Receive_State

LEMMA SegmentFields ==
  ASSUME NEW g \in Segment
  PROVE  /\ g.id \in ID /\ g.flags \in SUBSET Flag /\ g.seq \in SeqNum /\ g.ack \in SeqNum
         /\ g.len \in 0 .. SeqMod - 3 /\ g.window \in 0 .. W16 - 1
  BY DEF Segment

(* The two updates tcb_state_update makes to a block.                      *)
LEMMA SynBlock ==
  ASSUME NEW t \in TCB, t.state = "CON_CLOSED", NEW g \in Segment, NEW iss \in SeqNum
  PROVE  /\ update_syn(t, g, iss) \in TCB /\ update_syn(t, g, iss).id = t.id
         /\ NumbersAgree(update_syn(t, g, iss))
<1> DEFINE u == update_syn(t, g, iss)
<1>1. /\ u.id = t.id /\ u.state = "CON_SYN_RECEIVED"
      /\ u.recv = [next |-> Add32(g.seq, 1), window |-> t.recv.window, irs |-> g.seq]
      /\ u.send = [unac |-> iss, next |-> Add32(iss, 1), window |-> g.window, iss |-> iss]
  BY DEF update_syn, TCB
<1>2. u.recv \in Receive_State /\ u.send \in Send_State
  BY <1>1, Next1, SegmentFields, BlockFields DEF Receive_State, Send_State
<1>3. u \in TCB
  BY <1>1, <1>2 DEF update_syn, TCB, Con_State
<1> QED BY <1>1, <1>3 DEF NumbersAgree

LEMMA AckBlock ==
  ASSUME NEW t \in TCB, t.state = "CON_SYN_RECEIVED", NumbersAgree(t),
         NEW g \in Segment, AckAccepted(t, g)
  PROVE  /\ update_ack(t, g) \in TCB /\ update_ack(t, g).id = t.id
         /\ NumbersAgree(update_ack(t, g))
<1> DEFINE u == update_ack(t, g)
<1>1. /\ u.id = t.id /\ u.state = "CON_ESTABLISHED" /\ u.recv = t.recv
      /\ u.send = [t.send EXCEPT !.unac = g.ack]
  BY DEF update_ack, TCB
<1>2. u.send \in Send_State
  BY <1>1, SegmentFields, BlockFields DEF Send_State
<1>3. u \in TCB
  BY <1>1, <1>2 DEF update_ack, TCB, Con_State
<1>4. u.send.unac = g.ack /\ u.send.next = t.send.next /\ u.send.iss = t.send.iss
  BY <1>1, BlockFields DEF Send_State
<1> QED BY <1>1, <1>3, <1>4 DEF NumbersAgree, AckAccepted

-----------------------------------------------------------------------------
(* Writing a block in place keeps the table sound when its ID stays.       *)
LEMMA SetSound ==
  ASSUME NEW s, StoreOK(s), NEW p \in Live(s), NEW t \in TCB, t.id = s.heap[p].id
  PROVE  /\ StoreOK(SetBlock(s, p, t)) /\ Live(SetBlock(s, p, t)) = Live(s)
         /\ SetBlock(s, p, t).heap = [s.heap EXCEPT ![p] = t]
<1> DEFINE u == SetBlock(s, p, t)
<1>1. /\ DOMAIN u = {"init", "size", "vec", "cap", "heap"}
      /\ u.init = s.init /\ u.size = s.size /\ u.vec = s.vec /\ u.cap = s.cap
      /\ u.heap = [s.heap EXCEPT ![p] = t]
  BY DEF SetBlock, StoreOK, StoreType
<1> HIDE DEF u
<1>2. Live(u) = Live(s) /\ s.heap \in [Live(s) -> TCB]
  BY <1>1 DEF Live, StoreOK, StoreType
<1>3. u.heap \in [Live(u) -> TCB] /\ \A q \in Live(s) : u.heap[q].id = s.heap[q].id
  BY <1>1, <1>2
<1>4. StoreType(u)
  BY <1>1, <1>2, <1>3, Zenon DEF StoreOK, StoreType
<1>5. NoDanglingSlot(u)
  BY <1>1, <1>2, <1>3 DEF StoreOK, NoDanglingSlot
<1>6. NoLeak(u)
  BY <1>1, <1>2, <1>3 DEF StoreOK, NoLeak
<1>7. OneBlockPerID(u)
  BY <1>1, <1>2, <1>3 DEF StoreOK, OneBlockPerID
<1>8. WithinCapacity(u) /\ SizeExact(u)
  BY <1>1, <1>2 DEF StoreOK, WithinCapacity, SizeExact
<1> QED BY <1>1, <1>2, <1>4, <1>5, <1>6, <1>7, <1>8 DEF StoreOK, u

-----------------------------------------------------------------------------
(* The replies are well formed, whatever the unassigned variables hold.    *)
LEMMA SynAckReply ==
  ASSUME NEW t \in TCB, NEW g \in Segment
  PROVE  tcp_syn_ack(t, g) \in Reply
<1>1. g.len \in Int /\ g.id \in ID /\ t.send.iss \in SeqNum /\ t.recv.next \in SeqNum
  BY SegmentFields, BlockFields, Constant
<1> QED BY <1>1 DEF tcp_syn_ack, Reply, Flag

LEMMA UpperHalf == ASSUME NEW a \in SeqNum PROVE a \div W16 \in SeqNum
<1>1. a \in Nat /\ a < SeqMod /\ SeqMod \in Nat
  BY Constant DEF SeqNum
<1>2. W16 \in Nat /\ W16 > 0
  BY Constant
<1>3. a \div W16 \in Nat /\ a \div W16 <= a
  BY <1>1, <1>2
<1> QED BY <1>1, <1>3 DEF SeqNum

LEMMA RstReply == ASSUME NEW g \in Segment, NEW r \in tcp_rst(g) PROVE r \in Reply
<1>1. g.id \in ID /\ NotSummed \in Int
  BY SegmentFields DEF NotSummed
<1>2. Garbage \subseteq SeqNum /\ GarbageFlags \subseteq SUBSET Flag
  BY GarbageAssumption
<1>3. CASE "ACK" \in g.flags
  <2>1. g.ack \div W16 \in SeqNum
    BY SegmentFields, UpperHalf
  <2> QED BY <1>1, <1>2, <1>3, <2>1 DEF tcp_rst, Reply, Flag
<1>4. CASE "ACK" \notin g.flags
  <2>1. SegLen(g) \in 0 .. SeqMod - 1
    BY SegmentFields, Constant, OneInRange DEF SegLen
  <2>2. Add32(g.seq, SegLen(g)) \in SeqNum
    BY <2>1, SegmentFields, AddInRange
  <2> HIDE DEF SegLen, Add32
  <2> QED BY <1>1, <1>2, <1>4, <2>2 DEF tcp_rst, Reply, Flag
<1> QED BY <1>3, <1>4

-----------------------------------------------------------------------------
(* The inductive invariant, and what holds of the store while tcp_dispatch *)
(* works on block p, which may be new and not yet meant to stay.           *)
SoundBlocks(s) == /\ StoreOK(s)
             /\ \A q \in Live(s) : NumbersAgree(s.heap[q])

ServerInv == /\ SoundBlocks(store) /\ OnlyListeningBlocks
             /\ out \in Reply \cup {None}

(* Deleting the block at hand.                                             *)
LEMMA DropBlock ==
  ASSUME NEW s, SoundBlocks(s), NEW p \in Live(s),
         \A q \in Live(s) \ {p} : s.heap[q].id \in Listening,
         store' = hash_delete(s, p), out' \in Reply \cup {None}
  PROVE  ServerInv'
<1>1. Deleted(s, p, store')
  BY DeleteSound DEF SoundBlocks
<1>2. StoreOK(store') /\ Live(store') = Live(s) \ {p} /\ \A q \in Live(store') : store'.heap[q] = s.heap[q]
  BY <1>1 DEF Deleted
<1>3. SoundBlocks(store')
  BY <1>2 DEF SoundBlocks
<1>4. OnlyListeningBlocks'
  BY <1>2 DEF OnlyListeningBlocks
<1> QED BY <1>3, <1>4 DEF ServerInv

(* Overwriting it.                                                         *)
LEMMA WriteBlock ==
  ASSUME NEW s, SoundBlocks(s), NEW p \in Live(s), NEW t \in TCB,
         \A q \in Live(s) : s.heap[q].id \in Listening,
         t.id = s.heap[p].id, NumbersAgree(t),
         store' = SetBlock(s, p, t), out' \in Reply \cup {None}
  PROVE  ServerInv'
<1>1. StoreOK(store') /\ Live(store') = Live(s) /\ store'.heap = [s.heap EXCEPT ![p] = t]
  BY SetSound DEF SoundBlocks
<1>2. s.heap \in [Live(s) -> TCB]
  BY DEF SoundBlocks, StoreOK, StoreType
<1>3. SoundBlocks(store')
  BY <1>1, <1>2 DEF SoundBlocks
<1>4. OnlyListeningBlocks'
  BY <1>1, <1>2 DEF OnlyListeningBlocks
<1> QED BY <1>3, <1>4 DEF ServerInv

(* Leaving the store as it is.                                             *)
LEMMA KeepBlock ==
  ASSUME NEW s, SoundBlocks(s), \A q \in Live(s) : s.heap[q].id \in Listening,
         store' = s, out' \in Reply \cup {None}
  PROVE  ServerInv'
  BY DEF ServerInv, SoundBlocks, OnlyListeningBlocks

(* The rest of tcp_dispatch once a block is at hand.                       *)
LEMMA HandleSound ==
  ASSUME NEW s, SoundBlocks(s), NEW p \in Live(s), NEW g \in Segment,
         s.heap[p].id = g.id,
         \A q \in Live(s) \ {p} : s.heap[q].id \in Listening,
         Handle(s, p, g)
  PROVE  ServerInv'
<1> DEFINE t == s.heap[p]
<1>0. /\ t \in TCB /\ g \in Segment /\ NumbersAgree(t) /\ t.state \in Con_State
      /\ IssValues \subseteq SeqNum
  <2>1. t \in TCB
    BY DEF SoundBlocks, StoreOK, StoreType
  <2> QED BY <2>1, InputAssumption, BlockFields DEF SoundBlocks
<1>1. ASSUME parse_edge(g, t.state) # "EVT_SEND_RST"
      PROVE  \A q \in Live(s) : s.heap[q].id \in Listening
  <2>1. g.id \in Listening
    BY <1>1 DEF parse_edge
  <2> QED BY <2>1
<1>2. CASE OnSyn(s, p, g)
  <2>1. parse_edge(g, t.state) = "EVT_SYN"
    BY <1>2 DEF OnSyn
  <2>2. t.state = "CON_CLOSED"
    BY <1>0, <2>1 DEF parse_edge, Con_State
  <2>3. PICK iss \in IssValues : /\ store' = SetBlock(s, p, update_syn(t, g, iss))
                                 /\ out' = tcp_syn_ack(update_syn(t, g, iss), g)
    BY <1>2 DEF OnSyn
  <2> DEFINE u == update_syn(t, g, iss)
  <2>4. u \in TCB /\ u.id = t.id /\ NumbersAgree(u)
    BY <1>0, <2>2, SynBlock
  <2> HIDE DEF u
  <2>5. out' \in Reply /\ store' = SetBlock(s, p, u)
    BY <1>0, <2>3, <2>4, SynAckReply DEF u
  <2>6. \A q \in Live(s) : s.heap[q].id \in Listening
    BY <1>1, <2>1
  <2> QED BY <2>4, <2>5, <2>6, WriteBlock
<1>3. CASE OnAck(s, p, g)
  <2>1. parse_edge(g, t.state) = "EVT_ACK" /\ out' \in Reply \cup {None}
    BY <1>3 DEF OnAck
  <2>2. t.state = "CON_SYN_RECEIVED"
    BY <1>0, <2>1 DEF parse_edge, Con_State
  <2>3. \A q \in Live(s) : s.heap[q].id \in Listening
    BY <1>1, <2>1
  <2>4. CASE AckAccepted(t, g)
    <3> DEFINE u == update_ack(t, g)
    <3>1. u \in TCB /\ u.id = t.id /\ NumbersAgree(u)
      BY <1>0, <2>2, <2>4, AckBlock
    <3>2. store' = SetBlock(s, p, u)
      BY <1>3, <2>4 DEF OnAck
    <3> HIDE DEF u
    <3> QED BY <2>1, <2>3, <3>1, <3>2, WriteBlock
  <2>5. CASE ~AckAccepted(t, g)
    <3>1. store' = s
      BY <1>3, <2>5 DEF OnAck
    <3> QED BY <2>1, <2>3, <3>1, KeepBlock
  <2> QED BY <2>4, <2>5
<1>4. CASE OnRst(s, p, g)
  <2>1. parse_edge(g, t.state) = "EVT_RST" /\ out' \in Reply \cup {None}
    BY <1>4 DEF OnRst
  <2>2. \A q \in Live(s) : s.heap[q].id \in Listening
    BY <1>1, <2>1
  <2>3. store' = hash_delete(s, p) \/ store' = s
    BY <1>4 DEF OnRst
  <2> QED BY <2>1, <2>2, <2>3, DropBlock, KeepBlock
<1>5. CASE OnSendRst(s, p, g)
  <2>1. store' = hash_delete(s, p) /\ out' \in Reply
    BY <1>0, <1>5, RstReply DEF OnSendRst
  <2> QED BY <2>1, DropBlock
<1>6. CASE OnOther(s, p, g)
  <2>1. parse_edge(g, t.state) # "EVT_SEND_RST" /\ store' = s /\ out' \in Reply \cup {None}
    BY <1>6 DEF OnOther
  <2> QED BY <1>1, <2>1, KeepBlock
<1> QED BY <1>2, <1>3, <1>4, <1>5, <1>6 DEF Handle

-----------------------------------------------------------------------------
LEMMA ServerInit == Init => ServerInv
<1> SUFFICES ASSUME Init PROVE ServerInv
  OBVIOUS
<1>1. StoreOK(store) /\ out = None
  BY EmptySound DEF Init
<1>2. Live(store) = {}
  BY DEF Init, EmptyStore, Live
<1> QED BY <1>1, <1>2 DEF ServerInv, SoundBlocks, OnlyListeningBlocks

(* One segment, whatever it is.                                            *)
LEMMA DispatchSound == ASSUME ServerInv, NEW g \in Segment, tcp_dispatch(g) PROVE ServerInv'
<1>0. /\ SoundBlocks(store) /\ StoreOK(store) /\ g.id \in ID
      /\ \A q \in Live(store) : store.heap[q].id \in Listening
  BY SegmentFields DEF ServerInv, SoundBlocks, OnlyListeningBlocks
<1>1. CASE out' = None /\ store' = store
  BY <1>0, <1>1, KeepBlock
<1>2. CASE Known(g)
  <2>1. hash_find(store, g.id) \in Live(store) /\ store.heap[hash_find(store, g.id)].id = g.id
    BY <1>0, <1>2, FindSpec DEF Known
  <2>2. Handle(store, hash_find(store, g.id), g)
    BY <1>2 DEF Known
  <2> QED BY <1>0, <2>1, <2>2, HandleSound
<1>3. CASE New(g)
  <2>1. PICK p \in Ptr \ Live(store) : Handle(hash_insert(store, p, g.id), p, g)
    BY <1>3 DEF New
  <2> DEFINE s == hash_insert(store, p, g.id)
  <2>2. CanInsert(store, p, g.id)
    BY <1>0, <1>3, FindSpec DEF CanInsert, New
  <2>3. Inserted(store, p, g.id, s)
    BY <2>2, InsertSound
  <2> HIDE DEF s
  <2>4. /\ StoreOK(s) /\ Live(s) = Live(store) \cup {p} /\ s.heap[p] = tcb_init(g.id)
        /\ \A q \in Live(store) : s.heap[q] = store.heap[q]
    BY <2>3 DEF Inserted
  <2>5. s.heap[p].id = g.id /\ NumbersAgree(s.heap[p])
    BY <1>0, <2>4, FreshBlock DEF NumbersAgree, tcb_init
  <2>6. SoundBlocks(s)
    BY <1>0, <2>4, <2>5 DEF SoundBlocks
  <2>7. p \in Live(s) /\ \A q \in Live(s) \ {p} : s.heap[q].id \in Listening
    BY <1>0, <2>4
  <2>8. Handle(s, p, g)
    BY <2>1 DEF s
  <2> QED BY <2>5, <2>6, <2>7, <2>8, HandleSound
<1>4. CASE NoMemory(g)
  <2>1. /\ StoreOK(store') /\ Live(store') = Live(store)
        /\ (store' = store \/ Live(store') = {}) /\ out' = None
    BY <1>0, <1>4, FailuresSound DEF NoMemory
  <2>2. SoundBlocks(store') /\ OnlyListeningBlocks'
    BY <1>0, <2>1 DEF SoundBlocks, OnlyListeningBlocks
  <2> QED BY <2>1, <2>2 DEF ServerInv
<1> QED BY <1>1, <1>2, <1>3, <1>4 DEF tcp_dispatch

LEMMA ServerStep == ServerInv /\ [Next]_vars => ServerInv'
<1>1. ASSUME ServerInv, NEW g \in Segments, tcp_dispatch(g) PROVE ServerInv'
  BY <1>1, DispatchSound, InputAssumption
<1>2. ASSUME ServerInv, UNCHANGED vars PROVE ServerInv'
  BY <1>2 DEF vars, ServerInv, SoundBlocks, OnlyListeningBlocks
<1> QED BY <1>1, <1>2 DEF Next

LEMMA ServerInvariant == Spec => []ServerInv
  BY ServerInit, ServerStep, PTL DEF Spec

(* Every segment leaves a well-typed table and a well-formed reply.        *)
THEOREM TypeCorrect == Spec => []TypeOK
<1> DEFINE RcvdOK == rcvd \in Segments \cup {None}
<1>1. Init => RcvdOK
  BY DEF Init
<1>2. RcvdOK /\ [Next]_vars => RcvdOK'
  BY DEF Next, tcp_dispatch, vars
<1>3. ServerInv /\ RcvdOK => TypeOK
  BY DEF ServerInv, SoundBlocks, StoreOK, TypeOK
<1> HIDE DEF RcvdOK
<1> QED BY <1>1, <1>2, <1>3, ServerInvariant, PTL DEF Spec

(* tcp_dispatch never corrupts the connection table: no use after free, no *)
(* double free, no leak, one block per four-tuple, vectors inside their    *)
(* arrays, an exact counter, also when a block is made and dropped for one *)
(* segment and when allocations fail.                                      *)
THEOREM TableStaysSound == Spec => []TableSound
<1>1. ServerInv => TableSound
  BY DEF ServerInv, SoundBlocks, TableSound
<1> QED BY <1>1, ServerInvariant, PTL

(* The sequence numbers of every block agree with its handshake, across    *)
(* the wrap of the 32-bit space.                                           *)
THEOREM NumbersFollowHandshake == Spec => []HandshakeNumbers
<1>1. ServerInv => HandshakeNumbers
  BY DEF ServerInv, SoundBlocks, HandshakeNumbers
<1> QED BY <1>1, ServerInvariant, PTL

(* Segments to ports nobody listens on never leave a block behind.         *)
THEOREM NoForeignBlocks == Spec => []OnlyListeningBlocks
<1>1. ServerInv => OnlyListeningBlocks
  BY DEF ServerInv
<1> QED BY <1>1, ServerInvariant, PTL

-----------------------------------------------------------------------------
(***************************************************************************)
(* The server implements the listener.  SessionsOf is the refinement       *)
(* mapping as a function of any store, so that it can be followed through  *)
(* the store with a new block that only exists inside tcp_dispatch.        *)
(***************************************************************************)
NoSession == [state |-> "absent", iss |-> 0, irs |-> 0]

HasBlock(s, id) == \E p \in Live(s) : s.heap[p].id = id
BlockOf(s, id)  == CHOOSE p \in Live(s) : s.heap[p].id = id

SessionsOf(s) ==
  [id \in ID |-> IF HasBlock(s, id) THEN SessionOf(s.heap[BlockOf(s, id)]) ELSE NoSession]

LEMMA SessionsNow == sessionBar = SessionsOf(store)
  BY Zenon DEF sessionBar, SessionsOf, HasBlock, BlockOf, NoSession

LEMMA SessionsNext == sessionBar' = SessionsOf(store')
  BY Zenon DEF sessionBar, SessionsOf, HasBlock, BlockOf, NoSession

(* In a sound store the session of a four-tuple is that of its one block.  *)
LEMMA SessionAt ==
  ASSUME NEW s, StoreOK(s), NEW p \in Live(s)
  PROVE  s.heap[p].id \in ID /\ SessionsOf(s)[s.heap[p].id] = SessionOf(s.heap[p])
<1> DEFINE id == s.heap[p].id
<1>1. id \in ID
  BY BlockID DEF StoreOK, StoreType
<1>2. BlockOf(s, id) \in Live(s) /\ s.heap[BlockOf(s, id)].id = id
  BY Zenon DEF BlockOf
<1>3. BlockOf(s, id) = p
  BY <1>2, Zenon DEF StoreOK, OneBlockPerID
<1>4. HasBlock(s, id)
  BY DEF HasBlock
<1> QED BY <1>1, <1>3, <1>4 DEF SessionsOf

LEMMA SessionNone ==
  ASSUME NEW s, NEW id \in ID, \A q \in Live(s) : s.heap[q].id # id
  PROVE  SessionsOf(s)[id] = NoSession
  BY Zenon DEF SessionsOf, HasBlock

(* Two sound stores with the same blocks for every other four-tuple have   *)
(* the same sessions there.                                                *)
SameElsewhere(s, u, id) ==
  /\ \A q \in Live(s) : s.heap[q].id # id => q \in Live(u) /\ u.heap[q] = s.heap[q]
  /\ \A q \in Live(u) : u.heap[q].id # id => q \in Live(s) /\ u.heap[q] = s.heap[q]

LEMMA SessionsDiffer ==
  ASSUME NEW s, NEW u, StoreOK(s), StoreOK(u), NEW id \in ID, SameElsewhere(s, u, id)
  PROVE  SessionsOf(u) = [SessionsOf(s) EXCEPT ![id] = SessionsOf(u)[id]]
<1>1. ASSUME NEW i \in ID, i # id PROVE SessionsOf(u)[i] = SessionsOf(s)[i]
  <2>1. ASSUME NEW q \in Live(s), s.heap[q].id = i PROVE SessionsOf(u)[i] = SessionsOf(s)[i]
    <3>1. q \in Live(u) /\ u.heap[q] = s.heap[q]
      BY <1>1, <2>1 DEF SameElsewhere
    <3> QED BY <2>1, <3>1, SessionAt
  <2>2. ASSUME \A q \in Live(s) : s.heap[q].id # i PROVE SessionsOf(u)[i] = SessionsOf(s)[i]
    <3>1. \A q \in Live(u) : u.heap[q].id # i
      BY <1>1, <2>2 DEF SameElsewhere
    <3> QED BY <1>1, <2>2, <3>1, SessionNone
  <2> QED BY <2>1, <2>2
<1>2. /\ SessionsOf(u) = [i \in ID |-> SessionsOf(u)[i]]
      /\ SessionsOf(s) = [i \in ID |-> SessionsOf(s)[i]]
  BY DEF SessionsOf
<1> HIDE DEF SessionsOf
<1> QED BY <1>1, <1>2

(* Writing, deleting and creating a block, seen as sessions.               *)
LEMMA SessionWritten ==
  ASSUME NEW s, StoreOK(s), NEW p \in Live(s), NEW t \in TCB, t.id = s.heap[p].id
  PROVE  SessionsOf(SetBlock(s, p, t)) = [SessionsOf(s) EXCEPT ![t.id] = SessionOf(t)]
<1> DEFINE u == SetBlock(s, p, t)
<1>1. StoreOK(u) /\ Live(u) = Live(s) /\ u.heap = [s.heap EXCEPT ![p] = t]
  BY SetSound
<1> HIDE DEF u
<1>2. s.heap \in [Live(s) -> TCB] /\ t.id \in ID
  BY BlockID DEF StoreOK, StoreType
<1>3. u.heap[p] = t /\ \A q \in Live(s) : q # p => u.heap[q] = s.heap[q]
  BY <1>1, <1>2
<1>4. SameElsewhere(s, u, t.id)
  BY <1>1, <1>3 DEF SameElsewhere
<1>5. SessionsOf(u)[t.id] = SessionOf(t)
  BY <1>1, <1>3, SessionAt
<1> QED BY <1>1, <1>2, <1>4, <1>5, SessionsDiffer DEF u

LEMMA SessionDropped ==
  ASSUME NEW s, StoreOK(s), NEW p \in Live(s), NEW id, id = s.heap[p].id
  PROVE  SessionsOf(hash_delete(s, p)) = [SessionsOf(s) EXCEPT ![id] = NoSession]
<1> DEFINE u == hash_delete(s, p)
<1>1. Deleted(s, p, u)
  BY DeleteSound
<1> HIDE DEF u
<1>2. StoreOK(u) /\ Live(u) = Live(s) \ {p} /\ \A q \in Live(u) : u.heap[q] = s.heap[q]
  BY <1>1 DEF Deleted
<1>3. id \in ID
  BY BlockID DEF StoreOK, StoreType
<1>4. SameElsewhere(s, u, id)
  BY <1>2 DEF SameElsewhere
<1>5. \A q \in Live(u) : u.heap[q].id # id
  BY <1>2 DEF StoreOK, OneBlockPerID
<1>6. SessionsOf(u)[id] = NoSession
  BY <1>3, <1>5, SessionNone
<1> QED BY <1>2, <1>3, <1>4, <1>6, SessionsDiffer DEF u

LEMMA SessionUnborn ==
  ASSUME NEW s, NEW p, NEW id \in ID, NEW u, StoreOK(s), Inserted(s, p, id, u),
         \A q \in Live(s) : s.heap[q].id # id
  PROVE  SessionsOf(u) = SessionsOf(s)
<1>1. /\ StoreOK(u) /\ Live(u) = Live(s) \cup {p} /\ u.heap[p] = tcb_init(id)
      /\ \A q \in Live(s) : u.heap[q] = s.heap[q]
  BY DEF Inserted
<1>2. u.heap[p].id = id /\ SessionOf(u.heap[p]) = NoSession
  BY <1>1 DEF tcb_init, SessionOf, NoSession
<1>3. SameElsewhere(s, u, id)
  BY <1>1, <1>2 DEF SameElsewhere
<1>4. SessionsOf(u)[id] = NoSession
  BY <1>1, <1>2, SessionAt
<1>5. SessionsOf(s)[id] = NoSession
  BY SessionNone
<1>6. SessionsOf(u) = [SessionsOf(s) EXCEPT ![id] = SessionsOf(s)[id]]
  BY <1>1, <1>3, <1>4, <1>5, SessionsDiffer
<1>7. SessionsOf(s) = [i \in ID |-> SessionsOf(s)[i]]
  BY DEF SessionsOf
<1> HIDE DEF SessionsOf
<1> QED BY <1>6, <1>7

-----------------------------------------------------------------------------
(* The SEQ_ comparisons of tcb_state_update accept exactly the numbers of  *)
(* the receive window, wherever the window wraps.                          *)
LEMMA HalfSpace == SeqMod \in Nat /\ SignBit \in Nat /\ SeqMod = 2 * SignBit
<1> DEFINE h == W16 \div 2
<1>1. W16 \in Nat /\ h \in Nat /\ W16 = 2 * h
  BY W16Assumption
<1> HIDE DEF h
<1>2. h * W16 \in Nat /\ (2 * h) * W16 = 2 * (h * W16)
  BY <1>1
<1>3. W16 * W16 = 2 * (h * W16)
  BY <1>1, <1>2
<1> QED BY <1>2, <1>3 DEF SeqMod, SignBit, h

LEMMA WindowExact ==
  ASSUME NEW a \in SeqNum, NEW b \in SeqNum
  PROVE  SEQ_GEQ(a, b) /\ SEQ_LT(a, Add32(b, TCP_WIN_DEF))
           <=> \E k \in 0 .. TCP_WIN_DEF - 1 : a = Add32(b, k)
<1> DEFINE M == SeqMod
           S == SignBit
           W == TCP_WIN_DEF
           d == Sub32(a, b)
<1>1. M \in Nat /\ S \in Nat /\ M = 2 * S /\ W \in Nat /\ 0 < W /\ W <= S
  BY HalfSpace, WindowAssumption
<1>2. a \in 0 .. M - 1 /\ b \in 0 .. M - 1
  BY DEF SeqNum
<1> HIDE DEF M, S, W
<1>3. d \in 0 .. M - 1 /\ a = Add32(b, d)
  BY <1>1, <1>2 DEF Sub32, Add32, M
<1>4. ASSUME NEW k \in 0 .. W - 1, a = Add32(b, k) PROVE k = d
  BY <1>1, <1>2, <1>4 DEF Sub32, Add32, M
<1>5. SEQ_GEQ(a, b) <=> d < S
  BY <1>1, <1>3 DEF SEQ_GEQ, SEQ_LT, S
<1>6. d < W => SEQ_LT(a, Add32(b, W)) /\ d < S
  BY <1>1, <1>2 DEF SEQ_LT, Sub32, Add32, S, M
<1>7. d < S /\ ~(d < W) => ~SEQ_LT(a, Add32(b, W))
  BY <1>1, <1>2 DEF SEQ_LT, Sub32, Add32, S, M
<1> HIDE DEF d
<1>8. (\E k \in 0 .. W - 1 : a = Add32(b, k)) <=> d < W
  BY <1>1, <1>3, <1>4
<1> QED BY <1>5, <1>6, <1>7, <1>8 DEF W

-----------------------------------------------------------------------------
(* The listener's own copies of the protocol operators.                    *)
LEMMA ListenerReply == Listener!Reply = Reply
  BY Zenon DEF Listener!Reply, Reply, Listener!Flag, Flag, Listener!SeqNum, SeqNum, Listener!SeqMod, SeqMod

LEMMA ListenerAdd == ASSUME NEW a, NEW b PROVE Listener!Add32(a, b) = Add32(a, b)
  BY Zenon DEF Listener!Add32, Add32, Listener!SeqMod, SeqMod

LEMMA ListenerWindow ==
  ASSUME NEW t \in TCB, NumbersAgree(t), t.state # "CON_CLOSED", NEW g \in Segment
  PROVE  RstAccepted(t, g) <=> Listener!InWindow(g.seq, Listener!Add32(t.recv.irs, 1))
<1>1. t.recv.next = Add32(t.recv.irs, 1) /\ t.recv.next \in SeqNum /\ t.recv.window = TCP_WIN_DEF
  BY BlockFields DEF NumbersAgree
<1>2. g.seq \in SeqNum
  BY SegmentFields
<1>3. RstAccepted(t, g) <=> \E k \in 0 .. TCP_WIN_DEF - 1 : g.seq = Add32(t.recv.next, k)
  BY <1>1, <1>2, WindowExact, Zenon DEF RstAccepted
<1>4. Listener!InWindow(g.seq, Listener!Add32(t.recv.irs, 1))
        <=> \E k \in 0 .. TCP_WIN_DEF - 1 : g.seq = Add32(t.recv.next, k)
  BY <1>1, ListenerAdd, Zenon DEF Listener!InWindow
<1> QED BY <1>3, <1>4

(* What the listener does for a segment, and who built the reply.          *)
Responds(g) == \/ Listener!Open(g) /\ out'.by = "tcp_syn_ack"
               \/ Listener!Refuse(g) /\ out' \in tcp_rst(g)
               \/ Listener!Confirm(g) \/ Listener!Reset(g) \/ Listener!Ignore(g)

(* tcp_dispatch with block p at hand, which the sessions do not tell from  *)
(* no block when it is new.                                                *)
LEMMA HandleResponds ==
  ASSUME NEW s, SoundBlocks(s), NEW p \in Live(s), NEW g \in Segment, g.sound,
         s.heap[p].id = g.id, sessionBar = SessionsOf(s), Handle(s, p, g)
  PROVE  Responds(g)
<1> DEFINE t == s.heap[p]
<1>0. /\ StoreOK(s) /\ t \in TCB /\ g \in Segment /\ NumbersAgree(t) /\ t.state \in Con_State
      /\ IssValues \subseteq SeqNum /\ g.id \in ID
  <2>1. t \in TCB
    BY DEF SoundBlocks, StoreOK, StoreType
  <2> QED BY <2>1, InputAssumption, BlockFields, SegmentFields DEF SoundBlocks
<1>1. sessionBar[g.id] = SessionOf(t)
  BY <1>0, SessionAt
<1>2. /\ t.state = "CON_CLOSED" => sessionBar[g.id].state = "absent"
      /\ t.state = "CON_SYN_RECEIVED" =>
           sessionBar[g.id] = [state |-> "half", iss |-> t.send.iss, irs |-> t.recv.irs]
      /\ t.state = "CON_ESTABLISHED" =>
           sessionBar[g.id] = [state |-> "open", iss |-> t.send.iss, irs |-> t.recv.irs]
  BY <1>1 DEF SessionOf
<1>3. store' = hash_delete(s, p) => sessionBar' = [sessionBar EXCEPT ![g.id] = NoSession]
  BY <1>0, SessionDropped, SessionsNext
<1>4. store' = s => sessionBar' = sessionBar
  BY SessionsNext
<1>5. ASSUME NEW u \in TCB, u.id = t.id, store' = SetBlock(s, p, u)
      PROVE  sessionBar' = [sessionBar EXCEPT ![g.id] = SessionOf(u)]
  BY <1>0, <1>5, SessionWritten, SessionsNext
<1>6. CASE OnSyn(s, p, g)
  <2>1. parse_edge(g, t.state) = "EVT_SYN"
    BY <1>6 DEF OnSyn
  <2>2. /\ t.state = "CON_CLOSED" /\ g.id \in Listening
        /\ "SYN" \in g.flags /\ "ACK" \notin g.flags /\ "RST" \notin g.flags
    BY <1>0, <2>1 DEF parse_edge, Con_State
  <2>3. PICK iss \in IssValues : /\ store' = SetBlock(s, p, update_syn(t, g, iss))
                                 /\ out' = tcp_syn_ack(update_syn(t, g, iss), g)
    BY <1>6 DEF OnSyn
  <2> DEFINE u == update_syn(t, g, iss)
  <2>4. u \in TCB /\ u.id = t.id
    BY <1>0, <2>2, SynBlock
  <2>5. u.state = "CON_SYN_RECEIVED" /\ u.send.iss = iss /\ u.recv.irs = g.seq /\ u.recv.next = Add32(g.seq, 1)
    BY <1>0, <2>2 DEF update_syn, TCB
  <2>6. out' = tcp_syn_ack(u, g) /\ store' = SetBlock(s, p, u)
    BY <2>3
  <2> HIDE DEF u
  <2>7. sessionBar' = [sessionBar EXCEPT ![g.id] = [state |-> "half", iss |-> iss, irs |-> g.seq]]
    BY <1>5, <2>4, <2>5, <2>6 DEF SessionOf
  <2>8. /\ out' \in Listener!Reply /\ out'.to = g.id /\ out'.flags = {"SYN", "ACK"}
        /\ out'.seq = iss /\ out'.ack = Listener!Add32(g.seq, 1) /\ out'.by = "tcp_syn_ack"
    BY <1>0, <2>4, <2>5, <2>6, SynAckReply, ListenerReply, ListenerAdd DEF tcp_syn_ack
  <2>9. Listener!Open(g)
    BY <1>2, <2>2, <2>7, <2>8, Zenon DEF Listener!Open, Listener!Is, Listener!Has, Listener!Becomes
  <2> QED BY <2>8, <2>9 DEF Responds
<1>7. CASE OnAck(s, p, g)
  <2>1. parse_edge(g, t.state) = "EVT_ACK" /\ out' = None
    BY <1>7 DEF OnAck
  <2>2. /\ t.state = "CON_SYN_RECEIVED" /\ g.id \in Listening
        /\ "ACK" \in g.flags /\ "SYN" \notin g.flags /\ "RST" \notin g.flags
    BY <1>0, <2>1 DEF parse_edge, Con_State
  <2>3. /\ t.send.next = Add32(t.send.iss, 1) /\ sessionBar[g.id].state = "half"
        /\ sessionBar[g.id].iss = t.send.iss
    BY <1>0, <1>2, <2>2 DEF NumbersAgree
  <2>4. AckAccepted(t, g) <=> g.ack = Listener!Add32(sessionBar[g.id].iss, 1)
    BY <2>3, ListenerAdd DEF AckAccepted
  <2>5. CASE AckAccepted(t, g)
    <3> DEFINE u == update_ack(t, g)
    <3>1. u \in TCB /\ u.id = t.id
      BY <1>0, <2>2, <2>5, AckBlock
    <3>2. u.state = "CON_ESTABLISHED" /\ u.send.iss = t.send.iss /\ u.recv = t.recv
      BY <1>0, BlockFields DEF update_ack, TCB, Send_State
    <3>3. store' = SetBlock(s, p, u)
      BY <1>7, <2>5 DEF OnAck
    <3> HIDE DEF u
    <3>4. SessionOf(u) = [sessionBar[g.id] EXCEPT !.state = "open"]
      BY <1>2, <2>2, <3>2 DEF SessionOf
    <3>5. sessionBar' = [sessionBar EXCEPT ![g.id] = [sessionBar[g.id] EXCEPT !.state = "open"]]
      BY <1>5, <3>1, <3>3, <3>4
    <3>6. Listener!Confirm(g)
      BY <2>1, <2>2, <2>3, <2>4, <2>5, <3>5, Zenon
         DEF Listener!Confirm, Listener!Is, Listener!Has, Listener!Becomes
    <3> QED BY <3>6 DEF Responds
  <2>6. CASE ~AckAccepted(t, g)
    <3>1. sessionBar' = sessionBar
      BY <1>4, <1>7, <2>6 DEF OnAck
    <3>2. Listener!Ignore(g)
      BY <2>1, <2>2, <2>3, <2>4, <2>6, <3>1, Zenon DEF Listener!Ignore, Listener!Is, Listener!Has
    <3> QED BY <3>2 DEF Responds
  <2> QED BY <2>5, <2>6
<1>8. CASE OnRst(s, p, g)
  <2>1. parse_edge(g, t.state) = "EVT_RST" /\ out' = None
    BY <1>8 DEF OnRst
  <2>2. g.id \in Listening /\ "RST" \in g.flags
    BY <1>0, <2>1 DEF parse_edge, Con_State
  <2>3. CASE t.state = "CON_CLOSED"
    <3>1. sessionBar[g.id] = NoSession
      BY <1>1, <2>3 DEF SessionOf, NoSession
    <3>2. [sessionBar EXCEPT ![g.id] = NoSession] = sessionBar
      BY <3>1, SessionsNow DEF SessionsOf
    <3>3. sessionBar' = sessionBar
      BY <1>3, <1>4, <1>8, <3>2 DEF OnRst
    <3>4. Listener!Ignore(g)
      BY <1>2, <2>1, <2>3, <3>3, Zenon DEF Listener!Ignore, Listener!Is
    <3> QED BY <3>4 DEF Responds
  <2>4. CASE t.state # "CON_CLOSED"
    <3>1. sessionBar[g.id].state # "absent" /\ sessionBar[g.id].irs = t.recv.irs
      BY <1>0, <1>2, <2>4 DEF Con_State
    <3>2. RstAccepted(t, g) <=> Listener!InWindow(g.seq, Listener!Add32(sessionBar[g.id].irs, 1))
      BY <1>0, <2>4, <3>1, ListenerWindow
    <3>3. CASE RstAccepted(t, g)
      <4>1. sessionBar' = [sessionBar EXCEPT ![g.id] = NoSession]
        BY <1>3, <1>8, <3>3 DEF OnRst
      <4>2. Listener!Reset(g)
        BY <2>1, <2>2, <3>1, <3>2, <3>3, <4>1, Zenon
           DEF Listener!Reset, Listener!Is, Listener!Has, Listener!Becomes, Listener!Absent, NoSession
      <4> QED BY <4>2 DEF Responds
    <3>4. CASE ~RstAccepted(t, g)
      <4>1. sessionBar' = sessionBar
        BY <1>4, <1>8, <3>4 DEF OnRst
      <4>2. Listener!Ignore(g)
        BY <2>1, <2>2, <3>2, <3>4, <4>1, Zenon DEF Listener!Ignore, Listener!Has
      <4> QED BY <4>2 DEF Responds
    <3> QED BY <3>3, <3>4
  <2> QED BY <2>3, <2>4
<1>9. CASE OnSendRst(s, p, g)
  <2>1. parse_edge(g, t.state) = "EVT_SEND_RST" /\ store' = hash_delete(s, p) /\ out' \in tcp_rst(g)
    BY <1>9 DEF OnSendRst
  <2>2. sessionBar' = [sessionBar EXCEPT ![g.id] = NoSession]
    BY <1>3, <2>1
  <2>3. out' \in Listener!Reply /\ out'.to = g.id
    <3>1. out' \in Reply
      BY <1>0, <2>1, RstReply
    <3>2. out'.to = g.id
      BY <2>1 DEF tcp_rst
    <3> QED BY <3>1, <3>2, ListenerReply
  <2>4. \/ g.id \notin Listening
        \/ /\ "RST" \notin g.flags
           /\ \/ t.state = "CON_CLOSED" /\ ("SYN" \in g.flags => "ACK" \in g.flags)
              \/ t.state = "CON_SYN_RECEIVED" /\ ("ACK" \in g.flags => "SYN" \in g.flags)
              \/ t.state = "CON_ESTABLISHED" /\ "SYN" \in g.flags
    BY <1>0, <2>1 DEF parse_edge, Con_State
  <2>5. /\ t.state = "CON_SYN_RECEIVED" => sessionBar[g.id].state = "half"
        /\ t.state = "CON_ESTABLISHED" => sessionBar[g.id].state = "open"
    BY <1>2
  <2>6. Listener!Refuse(g)
    BY <1>2, <2>2, <2>3, <2>4, <2>5, Zenon
       DEF Listener!Refuse, Listener!Is, Listener!Has, Listener!Becomes, Listener!Absent, NoSession
  <2> QED BY <2>1, <2>6 DEF Responds
<1>10. CASE OnOther(s, p, g)
  <2>1. parse_edge(g, t.state) \in {"EVT_DATA", "EVT_DROP"} /\ store' = s /\ out' = None
    BY <1>10 DEF OnOther
  <2>2. t.state = "CON_ESTABLISHED" /\ "SYN" \notin g.flags /\ "RST" \notin g.flags
    BY <1>0, <2>1 DEF parse_edge, Con_State
  <2>3. sessionBar[g.id].state = "open" /\ sessionBar' = sessionBar
    BY <1>2, <1>4, <2>1, <2>2
  <2>4. Listener!Ignore(g)
    BY <2>1, <2>2, <2>3, Zenon DEF Listener!Ignore, Listener!Is, Listener!Has
  <2> QED BY <2>4 DEF Responds
<1> QED BY <1>6, <1>7, <1>8, <1>9, <1>10 DEF Handle

(* With memory at hand tcp_dispatch handles the segment on a block of its  *)
(* four-tuple, in a table that shows the same sessions.                    *)
LEMMA DispatchHandles ==
  ASSUME ServerInv, NEW g \in Segment, Known(g) \/ New(g)
  PROVE  \E s : \E p \in Live(s) : /\ SoundBlocks(s) /\ s.heap[p].id = g.id
                                   /\ sessionBar = SessionsOf(s) /\ Handle(s, p, g)
<1>0. SoundBlocks(store) /\ StoreOK(store) /\ g.id \in ID
  BY SegmentFields DEF ServerInv, SoundBlocks
<1>1. CASE Known(g)
  <2>1. hash_find(store, g.id) \in Live(store) /\ store.heap[hash_find(store, g.id)].id = g.id
    BY <1>0, <1>1, FindSpec DEF Known
  <2>2. Handle(store, hash_find(store, g.id), g)
    BY <1>1 DEF Known
  <2> QED BY <1>0, <2>1, <2>2, SessionsNow
<1>2. CASE New(g)
  <2>1. PICK p \in Ptr \ Live(store) : Handle(hash_insert(store, p, g.id), p, g)
    BY <1>2 DEF New
  <2> DEFINE s == hash_insert(store, p, g.id)
  <2>2. CanInsert(store, p, g.id) /\ \A q \in Live(store) : store.heap[q].id # g.id
    BY <1>0, <1>2, FindSpec DEF CanInsert, New
  <2>3. Inserted(store, p, g.id, s) /\ Handle(s, p, g)
    BY <2>1, <2>2, InsertSound
  <2> HIDE DEF s
  <2>4. /\ StoreOK(s) /\ Live(s) = Live(store) \cup {p} /\ s.heap[p] = tcb_init(g.id)
        /\ \A q \in Live(store) : s.heap[q] = store.heap[q]
    BY <2>3 DEF Inserted
  <2>5. s.heap[p].id = g.id /\ NumbersAgree(s.heap[p])
    BY <1>0, <2>4, FreshBlock DEF NumbersAgree, tcb_init
  <2>6. SoundBlocks(s) /\ p \in Live(s)
    BY <1>0, <2>4, <2>5 DEF SoundBlocks
  <2>7. sessionBar = SessionsOf(s)
    BY <1>0, <2>2, <2>3, SessionUnborn, SessionsNow
  <2> QED BY <2>3, <2>5, <2>6, <2>7
<1> QED BY <1>1, <1>2

LEMMA DispatchResponds ==
  ASSUME ServerInv, NEW g \in Segment, tcp_dispatch(g)
  PROVE  rcvd' = g /\ Responds(g)
<1>0. SoundBlocks(store) /\ StoreOK(store) /\ g.id \in ID /\ rcvd' = g
  BY InputAssumption, SegmentFields DEF ServerInv, SoundBlocks, tcp_dispatch
<1>1. CASE ~g.sound /\ out' = None /\ store' = store
  <2>1. sessionBar' = sessionBar
    BY <1>1, SessionsNow, SessionsNext
  <2>2. Listener!Ignore(g)
    BY <1>1, <2>1, Zenon DEF Listener!Ignore
  <2> QED BY <1>0, <2>2 DEF Responds
<1>2. CASE g.sound /\ (Known(g) \/ New(g))
  BY <1>0, <1>2, DispatchHandles, HandleResponds
<1>3. CASE g.sound /\ NoMemory(g)
  <2>1. /\ Live(store') = Live(store) /\ (store' = store \/ Live(store') = {}) /\ out' = None
        /\ \A q \in Live(store) : store.heap[q].id # g.id
    BY <1>0, <1>3, FailuresSound, FindSpec DEF NoMemory
  <2>2. sessionBar[g.id].state = "absent"
    BY <1>0, <2>1, SessionNone, SessionsNow DEF NoSession
  <2>3. sessionBar' = sessionBar
    <3>1. CASE store' = store
      BY <3>1, SessionsNow, SessionsNext
    <3>2. CASE Live(store') = {} /\ Live(store) = {}
      <4>1. \A id \in ID : SessionsOf(store)[id] = NoSession /\ SessionsOf(store')[id] = NoSession
        BY <3>2, SessionNone
      <4>2. SessionsOf(store) = [id \in ID |-> NoSession] /\ SessionsOf(store') = [id \in ID |-> NoSession]
        BY <4>1, Zenon DEF SessionsOf
      <4> QED BY <4>2, SessionsNow, SessionsNext
    <3> QED BY <2>1, <3>1, <3>2
  <2>4. Listener!Ignore(g)
    BY <2>1, <2>2, <2>3, Zenon DEF Listener!Ignore, Listener!Is
  <2> QED BY <1>0, <2>4 DEF Responds
<1> QED BY <1>1, <1>2, <1>3 DEF tcp_dispatch

(* tcp_dispatch, with its table, its allocations and their failures, keeps *)
(* what the TCP layer promises its peers: only a pure SYN to the listening *)
(* port opens a session, only the acknowledgement of the number sent       *)
(* confirms it, only a reset of the window or a refusal ends it.           *)
THEOREM ImplementsTheListener == Spec => ImplementsListener
<1>1. Init => Listener!Init
  <2> SUFFICES ASSUME Init PROVE Listener!Init
    OBVIOUS
  <2>1. Live(store) = {}
    BY DEF Init, EmptyStore, Live
  <2>2. \A id \in ID : SessionsOf(store)[id] = NoSession
    BY <2>1, SessionNone
  <2>3. SessionsOf(store) = [id \in ID |-> NoSession]
    BY <2>2, Zenon DEF SessionsOf
  <2>4. sessionBar = [id \in ID |-> Listener!Absent]
    BY <2>3, SessionsNow, Zenon DEF NoSession, Listener!Absent
  <2> QED BY <2>4, Zenon DEF Init, Listener!Init
<1>2. ServerInv /\ [Next]_vars => [Listener!Next]_<<sessionBar, rcvd, out>>
  <2> SUFFICES ASSUME ServerInv, [Next]_vars PROVE [Listener!Next]_<<sessionBar, rcvd, out>>
    OBVIOUS
  <2>1. \A g \in Segments : g \in Segment
    BY InputAssumption
  <2>2. ASSUME NEW g \in Segments, tcp_dispatch(g) PROVE Listener!Next
    BY <2>1, <2>2, DispatchResponds, Zenon DEF Responds, Listener!Next
  <2>3. CASE UNCHANGED vars
    BY <2>3, SessionsNow, SessionsNext DEF vars
  <2> QED BY <2>2, <2>3 DEF Next
<1> QED BY <1>1, <1>2, ServerInvariant, PTL DEF Spec, ImplementsListener, Listener!Spec
=============================================================================
