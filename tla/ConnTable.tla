----------------------------- MODULE ConnTable -----------------------------
(***************************************************************************)
(* The connection table of hash.c with the vectors of vector.c as buckets, *)
(* and the heap of transmission control blocks it owns.                    *)
(*                                                                         *)
(* store is the whole of it: g_tbl_init, the bucket vectors (vec holds the *)
(* used slots, cap the capacity, 0 while the array is not allocated), the  *)
(* size counter, and heap, the function from the blocks that are allocated *)
(* to their contents.  The operators take a store and return the store     *)
(* the code leaves behind, so that a handler can chain them.               *)
(***************************************************************************)
EXTENDS TcpProtocol, Sequences, FiniteSets

CONSTANTS
  HT_SIZE,   \* number of buckets
  DEF_CAP,   \* capacity of a fresh vector
  HashOf,    \* hash_id, as the function from IDs to buckets it computes
  Ptr,       \* addresses malloc may return for a TCB
  NULL

Bucket == 0 .. HT_SIZE - 1

ASSUME TableAssumption == /\ HT_SIZE \in Nat /\ HT_SIZE > 0
                          /\ DEF_CAP \in Nat /\ DEF_CAP > 0
                          /\ HashOf \in [ID -> Bucket]
ASSUME PtrAssumption == NULL \notin Ptr

VARIABLE store

Live(s) == DOMAIN s.heap

EmptyStore == [init |-> FALSE, size |-> 0,
               vec  |-> [b \in Bucket |-> <<>>],
               cap  |-> [b \in Bucket |-> 0],
               heap |-> [p \in {} |-> NULL]]

-----------------------------------------------------------------------------
(* vec_find: the first slot of a bucket whose block has the given ID.      *)
Matches(s, v, id) == {i \in 1 .. Len(v) : s.heap[v[i]].id = id}
FirstMatch(s, v, id) == CHOOSE i \in Matches(s, v, id) :
                          \A j \in Matches(s, v, id) : i <= j

hash_id(id) == HashOf[id]

MissesLastSlot(s, id) ==                \* mutant: vec_find stops one slot early
  LET v == s.vec[hash_id(id)]
      M == Matches(s, v, id) \ {Len(v)}
  IN  IF s.init /\ M # {} THEN v[FirstMatch(s, v, id)] ELSE NULL

FindsFirstSlot(s, id) ==                \* mutant: vec_find compares no ID
  LET v == s.vec[hash_id(id)]
  IN  IF s.init /\ Len(v) > 0 THEN v[1] ELSE NULL

hash_find(s, id) ==
  LET v == s.vec[hash_id(id)]
  IN  IF s.init /\ Matches(s, v, id) # {} THEN v[FirstMatch(s, v, id)] ELSE NULL

(***************************************************************************)
(* hash_init when the first n calls of vec_init get their array: the       *)
(* table is only marked initialised when all of them do.                   *)
(***************************************************************************)
MarksInitEarly(s, n) ==                 \* mutant: a failing vec_init is ignored
  [s EXCEPT !.vec  = [b \in Bucket |-> IF b < n THEN <<>> ELSE s.vec[b]],
            !.cap  = [b \in Bucket |-> IF b < n THEN DEF_CAP ELSE s.cap[b]],
            !.size = 0, !.init = TRUE]

hash_init(s, n) ==
  [init |-> n = HT_SIZE,
   size |-> IF n = HT_SIZE THEN 0 ELSE s.size,
   vec  |-> [b \in Bucket |-> IF b < n THEN <<>> ELSE s.vec[b]],
   cap  |-> [b \in Bucket |-> IF b < n THEN DEF_CAP ELSE s.cap[b]],
   heap |-> s.heap]

(* vec_push after its realloc, if it needs one, succeeded.                 *)
NeverGrows(s, b, p) ==                  \* mutant: the full vector is not enlarged
  [s EXCEPT !.vec[b] = Append(@, p)]

vec_push(s, b, p) ==
  [s EXCEPT !.cap[b] = IF Len(s.vec[b]) = @ THEN 2 * @ ELSE @,
            !.vec[b] = Append(@, p)]

malloc(s, p, tcb) ==
  [s EXCEPT !.heap = [q \in Live(s) \cup {p} |-> IF q = p THEN tcb ELSE s.heap[q]]]

free(s, P) == [s EXCEPT !.heap = [q \in Live(s) \ P |-> s.heap[q]]]

(***************************************************************************)
(* hash_insert of a block that tcb_init just allocated at address p, and   *)
(* the stores a failing tcb_init or hash_insert leaves: hash_init may stop *)
(* after n < HT_SIZE buckets, and a failed malloc of the block or realloc  *)
(* of the bucket changes nothing (the caller frees the block again).       *)
(***************************************************************************)
hash_insert(s, p, id) ==
  LET t == IF s.init THEN s ELSE hash_init(s, HT_SIZE)
      u == vec_push(malloc(t, p, tcb_init(id)), hash_id(id), p)
  IN  [u EXCEPT !.size = @ + 1]

InsertFailures(s) ==
  {s} \cup (IF s.init THEN {} ELSE {hash_init(s, n) : n \in 0 .. HT_SIZE - 1})

(* vec_delete: free the block found by ID, move the last slot into its     *)
(* place.                                                                  *)
SwapPop(v, i) == [j \in 1 .. Len(v) - 1 |-> IF j = i THEN v[Len(v)] ELSE v[j]]

PopsWithoutSwap(s, b, id) ==            \* mutant: the last slot is dropped unsaved
  LET v == s.vec[b]
      i == FirstMatch(s, v, id)
  IN  IF Matches(s, v, id) = {} THEN s
      ELSE [free(s, {v[i]}) EXCEPT !.vec[b] = [j \in 1 .. Len(v) - 1 |-> v[j]]]

vec_delete(s, b, id) ==
  LET v == s.vec[b]
      i == FirstMatch(s, v, id)
  IN  IF Matches(s, v, id) = {} THEN s
      ELSE [free(s, {v[i]}) EXCEPT !.vec[b] = SwapPop(v, i)]

DeleteForgetsSize(s, p) ==              \* mutant: the counter is not decremented
  vec_delete(s, hash_id(s.heap[p].id), s.heap[p].id)

hash_delete(s, p) ==
  LET id == s.heap[p].id
      t  == vec_delete(s, hash_id(id), id)
  IN  [t EXCEPT !.size = @ - 1]

InSlots(s) == UNION {{s.vec[b][i] : i \in 1 .. Len(s.vec[b])} : b \in Bucket}

hash_destroy(s) ==
  [free(s, InSlots(s)) EXCEPT !.vec  = [b \in Bucket |-> <<>>],
                              !.cap  = [b \in Bucket |-> 0],
                              !.size = 0, !.init = FALSE]

-----------------------------------------------------------------------------
(***************************************************************************)
(* The table under any sequence of the calls its clients make: a block is  *)
(* inserted only for an ID that was not found (tcp_parse_edge), deleted    *)
(* through a pointer that the table returned, and the table destroyed.     *)
(***************************************************************************)
Create(id) ==
  /\ hash_find(store, id) = NULL
  /\ \/ \E p \in Ptr \ Live(store) : store' = hash_insert(store, p, id)
     \/ store' \in InsertFailures(store)

Delete(id) ==
  /\ hash_find(store, id) # NULL
  /\ store' = hash_delete(store, hash_find(store, id))

Destroy ==
  /\ store.init
  /\ store' = hash_destroy(store)

TableInit == store = EmptyStore
TableNext == (\E id \in ID : Create(id) \/ Delete(id)) \/ Destroy
TableSpec == TableInit /\ [][TableNext]_store

-----------------------------------------------------------------------------
(* Type invariant of the table: the counter is a natural number (a size_t  *)
(* that never went below zero), slots hold addresses, blocks are TCBs.     *)
StoreType(s) ==
  /\ DOMAIN s = {"init", "size", "vec", "cap", "heap"}
  /\ s.init \in BOOLEAN
  /\ s.size \in Nat
  /\ s.vec \in [Bucket -> Seq(Ptr)]
  /\ s.cap \in [Bucket -> Nat]
  /\ Live(s) \subseteq Ptr
  /\ s.heap \in [Live(s) -> TCB]
TableTypeOK == StoreType(store)

(* Every slot in use holds a live block, filed in the bucket its ID hashes *)
(* to, and no block is filed twice: vec_delete's swap-and-pop leaves       *)
(* neither a dangling slot nor a second reference that would be freed      *)
(* again.                                                                  *)
NoDanglingSlot(s) ==
  \A b \in Bucket : \A i \in 1 .. Len(s.vec[b]) :
    /\ s.vec[b][i] \in Live(s)
    /\ hash_id(s.heap[s.vec[b][i]].id) = b
    /\ \A j \in 1 .. Len(s.vec[b]) : s.vec[b][i] = s.vec[b][j] => i = j

(* Every allocated block is reachable: it sits in some slot of the bucket  *)
(* of its ID, so nothing leaks when an insert fails half way, and          *)
(* hash_find can return it.                                                *)
NoLeak(s) ==
  \A p \in Live(s) :
    /\ s.init
    /\ \E i \in 1 .. Len(s.vec[hash_id(s.heap[p].id)]) : s.vec[hash_id(s.heap[p].id)][i] = p

(* At most one block per four-tuple: vec_find and vec_delete, which stop   *)
(* at the first match, mean the same block.                                *)
OneBlockPerID(s) ==
  \A p, q \in Live(s) : s.heap[p].id = s.heap[q].id => p = q

(* No vector holds more than its array: vec_push enlarges it in time, and  *)
(* a bucket is only ever used once its array is allocated.                 *)
WithinCapacity(s) ==
  \A b \in Bucket : /\ Len(s.vec[b]) <= s.cap[b]
                    /\ s.init => s.cap[b] >= DEF_CAP

(* g_con_table.size counts the live blocks exactly.                        *)
SizeExact(s) == IsFiniteSet(Live(s)) /\ s.size = Cardinality(Live(s))

StoreOK(s) == /\ StoreType(s) /\ NoDanglingSlot(s) /\ NoLeak(s)
              /\ OneBlockPerID(s) /\ WithinCapacity(s) /\ SizeExact(s)

(* Slots and allocated blocks correspond one to one under any sequence of  *)
(* inserts, deletes, failing allocations and destroys.                     *)
TableOwnsBlocks == NoDanglingSlot(store) /\ NoLeak(store)

(* A four-tuple never gets a second block: hash_find sees every block that *)
(* hash_insert filed, wherever later deletions moved it.                   *)
TableUnique == OneBlockPerID(store)

(* Lookup is exact: hash_find returns the live block of that four-tuple,   *)
(* and NULL only when there is none.                                       *)
TableLookup ==
  \A id \in ID :
    LET p == hash_find(store, id)
    IN  IF p = NULL THEN \A q \in Live(store) : store.heap[q].id # id
        ELSE p \in Live(store) /\ store.heap[p].id = id

(* Vectors never outgrow their arrays, through growth, failed hash_init    *)
(* and re-initialisation after hash_destroy.                               *)
TableCapacity == WithinCapacity(store)

(* The size counter is exact, so its decrement in hash_delete never wraps. *)
TableSize == SizeExact(store)
=============================================================================
