-------------------------- MODULE ThreadPoolProofs --------------------------
(***************************************************************************)
(* Safety of the worker pool for any number of workers, callers and jobs,  *)
(* any length of operations[] and any number of spurious wakeups.          *)
(***************************************************************************)
EXTENDS ThreadPool, FiniteSetTheorems, SequenceTheorems, TLAPS

(* The argument of a call in progress is a job, which TypeOK alone does    *)
(* not say and CEnqueue needs to keep the queue well typed.                *)
OpAssigned == \A c \in Caller : cpc[c] # "idle" => op[c] \in Job

(* Workers that thread_pool_init did not create yet have not moved.        *)
NotCreated == mpc = "init" => \A w \in Worker : w > k => wpc[w] = "none"

TypeInv == TypeOK /\ OpAssigned /\ NotCreated

LEMMA InitTypeInv == Init => TypeInv
<1> SUFFICES ASSUME Init PROVE TypeInv
  OBVIOUS
<1>1. jobs \in Seq(Job) /\ Len(jobs) = 0 /\ accepted \in Seq(Job) /\ taken \in Seq(Job)
  BY DEF Init
<1>2. k \in 0 .. num_threads - 1 /\ spurious \in 0 .. MaxSpurious /\ 0 <= LOAD_BOUND - 1
  BY SizeAssumption DEF Init
<1>3. wpc \in [Worker -> WPC] /\ job \in [Worker -> Job \cup {NoJob}]
  BY DEF Init, WPC
<1>6. NotCreated
  BY DEF Init, NotCreated
<1>4. cpc \in [Caller -> CPC] /\ op \in [Caller -> Job \cup {NoJob}] /\ OpAssigned
  BY DEF Init, CPC, OpAssigned
<1>5. mutex \in Worker \cup Caller \cup {Main, Free} /\ mpc \in MPC
  BY DEF Init, MPC
<1> QED BY <1>1, <1>2, <1>3, <1>4, <1>5, <1>6 DEF Init, TypeInv, TypeOK

(* Removing the oldest job of a queue: the rest is a queue one shorter.    *)
LEMMA TailQueue ==
  ASSUME NEW S, NEW q \in Seq(S), q # <<>>
  PROVE  /\ Head(q) \in S /\ Tail(q) \in Seq(S) /\ Len(Tail(q)) = Len(q) - 1
         /\ Len(q) \in Nat /\ Len(q) > 0
  OBVIOUS

(* Steps of a worker keep the types.                                       *)
LEMMA WorkerTypeInv ==
  ASSUME TypeInv, NEW w \in Worker, WStep(w) \/ WSpurious(w)
  PROVE  TypeInv'
<1> USE SizeAssumption DEF TypeInv, TypeOK, OpAssigned, NotCreated, cvars, mvars, GoW, WPC
<1>1. CASE WLock(w)
  BY <1>1 DEF WLock, Lock
<1>2. CASE WTest(w)
  BY <1>2 DEF WTest, Unlock
<1>3. CASE WSpurious(w)
  BY <1>3 DEF WSpurious
<1>4. CASE WWake(w)
  BY <1>4 DEF WWake, Lock
<1>5. CASE WTake(w)
  <2>1. CASE jobs # <<>>
    <3>1. Head(jobs) \in Job /\ Tail(jobs) \in Seq(Job) /\ Len(Tail(jobs)) = Len(jobs) - 1
      BY <2>1, TailQueue
    <3>2. jobs' = Tail(jobs) /\ taken' = Append(taken, Head(jobs))
      BY <1>5, <2>1, Zenon DEF WTake
    <3>3. taken' \in Seq(Job) /\ jobs' \in Seq(Job) /\ Len(jobs') <= LOAD_BOUND - 1
      BY <3>1, <3>2
    <3>4. job' \in [Worker -> Job \cup {NoJob}] /\ wpc' \in [Worker -> WPC]
      BY <1>5, <2>1, <3>1 DEF WTake
    <3> QED BY <1>5, <2>1, <3>3, <3>4 DEF WTake
  <2>2. CASE jobs = <<>>
    BY <1>5, <2>2 DEF WTake, Unlock
  <2> QED BY <2>1, <2>2
<1>6. CASE WUnlock(w)
  BY <1>6 DEF WUnlock, Unlock
<1>7. CASE WRun(w)
  BY <1>7 DEF WRun
<1> QED BY <1>1, <1>2, <1>3, <1>4, <1>5, <1>6, <1>7 DEF WStep

(* Steps of a caller keep the types.                                       *)
LEMMA CallerTypeInv ==
  ASSUME TypeInv, NEW c \in Caller, CCall(c) \/ CStep(c)
  PROVE  TypeInv'
<1> USE SizeAssumption DEF TypeInv, TypeOK, OpAssigned, NotCreated, wvars, mvars, GoC, CPC
<1>1. CASE CCall(c)
  BY <1>1 DEF CCall
<1>2. CASE CLock(c)
  BY <1>2 DEF CLock, Lock
<1>3. CASE CEnqueue(c)
  <2>1. op[c] \in Job
    BY <1>3 DEF CEnqueue
  <2>2. CASE Len(jobs) < LOAD_BOUND - 1
    <3>1. /\ Append(jobs, op[c]) \in Seq(Job) /\ Len(Append(jobs, op[c])) = Len(jobs) + 1
          /\ Append(accepted, op[c]) \in Seq(Job)
      BY <2>1
    <3>2. jobs' = Append(jobs, op[c]) /\ accepted' = Append(accepted, op[c])
      BY <1>3, <2>2, Zenon DEF CEnqueue
    <3>3. jobs' \in Seq(Job) /\ Len(jobs') <= LOAD_BOUND - 1 /\ accepted' \in Seq(Job)
      BY <2>2, <3>1, <3>2
    <3> QED BY <1>3, <2>2, <3>3 DEF CEnqueue
  <2>3. CASE ~(Len(jobs) < LOAD_BOUND - 1)
    BY <1>3, <2>3 DEF CEnqueue
  <2> QED BY <2>2, <2>3
<1>4. CASE CUnlock(c)
  BY <1>4 DEF CUnlock, Unlock
<1>5. CASE CSignal(c)
  <2>1. wpc' \in [Worker -> WPC] /\ NotCreated'
    BY <1>5 DEF CSignal, Waiting, GoW, WPC
  <2> QED BY <1>5, <2>1 DEF CSignal
<1> QED BY <1>1, <1>2, <1>3, <1>4, <1>5 DEF CStep

(* Steps of main keep the types.                                           *)
LEMMA MainTypeInv ==
  ASSUME TypeInv, MStep \/ MDestroy
  PROVE  TypeInv'
<1> USE SizeAssumption DEF TypeInv, TypeOK, OpAssigned, NotCreated, wvars, cvars, MPC
<1>1. CASE MCreate
  BY <1>1 DEF MCreate, GoW, Worker, WPC
<1>2. CASE MCreateFails
  BY <1>2 DEF MCreateFails
<1>3. CASE MDestroy
  BY <1>3 DEF MDestroy
<1>4. CASE MLock
  BY <1>4 DEF MLock, Lock
<1>5. CASE MShutdown
  <2>1. wpc' \in [Worker -> WPC] /\ mark' \in Nat
    BY <1>5 DEF MShutdown, WPC
  <2> QED BY <1>5, <2>1 DEF MShutdown
<1>6. CASE MUnlock
  BY <1>6 DEF MUnlock, Unlock
<1>7. CASE MJoin
  BY <1>7 DEF MJoin
<1>8. CASE MFree
  BY <1>8 DEF MFree
<1> QED BY <1>1, <1>2, <1>3, <1>4, <1>5, <1>6, <1>7, <1>8 DEF MStep

LEMMA StutterTypeInv == ASSUME TypeInv, UNCHANGED vars PROVE TypeInv'
  BY DEF TypeInv, TypeOK, OpAssigned, NotCreated, vars, wvars, cvars, mvars

LEMMA StepTypeInv == TypeInv /\ [Next]_vars => TypeInv'
  BY WorkerTypeInv, CallerTypeInv, MainTypeInv, StutterTypeInv DEF Next, Ended

(* Every variable of the pool keeps its type, and operations[] its bound.  *)
THEOREM TypeCorrect == Safe => []TypeOK
<1>1. Safe => []TypeInv
  BY InitTypeInv, StepTypeInv, PTL DEF Safe
<1> QED BY <1>1, PTL DEF TypeInv

-----------------------------------------------------------------------------
LEMMA LockInit == Init => LockDiscipline
  BY ThreadAssumption DEF Init, LockDiscipline, HoldsLock

(* A thread that takes the free mutex becomes its only holder, one that    *)
(* leaves its section frees it, and the other steps stay outside.          *)
LEMMA LockStep == TypeInv /\ LockDiscipline /\ [Next]_vars => LockDiscipline'
<1> SUFFICES ASSUME TypeInv, LockDiscipline, [Next]_vars PROVE LockDiscipline'
  OBVIOUS
<1> USE ThreadAssumption DEF LockDiscipline, HoldsLock, TypeInv, TypeOK, Lock, Unlock, GoW, GoC
<1>1. ASSUME NEW w \in Worker, WStep(w) \/ WSpurious(w) PROVE LockDiscipline'
  <2>1. CASE WLock(w)
    BY <2>1 DEF WLock, cvars, mvars
  <2>2. CASE WTest(w)
    BY <2>2 DEF WTest, cvars, mvars
  <2>3. CASE WSpurious(w)
    BY <2>3 DEF WSpurious, cvars, mvars
  <2>4. CASE WWake(w)
    BY <2>4 DEF WWake, cvars, mvars
  <2>5. CASE WTake(w)
    BY <2>5 DEF WTake, cvars, mvars
  <2>6. CASE WUnlock(w)
    BY <2>6 DEF WUnlock, cvars, mvars
  <2>7. CASE WRun(w)
    BY <2>7 DEF WRun, cvars, mvars
  <2> QED BY <1>1, <2>1, <2>2, <2>3, <2>4, <2>5, <2>6, <2>7 DEF WStep
<1>2. ASSUME NEW c \in Caller, CCall(c) \/ CStep(c) PROVE LockDiscipline'
  <2>1. CASE CCall(c)
    BY <2>1 DEF CCall, wvars, mvars
  <2>2. CASE CLock(c)
    BY <2>2 DEF CLock, wvars, mvars
  <2>3. CASE CEnqueue(c)
    BY <2>3 DEF CEnqueue, wvars, mvars
  <2>4. CASE CUnlock(c)
    BY <2>4 DEF CUnlock, wvars, mvars
  <2>5. CASE CSignal(c)
    BY <2>5 DEF CSignal, Waiting, mvars
  <2> QED BY <1>2, <2>1, <2>2, <2>3, <2>4, <2>5 DEF CStep
<1>3. CASE MStep \/ MDestroy
  <2>1. CASE MCreate
    BY <2>1, SizeAssumption DEF MCreate, NotCreated, Worker, cvars
  <2>2. CASE MCreateFails \/ MDestroy \/ MJoin \/ MFree
    BY <2>2 DEF MCreateFails, MDestroy, MJoin, MFree, cvars, wvars
  <2>3. CASE MLock \/ MUnlock
    BY <2>3 DEF MLock, MUnlock, cvars, wvars
  <2>4. CASE MShutdown
    BY <2>4 DEF MShutdown, cvars
  <2> QED BY <1>3, <2>1, <2>2, <2>3, <2>4 DEF MStep
<1>4. CASE UNCHANGED vars
  BY <1>4 DEF vars, wvars, cvars, mvars
<1> QED BY <1>1, <1>2, <1>3, <1>4 DEF Next, Ended

(* The mutex protects: at any time at most one thread is inside a section  *)
(* that touches job_count, operations[] or shutdown, and it holds the      *)
(* mutex.                                                                  *)
THEOREM MutexProtects == Safe => []LockDiscipline
  BY InitTypeInv, StepTypeInv, LockInit, LockStep, PTL DEF Safe

-----------------------------------------------------------------------------
(* Both sets of threads that answer for a queued job are finite.           *)
LEMMA Sizes ==
  /\ IsFiniteSet(Awake) /\ Cardinality(Awake) \in Nat
  /\ IsFiniteSet(Pending) /\ Cardinality(Pending) \in Nat
<1>1. IsFiniteSet(Worker)
  BY SizeAssumption, FS_Interval DEF Worker
<1>2. Awake \in SUBSET Worker /\ Pending \in SUBSET Caller
  BY DEF Awake, Pending
<1>3. IsFiniteSet(Awake) /\ IsFiniteSet(Pending)
  BY <1>1, <1>2, FS_Subset, ThreadAssumption
<1> QED BY <1>3, FS_CardinalityType

LEMMA SizesNext ==
  /\ IsFiniteSet(Awake') /\ Cardinality(Awake') \in Nat
  /\ IsFiniteSet(Pending') /\ Cardinality(Pending') \in Nat
<1>1. IsFiniteSet(Worker)
  BY SizeAssumption, FS_Interval DEF Worker
<1>2. Awake' \in SUBSET Worker /\ Pending' \in SUBSET Caller
  BY DEF Awake, Pending
<1>3. IsFiniteSet(Awake') /\ IsFiniteSet(Pending')
  BY <1>1, <1>2, FS_Subset, ThreadAssumption
<1> QED BY <1>3, FS_CardinalityType

(* When no thread that answers for a job disappears and the queue does not *)
(* grow, the number of answering threads stays sufficient.                 *)
LEMMA KeepsAnswering ==
  ASSUME TypeInv, NoLostWakeup, TypeInv',
         Len(jobs') <= Len(jobs), Waiting' # {} => Waiting # {},
         Awake \subseteq Awake', Pending \subseteq Pending'
  PROVE  Waiting' # {} => Len(jobs') <= Cardinality(Awake') + Cardinality(Pending')
<1>1. Cardinality(Awake) <= Cardinality(Awake') /\ Cardinality(Pending) <= Cardinality(Pending')
  BY SizesNext, FS_Subset
<1>2. Len(jobs) \in Nat /\ Len(jobs') \in Nat
  BY DEF TypeInv, TypeOK
<1> QED BY <1>1, <1>2, Sizes, SizesNext DEF NoLostWakeup

LEMMA WorkerWakeup ==
  ASSUME TypeInv, NoLostWakeup, TypeInv', NEW w \in Worker, WStep(w) \/ WSpurious(w)
  PROVE  NoLostWakeup'
<1> USE DEF Waiting, Awake, Pending, GoW
<1>0. wpc \in [Worker -> WPC] /\ jobs \in Seq(Job) /\ jobs' \in Seq(Job)
  BY DEF TypeInv, TypeOK
<1>1. CASE WLock(w) \/ WWake(w) \/ WRun(w) \/ WUnlock(w) \/ WSpurious(w)
  <2>1. /\ jobs' = jobs /\ shutdown' = shutdown /\ Waiting' \subseteq Waiting
        /\ Awake \subseteq Awake' /\ Pending \subseteq Pending'
    BY <1>0, <1>1 DEF WLock, WWake, WRun, WUnlock, WSpurious, cvars, mvars
  <2>2. Len(jobs') <= Len(jobs)
    BY <2>1, <1>0
  <2> HIDE DEF Waiting, Awake, Pending
  <2> QED BY <2>1, <2>2, KeepsAnswering DEF NoLostWakeup
<1>2. CASE WTest(w)
  <2>1. CASE jobs = <<>> /\ ~shutdown
    <3>1. Len(jobs') = 0 /\ ~shutdown'
      BY <1>2, <2>1 DEF WTest, mvars
    <3> QED BY <3>1, SizesNext DEF NoLostWakeup
  <2>2. CASE ~(jobs = <<>> /\ ~shutdown)
    <3>1. /\ jobs' = jobs /\ shutdown' = shutdown /\ Waiting' \subseteq Waiting
          /\ Awake \subseteq Awake' /\ Pending \subseteq Pending'
      BY <1>0, <1>2, <2>2 DEF WTest, cvars, mvars
    <3>2. Len(jobs') <= Len(jobs)
      BY <3>1, <1>0
    <3> HIDE DEF Waiting, Awake, Pending
    <3> QED BY <3>1, <3>2, KeepsAnswering DEF NoLostWakeup
  <2> QED BY <2>1, <2>2
<1>3. CASE WTake(w)
  <2>1. shutdown' = shutdown /\ Waiting' \subseteq Waiting /\ Pending' = Pending
    BY <1>0, <1>3 DEF WTake, cvars, mvars
  <2>2. CASE jobs # <<>>
    <3>1. jobs' = Tail(jobs)
      BY <1>3, <2>2, Zenon DEF WTake
    <3>2. Len(jobs') = Len(jobs) - 1 /\ Len(jobs) \in Nat
      BY <1>0, <2>2, <3>1, TailQueue
    <3>3. w \in Awake /\ Awake' = Awake \ {w}
      BY <1>0, <1>3, <2>2 DEF WTake
    <3>4. Cardinality(Awake') = Cardinality(Awake) - 1
      BY <3>3, Sizes, FS_RemoveElement
    <3> HIDE DEF Waiting, Awake, Pending
    <3> QED BY <2>1, <3>2, <3>4, Sizes DEF NoLostWakeup
  <2>3. CASE jobs = <<>>
    <3>1. Len(jobs') = 0
      BY <1>3, <2>3 DEF WTake
    <3> HIDE DEF Waiting, Awake, Pending
    <3> QED BY <2>1, <3>1, SizesNext DEF NoLostWakeup
  <2> QED BY <2>2, <2>3
<1> QED BY <1>1, <1>2, <1>3 DEF WStep

LEMMA CallerWakeup ==
  ASSUME TypeInv, NoLostWakeup, TypeInv', NEW c \in Caller, CCall(c) \/ CStep(c)
  PROVE  NoLostWakeup'
<1> USE DEF Waiting, Awake, Pending, GoC
<1>0. /\ cpc \in [Caller -> CPC] /\ wpc \in [Worker -> WPC]
      /\ jobs \in Seq(Job) /\ jobs' \in Seq(Job)
  BY DEF TypeInv, TypeOK
<1>1. CASE CCall(c) \/ CLock(c) \/ CUnlock(c)
  <2>1. /\ jobs' = jobs /\ shutdown' = shutdown /\ Waiting' \subseteq Waiting
        /\ Awake \subseteq Awake' /\ Pending \subseteq Pending'
    BY <1>0, <1>1 DEF CCall, CLock, CUnlock, wvars, mvars
  <2>2. Len(jobs') <= Len(jobs)
    BY <2>1, <1>0
  <2> HIDE DEF Waiting, Awake, Pending
  <2> QED BY <2>1, <2>2, KeepsAnswering DEF NoLostWakeup
<1>2. CASE CEnqueue(c)
  <2>1. shutdown' = shutdown /\ Waiting' = Waiting /\ Awake' = Awake
    BY <1>2 DEF CEnqueue, wvars, mvars
  <2>2. c \notin Pending /\ Pending' = Pending \cup {c}
    BY <1>0, <1>2 DEF CEnqueue
  <2>3. Cardinality(Pending') = Cardinality(Pending) + 1
    BY <2>2, Sizes, FS_AddElement
  <2>4. jobs' = jobs \/ \E j \in Job : jobs' = Append(jobs, j)
    BY <1>2 DEF CEnqueue, TypeInv, OpAssigned
  <2>5. Len(jobs') <= Len(jobs) + 1 /\ Len(jobs) \in Nat /\ Len(jobs') \in Nat
    BY <1>0, <2>4
  <2> HIDE DEF Waiting, Awake, Pending
  <2> QED BY <2>1, <2>3, <2>5, Sizes DEF NoLostWakeup
<1>3. CASE CSignal(c)
  <2>0. jobs' = jobs /\ shutdown' = shutdown /\ Len(jobs) \in Nat
    BY <1>0, <1>3 DEF CSignal, mvars
  <2>1. CASE Waiting = {}
    <3>1. Waiting' = {}
      BY <1>3, <2>1 DEF CSignal
    <3> HIDE DEF Waiting, Awake, Pending
    <3> QED BY <3>1 DEF NoLostWakeup
  <2>2. CASE Waiting # {}
    <3>1. PICK w \in Waiting : wpc' = [wpc EXCEPT ![w] = "wake"]
      BY <1>3, <2>2 DEF CSignal, GoW
    <3>2. w \notin Awake /\ Awake' = Awake \cup {w} /\ Waiting' \subseteq Waiting
      BY <1>0, <3>1
    <3>3. c \in Pending /\ Pending' = Pending \ {c}
      BY <1>0, <1>3 DEF CSignal
    <3> HIDE DEF Waiting, Awake, Pending
    <3>4. Cardinality(Awake') = Cardinality(Awake) + 1
      BY <3>2, Sizes, FS_AddElement
    <3>5. Cardinality(Pending') = Cardinality(Pending) - 1
      BY <3>3, Sizes, FS_RemoveElement
    <3> QED BY <2>0, <3>2, <3>4, <3>5, Sizes DEF NoLostWakeup
  <2> QED BY <2>1, <2>2
<1> QED BY <1>1, <1>2, <1>3 DEF CStep

LEMMA MainWakeup ==
  ASSUME TypeInv, NoLostWakeup, TypeInv', MStep \/ MDestroy \/ UNCHANGED vars
  PROVE  NoLostWakeup'
<1> USE DEF Waiting, Awake, Pending
<1>0. wpc \in [Worker -> WPC] /\ jobs \in Seq(Job) /\ k \in 0 .. num_threads - 1
  BY DEF TypeInv, TypeOK
<1>1. CASE MShutdown
  <2>1. Waiting' = {}
    BY <1>1 DEF MShutdown
  <2> HIDE DEF Waiting, Awake, Pending
  <2> QED BY <2>1 DEF NoLostWakeup
<1>2. CASE ~MShutdown
  <2>1. /\ jobs' = jobs /\ shutdown' = shutdown /\ Waiting' \subseteq Waiting
        /\ Awake \subseteq Awake' /\ Pending \subseteq Pending'
    <3>1. CASE MCreate
      BY <1>0, <3>1 DEF MCreate, GoW, cvars
    <3>2. CASE ~MCreate
      BY <1>2, <3>2 DEF MStep, MCreateFails, MDestroy, MLock, MUnlock, MJoin, MFree,
                        wvars, cvars, mvars, vars
    <3> QED BY <3>1, <3>2
  <2>2. Len(jobs') <= Len(jobs)
    BY <2>1, <1>0
  <2> HIDE DEF Waiting, Awake, Pending
  <2> QED BY <2>1, <2>2, KeepsAnswering DEF NoLostWakeup
<1> QED BY <1>1, <1>2

LEMMA WakeupStep == TypeInv /\ TypeInv' /\ NoLostWakeup /\ [Next]_vars => NoLostWakeup'
  BY WorkerWakeup, CallerWakeup, MainWakeup DEF Next, Ended

LEMMA WakeupInit == Init => NoLostWakeup
<1> SUFFICES ASSUME Init PROVE NoLostWakeup
  OBVIOUS
<1>1. Waiting = {} /\ shutdown = FALSE
  BY DEF Init, Waiting
<1> QED BY <1>1 DEF NoLostWakeup

(* Signalling after the mutex is released loses no wakeup, for any number  *)
(* of workers and callers: while a worker sleeps, every queued job has a   *)
(* thread that will still look at the queue or signal; and nobody sleeps   *)
(* after shutdown.                                                         *)
THEOREM WakeupsSuffice == Safe => []NoLostWakeup
  BY InitTypeInv, StepTypeInv, WakeupInit, WakeupStep, PTL DEF Safe

-----------------------------------------------------------------------------
(* A worker past the wait loop found a job or the end: nobody can have     *)
(* emptied the queue since, the worker holds the mutex.                    *)
TakeReady == \A w \in Worker : wpc[w] = "take" => jobs # <<>> \/ shutdown = TRUE

(* Every job is in one place before it is accepted: not offered, or the    *)
(* argument of one call; and it is accepted at most once.                  *)
Offering == {c \in Caller : cpc[c] \in {"lock", "put"}}
OfferedOnce ==
  /\ \A i, j \in 1 .. Len(accepted) : accepted[i] = accepted[j] => i = j
  /\ \A j \in todo : j \notin Range(accepted)
  /\ \A c \in Offering : op[c] \notin todo /\ op[c] \notin Range(accepted)
  /\ \A c, d \in Offering : op[c] = op[d] => c = d

OrderInv == TakeReady /\ OfferedOnce /\ JobsInOrder

(* Where main is decides whether shutdown is set and which workers it has  *)
(* joined; a worker that left had nothing to take.                         *)
Stopping ==
  /\ shutdown = TRUE <=> mpc \in {"dunlock", "join", "free", "over"}
  /\ mpc \in {"serve", "dlock", "shut", "dunlock"} => k = 0
  /\ mpc = "join" => \A w \in 1 .. k : wpc[w] = "done"
  /\ mpc \in {"free", "over"} => \A w \in Worker : wpc[w] = "done"
  /\ mark <= Len(accepted)
  /\ \A w \in Worker : wpc[w] = "done" => shutdown = TRUE /\ Len(taken) >= mark

(* What a sequence contains after an element joined it.                    *)
LEMMA RangeAppend ==
  ASSUME NEW S, NEW q \in Seq(S), NEW e \in S
  PROVE  Range(Append(q, e)) = Range(q) \cup {e}
<1>1. /\ Append(q, e) \in Seq(S) /\ Len(Append(q, e)) = Len(q) + 1 /\ Len(q) \in Nat
      /\ \A i \in 1 .. Len(q) : Append(q, e)[i] = q[i]
      /\ Append(q, e)[Len(q) + 1] = e
  BY AppendProperties, LenProperties
<1>2. DOMAIN Append(q, e) = 1 .. Len(q) + 1 /\ DOMAIN q = 1 .. Len(q)
  BY <1>1, LenProperties
<1>3. 1 .. Len(q) + 1 = (1 .. Len(q)) \cup {Len(q) + 1}
  BY <1>1
<1> QED BY <1>1, <1>2, <1>3 DEF Range

(* Moving the head of one sequence to the end of the other leaves their    *)
(* concatenation as it was.                                                *)
LEMMA MoveHead ==
  ASSUME NEW S, NEW t \in Seq(S), NEW q \in Seq(S), q # <<>>
  PROVE  Append(t, Head(q)) \o Tail(q) = t \o q
<1>1. Head(q) \in S /\ Tail(q) \in Seq(S) /\ <<Head(q)>> \in Seq(S)
  BY HeadTailProperties
<1>2. Append(t, Head(q)) = t \o <<Head(q)>>
  BY <1>1, AppendIsConcat
<1>3. <<Head(q)>> \o Tail(q) = q
  <2>1. /\ Len(Tail(q)) = Len(q) - 1 /\ Len(q) \in Nat /\ Len(q) > 0 /\ Head(q) = q[1]
        /\ \A i \in 1 .. Len(Tail(q)) : Tail(q)[i] = q[i + 1]
    BY HeadTailProperties, LenProperties, EmptySeq
  <2>2. Len(<<Head(q)>>) = 1 /\ <<Head(q)>>[1] = Head(q)
    OBVIOUS
  <2> DEFINE r == <<Head(q)>> \o Tail(q)
  <2>3. /\ r \in Seq(S) /\ Len(r) = 1 + Len(Tail(q))
        /\ \A i \in 1 .. 1 + Len(Tail(q)) : r[i] = IF i <= 1 THEN <<Head(q)>>[i] ELSE Tail(q)[i - 1]
    BY <1>1, <2>2, ConcatProperties
  <2> HIDE DEF r
  <2>4. Len(r) = Len(q)
    BY <2>1, <2>3
  <2>5. ASSUME NEW i \in 1 .. Len(r) PROVE r[i] = q[i]
    <3>1. CASE i = 1
      BY <2>1, <2>2, <2>3, <3>1
    <3>2. CASE i # 1
      <4>1. i - 1 \in 1 .. Len(Tail(q)) /\ ~(i <= 1) /\ i \in 1 .. 1 + Len(Tail(q))
        BY <2>1, <2>3, <3>2
      <4>2. r[i] = Tail(q)[i - 1] /\ Tail(q)[i - 1] = q[(i - 1) + 1]
        BY <2>1, <2>3, <4>1
      <4>3. (i - 1) + 1 = i
        OBVIOUS
      <4> QED BY <4>2, <4>3
    <3> QED BY <3>1, <3>2
  <2>6. r = q
    BY <2>3, <2>4, <2>5, SeqEqual
  <2> QED BY <2>6 DEF r
<1> QED BY <1>1, <1>2, <1>3, ConcatAssociative

LEMMA ConcatAppend ==
  ASSUME NEW S, NEW t \in Seq(S), NEW q \in Seq(S), NEW e \in S
  PROVE  t \o Append(q, e) = Append(t \o q, e)
<1>1. <<e>> \in Seq(S) /\ t \o q \in Seq(S)
  BY ConcatProperties
<1>2. Append(q, e) = q \o <<e>> /\ Append(t \o q, e) = (t \o q) \o <<e>>
  BY <1>1, AppendIsConcat
<1> QED BY <1>1, <1>2, ConcatAssociative

(* The oldest queued job was never taken: jobs are accepted once.          *)
LEMMA HeadIsNew ==
  ASSUME TypeInv, OrderInv, jobs # <<>>
  PROVE  Head(jobs) \notin Range(taken) /\ Head(jobs) \in Job
<1>1. taken \in Seq(Job) /\ jobs \in Seq(Job) /\ accepted = taken \o jobs
  BY DEF TypeInv, TypeOK, OrderInv, JobsInOrder
<1>2. Len(taken) \in Nat /\ Len(jobs) \in Nat \ {0} /\ DOMAIN taken = 1 .. Len(taken)
  BY <1>1, EmptySeq, LenProperties
<1>3. /\ Len(accepted) = Len(taken) + Len(jobs)
      /\ \A i \in 1 .. Len(taken) + Len(jobs) :
           accepted[i] = IF i <= Len(taken) THEN taken[i] ELSE jobs[i - Len(taken)]
  BY <1>1, ConcatProperties
<1>4. accepted[Len(taken) + 1] = Head(jobs)
  BY <1>1, <1>2, <1>3
<1>5. ASSUME NEW i \in 1 .. Len(taken) PROVE taken[i] # Head(jobs)
  <2>1. accepted[i] = taken[i] /\ i # Len(taken) + 1 /\ i \in 1 .. Len(accepted)
        /\ Len(taken) + 1 \in 1 .. Len(accepted)
    BY <1>2, <1>3, <1>5
  <2> QED BY <1>4, <2>1 DEF OrderInv, OfferedOnce
<1> QED BY <1>1, <1>2, <1>5, HeadTailProperties DEF Range

LEMMA OrderInit == Init => OrderInv
<1> SUFFICES ASSUME Init PROVE OrderInv
  OBVIOUS
<1>1. TakeReady /\ Offering = {} /\ Running = {}
  BY DEF Init, TakeReady, Offering, Running
<1>2. accepted = <<>> /\ taken = <<>> /\ jobs = <<>> /\ handled = {}
  BY DEF Init
<1>3. Range(<<>>) = {} /\ Len(<<>>) = 0 /\ <<>> = <<>> \o <<>>
  BY DEF Range
<1>4. OfferedOnce
  BY <1>1, <1>2, <1>3 DEF OfferedOnce
<1>5. JobsInOrder
  BY <1>1, <1>2, <1>3 DEF JobsInOrder
<1> QED BY <1>1, <1>4, <1>5 DEF OrderInv

(* A step that moves no job and after which the same workers hold theirs.  *)
LEMMA NothingMoves ==
  ASSUME OrderInv, UNCHANGED <<accepted, taken, jobs, handled, job, op, todo>>,
         Running' = Running, Offering' \subseteq Offering
  PROVE  OfferedOnce' /\ JobsInOrder'
<1>1. OfferedOnce'
  BY DEF OrderInv, OfferedOnce, Range
<1>2. JobsInOrder'
  BY DEF OrderInv, JobsInOrder, Range
<1> QED BY <1>1, <1>2

LEMMA TakeOrder ==
  ASSUME TypeInv, LockDiscipline, OrderInv, NEW w \in Worker, WTake(w)
  PROVE  OrderInv'
<1>0. /\ wpc \in [Worker -> WPC] /\ job \in [Worker -> Job \cup {NoJob}] /\ wpc[w] = "take"
      /\ taken \in Seq(Job) /\ jobs \in Seq(Job)
  BY DEF TypeInv, TypeOK, WTake
<1>1. \A v \in Worker : v # w => wpc[v] # "take"
  BY <1>0 DEF LockDiscipline, HoldsLock
<1>2. TakeReady'
  BY <1>0, <1>1 DEF TakeReady, WTake, GoW
<1>3. UNCHANGED <<accepted, op, todo, cpc, handled>>
  BY DEF WTake, cvars
<1>4. OfferedOnce'
  BY <1>3 DEF OrderInv, OfferedOnce, Offering, Range
<1>5. CASE jobs # <<>>
  <2>1. /\ job' = [job EXCEPT ![w] = Head(jobs)] /\ taken' = Append(taken, Head(jobs))
        /\ jobs' = Tail(jobs) /\ wpc' = [wpc EXCEPT ![w] = "unlock"]
    BY <1>5, Zenon DEF WTake, GoW
  <2>2. Head(jobs) \notin Range(taken) /\ Head(jobs) \in Job
    BY <1>5, HeadIsNew
  <2>3. accepted' = taken' \o jobs'
    BY <1>0, <1>3, <1>5, <2>1, MoveHead DEF OrderInv, JobsInOrder
  <2>4. Range(taken') = Range(taken) \cup {Head(jobs)}
    BY <1>0, <2>1, <2>2, RangeAppend
  <2>5. w \notin Running /\ Running' = Running \cup {w}
    BY <1>0, <2>1 DEF Running
  <2>6. job'[w] = Head(jobs) /\ \A v \in Running : job'[v] = job[v]
    BY <1>0, <2>1, <2>5 DEF Running
  <2>7. /\ Range(taken) = handled \cup {job[v] : v \in Running}
        /\ \A v \in Running : job[v] \notin handled /\ \A u \in Running : job[u] = job[v] => u = v
    BY DEF OrderInv, JobsInOrder
  <2>8. Range(taken') = handled' \cup {job'[v] : v \in Running'}
    BY <1>3, <2>4, <2>5, <2>6, <2>7
  <2>9. \A v \in Running' : job'[v] \notin handled'
    BY <1>3, <2>2, <2>5, <2>6, <2>7
  <2>10. \A v, u \in Running' : job'[u] = job'[v] => u = v
    BY <2>2, <2>5, <2>6, <2>7
  <2>11. JobsInOrder'
    BY <2>3, <2>8, <2>9, <2>10 DEF JobsInOrder
  <2> QED BY <1>2, <1>4, <2>11 DEF OrderInv
<1>6. CASE jobs = <<>>
  <2>1. wpc' = [wpc EXCEPT ![w] = "done"] /\ UNCHANGED <<job, taken, jobs>>
    BY <1>0, <1>6 DEF WTake, GoW, OrderInv, TakeReady
  <2>2. Running' = Running
    BY <1>0, <2>1 DEF Running
  <2>3. JobsInOrder'
    BY <1>3, <2>1, <2>2 DEF OrderInv, JobsInOrder, Range
  <2> QED BY <1>2, <1>4, <2>3 DEF OrderInv
<1> QED BY <1>5, <1>6

LEMMA WorkerOrder ==
  ASSUME TypeInv, LockDiscipline, OrderInv, NEW w \in Worker, WStep(w) \/ WSpurious(w)
  PROVE  OrderInv'
<1>0. wpc \in [Worker -> WPC] /\ job \in [Worker -> Job \cup {NoJob}]
  BY DEF TypeInv, TypeOK
<1>1. CASE WLock(w) \/ WTest(w) \/ WSpurious(w) \/ WWake(w) \/ WUnlock(w)
  <2>1. UNCHANGED <<accepted, taken, jobs, handled, job, op, todo, cpc, shutdown>>
    BY <1>1 DEF WLock, WTest, WSpurious, WWake, WUnlock, cvars, mvars
  <2>2. Running' = Running
    BY <1>0, <1>1 DEF WLock, WTest, WSpurious, WWake, WUnlock, GoW, Running
  <2>3. TakeReady'
    BY <1>0, <1>1, <2>1 DEF WLock, WTest, WSpurious, WWake, WUnlock, GoW, OrderInv, TakeReady,
                            TypeInv, TypeOK
  <2>4. Offering' = Offering
    BY <2>1 DEF Offering
  <2> QED BY <2>1, <2>2, <2>3, <2>4, NothingMoves DEF OrderInv
<1>2. CASE WTake(w)
  BY <1>2, TakeOrder
<1>3. CASE WRun(w)
  <2>1. UNCHANGED <<accepted, taken, jobs, op, todo, cpc, shutdown>>
    BY <1>3 DEF WRun, cvars, mvars
  <2>2. /\ wpc' = [wpc EXCEPT ![w] = "lock"] /\ job' = [job EXCEPT ![w] = NoJob]
        /\ handled' = handled \cup {job[w]} /\ wpc[w] = "run"
    BY <1>3 DEF WRun, GoW
  <2>3. /\ w \in Running /\ Running' = Running \ {w}
        /\ \A v \in Running' : job'[v] = job[v]
    BY <1>0, <2>2 DEF Running
  <2>4. TakeReady'
    BY <1>0, <2>1, <2>2 DEF OrderInv, TakeReady
  <2>5. OfferedOnce'
    BY <2>1 DEF OrderInv, OfferedOnce, Offering, Range
  <2>6. /\ Range(taken) = handled \cup {job[v] : v \in Running}
        /\ \A v \in Running : job[v] \notin handled /\ \A u \in Running : job[u] = job[v] => u = v
    BY DEF OrderInv, JobsInOrder
  <2>7. Range(taken') = handled' \cup {job'[v] : v \in Running'}
    BY <2>1, <2>2, <2>3, <2>6
  <2>8. \A v \in Running' : job'[v] \notin handled' /\ \A u \in Running' : job'[u] = job'[v] => u = v
    BY <2>2, <2>3, <2>6
  <2>9. JobsInOrder'
    BY <2>1, <2>7, <2>8 DEF OrderInv, JobsInOrder
  <2> QED BY <2>4, <2>5, <2>9 DEF OrderInv
<1> QED BY <1>1, <1>2, <1>3 DEF WStep

LEMMA CallerOrder ==
  ASSUME TypeInv, LockDiscipline, OrderInv, NEW c \in Caller, CCall(c) \/ CStep(c)
  PROVE  OrderInv'
<1>0. /\ cpc \in [Caller -> CPC] /\ op \in [Caller -> Job \cup {NoJob}] /\ wpc \in [Worker -> WPC]
      /\ accepted \in Seq(Job) /\ taken \in Seq(Job) /\ jobs \in Seq(Job)
  BY DEF TypeInv, TypeOK
<1>1. CASE CCall(c)
  <2>1. UNCHANGED <<accepted, taken, jobs, handled, job, wpc, shutdown>>
    BY <1>1 DEF CCall, wvars, mvars
  <2>2. PICK j \in todo : op' = [op EXCEPT ![c] = j] /\ todo' = todo \ {j}
    BY <1>1 DEF CCall
  <2>3. cpc' = [cpc EXCEPT ![c] = "lock"] /\ cpc[c] = "idle"
    BY <1>1 DEF CCall, GoC
  <2>4. /\ c \notin Offering /\ Offering' = Offering \cup {c} /\ op'[c] = j
        /\ \A d \in Offering : op'[d] = op[d]
    BY <1>0, <2>2, <2>3 DEF Offering
  <2>5. OfferedOnce'
    <3>1. \A d, e \in Offering' : op'[d] = op'[e] => d = e
      BY <2>2, <2>4 DEF OrderInv, OfferedOnce
    <3>2. \A d \in Offering' : op'[d] \notin todo' /\ op'[d] \notin Range(accepted)
      BY <2>2, <2>4 DEF OrderInv, OfferedOnce
    <3>3. \A i \in todo' : i \notin Range(accepted)
      BY <2>2 DEF OrderInv, OfferedOnce
    <3> QED BY <2>1, <3>1, <3>2, <3>3 DEF OrderInv, OfferedOnce
  <2>6. TakeReady' /\ JobsInOrder'
    BY <2>1 DEF OrderInv, TakeReady, JobsInOrder, Running, Range
  <2> QED BY <2>5, <2>6 DEF OrderInv
<1>2. CASE CLock(c) \/ CUnlock(c) \/ CSignal(c)
  <2>1. UNCHANGED <<accepted, taken, jobs, handled, job, op, todo, shutdown>>
    BY <1>2 DEF CLock, CUnlock, CSignal, wvars, mvars
  <2>2. Offering' \subseteq Offering
    BY <1>0, <1>2 DEF CLock, CUnlock, CSignal, GoC, Offering
  <2>3. Running' = Running /\ TakeReady'
    <3>1. CASE wpc' = wpc
      BY <2>1, <3>1 DEF Running, OrderInv, TakeReady
    <3>2. CASE \E w \in Waiting : wpc' = [wpc EXCEPT ![w] = "wake"]
      BY <1>0, <2>1, <3>2 DEF Running, Waiting, OrderInv, TakeReady
    <3> QED BY <1>2, <3>1, <3>2 DEF CLock, CUnlock, CSignal, wvars, GoW
  <2> QED BY <2>1, <2>2, <2>3, NothingMoves DEF OrderInv
<1>3. CASE CEnqueue(c)
  <2>1. /\ UNCHANGED <<taken, handled, job, wpc, op, todo, shutdown>>
        /\ cpc[c] = "put" /\ cpc' = [cpc EXCEPT ![c] = "unlock"]
    BY <1>3 DEF CEnqueue, wvars, mvars, GoC
  <2>2. c \in Offering /\ Offering' = Offering \ {c}
    BY <1>0, <2>1 DEF Offering
  <2>3. CASE UNCHANGED <<jobs, accepted>>
    <3>1. Running' = Running /\ TakeReady'
      BY <2>1, <2>3 DEF Running, OrderInv, TakeReady
    <3> QED BY <2>1, <2>2, <2>3, <3>1, NothingMoves DEF OrderInv
  <2>4. CASE jobs' = Append(jobs, op[c]) /\ accepted' = Append(accepted, op[c])
    <3>1. op[c] \in Job /\ op[c] \notin todo /\ op[c] \notin Range(accepted)
      BY <2>1, <2>2 DEF TypeInv, OpAssigned, OrderInv, OfferedOnce
    <3>2. Range(accepted') = Range(accepted) \cup {op[c]}
      BY <1>0, <2>4, <3>1, RangeAppend
    <3>3. /\ Len(accepted') = Len(accepted) + 1 /\ Len(accepted) \in Nat
          /\ \A i \in 1 .. Len(accepted) : accepted'[i] = accepted[i]
          /\ accepted'[Len(accepted) + 1] = op[c] /\ DOMAIN accepted = 1 .. Len(accepted)
      BY <1>0, <2>4, <3>1, AppendProperties, LenProperties
    <3>4. \A i, j \in 1 .. Len(accepted') : accepted'[i] = accepted'[j] => i = j
      <4>1. \A i \in 1 .. Len(accepted) : accepted[i] # op[c]
        BY <3>1, <3>3 DEF Range
      <4>2. \A i \in 1 .. Len(accepted') : i \in 1 .. Len(accepted) \/ i = Len(accepted) + 1
        BY <3>3
      <4> QED BY <3>3, <4>1, <4>2 DEF OrderInv, OfferedOnce
    <3>5. OfferedOnce'
      BY <2>1, <2>2, <3>1, <3>2, <3>4 DEF OrderInv, OfferedOnce
    <3>6. TakeReady'
      <4>1. jobs' # <<>>
        BY <1>0, <2>4, <3>1, AppendProperties
      <4> QED BY <4>1 DEF TakeReady
    <3>7. accepted' = taken' \o jobs'
      <4>1. taken \o Append(jobs, op[c]) = Append(taken \o jobs, op[c])
        BY <1>0, <3>1, ConcatAppend
      <4>2. accepted = taken \o jobs
        BY DEF OrderInv, JobsInOrder
      <4> QED BY <2>1, <2>4, <4>1, <4>2, Zenon
    <3>8. JobsInOrder'
      <4>1. Running' = Running /\ taken' = taken /\ handled' = handled /\ job' = job
        BY <2>1 DEF Running
      <4>2. /\ Range(taken) = handled \cup {job[v] : v \in Running}
            /\ \A v \in Running : job[v] \notin handled /\ \A u \in Running : job[u] = job[v] => u = v
        BY DEF OrderInv, JobsInOrder
      <4> QED BY <3>7, <4>1, <4>2, Zenon DEF JobsInOrder
    <3> QED BY <3>5, <3>6, <3>8 DEF OrderInv
  <2> QED BY <1>3, <2>3, <2>4 DEF CEnqueue
<1> QED BY <1>1, <1>2, <1>3 DEF CStep

LEMMA MainOrder ==
  ASSUME TypeInv, LockDiscipline, OrderInv, MStep \/ MDestroy \/ UNCHANGED vars
  PROVE  OrderInv'
<1>0. wpc \in [Worker -> WPC] /\ k \in 0 .. num_threads - 1 /\ shutdown \in BOOLEAN
  BY DEF TypeInv, TypeOK
<1>1. UNCHANGED <<accepted, taken, jobs, handled, job, op, todo, cpc>>
  BY DEF MStep, MCreate, MCreateFails, MDestroy, MLock, MShutdown, MUnlock, MJoin, MFree,
         wvars, cvars, mvars, vars
<1>2. Offering' = Offering
  BY <1>1 DEF Offering
<1>3. Running' = Running /\ TakeReady'
  <2>1. CASE MCreate
    <3>1. k + 1 \in Worker /\ wpc[k + 1] = "none" /\ wpc' = [wpc EXCEPT ![k + 1] = "lock"]
      BY <1>0, <2>1, SizeAssumption DEF MCreate, GoW, TypeInv, NotCreated, Worker
    <3>2. shutdown' = shutdown
      BY <2>1 DEF MCreate
    <3> QED BY <1>0, <1>1, <3>1, <3>2 DEF Running, OrderInv, TakeReady
  <2>2. CASE MShutdown
    BY <1>0, <1>1, <2>2 DEF MShutdown, Running, OrderInv, TakeReady
  <2>3. CASE wpc' = wpc /\ shutdown' = shutdown
    BY <1>1, <2>3 DEF Running, OrderInv, TakeReady
  <2> QED BY <2>1, <2>2, <2>3 DEF MStep, MCreateFails, MDestroy, MLock, MUnlock, MJoin, MFree,
                                  wvars, mvars, vars
<1> QED BY <1>1, <1>2, <1>3, NothingMoves DEF OrderInv

LEMMA OrderStep == TypeInv /\ LockDiscipline /\ OrderInv /\ [Next]_vars => OrderInv'
  BY WorkerOrder, CallerOrder, MainOrder DEF Next, Ended

(* The pool loses, duplicates and reorders no job and hands no worker a    *)
(* job it did not take, for any number of threads and spurious wakeups;    *)
(* the array is a sequence here, and its shift the tail of it.             *)
THEOREM OrderKept == Safe => []JobsInOrder
<1>1. Safe => []OrderInv
  BY InitTypeInv, StepTypeInv, LockInit, LockStep, OrderInit, OrderStep, PTL DEF Safe
<1>2. OrderInv => JobsInOrder
  BY DEF OrderInv
<1> QED BY <1>1, <1>2, PTL

-----------------------------------------------------------------------------
LEMMA StopInit == Init => Stopping
<1> SUFFICES ASSUME Init PROVE Stopping
  OBVIOUS
<1>1. Len(accepted) = 0 /\ mark = 0
  BY DEF Init
<1> QED BY <1>1 DEF Init, Stopping

LEMMA WorkerStop ==
  ASSUME TypeInv, OrderInv, Stopping, NEW w \in Worker, WStep(w) \/ WSpurious(w)
  PROVE  Stopping'
<1>0. /\ wpc \in [Worker -> WPC] /\ taken \in Seq(Job) /\ jobs \in Seq(Job)
      /\ Len(taken) \in Nat /\ mark \in Nat /\ k \in 0 .. num_threads - 1
  BY DEF TypeInv, TypeOK
<1>1. UNCHANGED <<mpc, k, shutdown, mark, accepted>>
  BY DEF WStep, WLock, WTest, WSpurious, WWake, WTake, WUnlock, WRun, cvars, mvars
<1>2. wpc[w] # "done" /\ \A v \in Worker : v # w => wpc'[v] = wpc[v]
  BY <1>0 DEF WStep, WLock, WTest, WSpurious, WWake, WTake, WUnlock, WRun, GoW
<1>3. Len(taken') >= Len(taken) /\ Len(taken') \in Nat
  <2>1. CASE taken' = taken
    BY <1>0, <2>1
  <2>2. CASE WTake(w) /\ jobs # <<>>
    <3>1. taken' = Append(taken, Head(jobs)) /\ Head(jobs) \in Job
      <4>1. Head(jobs) \in Job
        BY <1>0, <2>2, TailQueue
      <4> QED BY <2>2, <4>1, Zenon DEF WTake
    <3> QED BY <1>0, <3>1, AppendProperties
  <2> QED BY <2>1, <2>2 DEF WStep, WLock, WTest, WSpurious, WWake, WTake, WUnlock, WRun
<1>4. wpc'[w] = "done" => shutdown = TRUE /\ Len(taken') >= mark
  <2> SUFFICES ASSUME wpc'[w] = "done" PROVE shutdown = TRUE /\ Len(taken') >= mark
    OBVIOUS
  <2>1. jobs = <<>> /\ shutdown = TRUE /\ taken' = taken
    BY <1>0 DEF WStep, WLock, WTest, WSpurious, WWake, WTake, WUnlock, WRun, GoW, TypeInv, TypeOK
  <2>2. accepted = taken
    BY <1>0, <2>1, ConcatEmptySeq DEF OrderInv, JobsInOrder
  <2> QED BY <1>0, <2>1, <2>2 DEF Stopping
<1>5. 1 .. k \subseteq Worker
  BY <1>0, SizeAssumption DEF Worker
<1>6. \A v \in Worker : wpc'[v] = "done" => shutdown' = TRUE /\ Len(taken') >= mark'
  BY <1>0, <1>1, <1>2, <1>3, <1>4 DEF Stopping
<1>7. \A v \in Worker : wpc[v] = "done" => wpc'[v] = "done"
  BY <1>2
<1> QED BY <1>1, <1>5, <1>6, <1>7 DEF Stopping

LEMMA CallerStop ==
  ASSUME TypeInv, Stopping, NEW c \in Caller, CCall(c) \/ CStep(c)
  PROVE  Stopping'
<1>0. /\ wpc \in [Worker -> WPC] /\ accepted \in Seq(Job) /\ Len(accepted) \in Nat
      /\ mark \in Nat /\ k \in 0 .. num_threads - 1
  BY DEF TypeInv, TypeOK
<1>1. UNCHANGED <<mpc, k, shutdown, mark, taken>>
  BY DEF CCall, CStep, CLock, CEnqueue, CUnlock, CSignal, wvars, mvars
<1>2. mark <= Len(accepted')
  <2>1. CASE accepted' = accepted
    BY <2>1 DEF Stopping
  <2>2. CASE CEnqueue(c) /\ accepted' = Append(accepted, op[c])
    <3>1. op[c] \in Job
      BY <2>2 DEF CEnqueue, TypeInv, OpAssigned
    <3>2. Len(accepted') = Len(accepted) + 1
      BY <1>0, <2>2, <3>1, AppendProperties
    <3> QED BY <1>0, <3>2 DEF Stopping
  <2> QED BY <2>1, <2>2 DEF CCall, CStep, CLock, CEnqueue, CUnlock, CSignal
<1>3. \A w \in Worker : wpc'[w] = "done" <=> wpc[w] = "done"
  <2>1. CASE wpc' = wpc
    BY <2>1
  <2>2. CASE \E w \in Waiting : wpc' = [wpc EXCEPT ![w] = "wake"]
    BY <1>0, <2>2 DEF Waiting
  <2> QED BY <2>1, <2>2 DEF CCall, CStep, CLock, CEnqueue, CUnlock, CSignal, wvars, GoW
<1>4. 1 .. k \subseteq Worker
  BY <1>0, SizeAssumption DEF Worker
<1> QED BY <1>1, <1>2, <1>3, <1>4 DEF Stopping

LEMMA MainStop ==
  ASSUME TypeInv, Stopping, MStep \/ MDestroy \/ UNCHANGED vars
  PROVE  Stopping'
<1>0. /\ wpc \in [Worker -> WPC] /\ Len(accepted) \in Nat /\ k \in 0 .. num_threads - 1
      /\ num_threads \in Nat \ {0} /\ mpc \in MPC
  BY SizeAssumption DEF TypeInv, TypeOK
<1>1. UNCHANGED <<accepted, taken>>
  BY DEF MStep, MCreate, MCreateFails, MDestroy, MLock, MShutdown, MUnlock, MJoin, MFree,
         wvars, cvars, mvars, vars
<1>2. CASE MCreate
  <2>1. /\ wpc' = [wpc EXCEPT ![k + 1] = "lock"] /\ mpc = "init" /\ mpc' \in {"serve", "init"}
        /\ (mpc' = "serve" => k' = 0) /\ UNCHANGED <<shutdown, mark>>
    BY <1>2 DEF MCreate, GoW
  <2> QED BY <1>0, <1>1, <2>1 DEF Stopping
<1>3. CASE MShutdown
  <2>1. /\ mpc = "shut" /\ mpc' = "dunlock" /\ shutdown' = TRUE /\ mark' = Len(accepted) /\ k' = k
        /\ wpc' = [w \in Worker |-> IF wpc[w] = "wait" THEN "wake" ELSE wpc[w]]
    BY <1>3 DEF MShutdown
  <2>2. \A w \in Worker : wpc'[w] # "done"
    BY <2>1 DEF Stopping
  <2> QED BY <1>0, <1>1, <2>1, <2>2 DEF Stopping
<1>4. CASE MJoin
  <2>1. /\ mpc = "join" /\ wpc[k + 1] = "done" /\ UNCHANGED <<wpc, shutdown, mark>>
        /\ k' = IF k + 1 = num_threads THEN 0 ELSE k + 1
        /\ mpc' = IF k + 1 = num_threads THEN "free" ELSE "join"
    BY <1>4 DEF MJoin, wvars
  <2>2. \A w \in 1 .. k + 1 : wpc[w] = "done"
    <3>1. \A w \in 1 .. k + 1 : w \in 1 .. k \/ w = k + 1
      BY <1>0
    <3> QED BY <2>1, <3>1 DEF Stopping
  <2>3. CASE k + 1 = num_threads
    <3>1. mpc' = "free" /\ \A w \in Worker : wpc[w] = "done"
      BY <2>1, <2>2, <2>3 DEF Worker
    <3> QED BY <1>1, <2>1, <3>1 DEF Stopping
  <2>4. CASE k + 1 # num_threads
    BY <1>0, <1>1, <2>1, <2>2, <2>4 DEF Stopping
  <2> QED BY <2>3, <2>4
<1>5. CASE MCreateFails \/ MDestroy \/ MLock \/ MUnlock \/ MFree \/ UNCHANGED vars
  BY <1>1, <1>5 DEF MCreateFails, MDestroy, MLock, MUnlock, MFree, wvars, mvars, vars, Stopping
<1> QED BY <1>2, <1>3, <1>4, <1>5 DEF MStep

LEMMA StopStep == TypeInv /\ OrderInv /\ Stopping /\ [Next]_vars => Stopping'
  BY WorkerStop, CallerStop, MainStop DEF Next, Ended

(* thread_pool_destroy drains the pool, whatever the interleaving: workers *)
(* leave only when all that was accepted before shutdown is taken, and     *)
(* main frees the threads only when all of it is handled.                  *)
THEOREM DestroyDrains == Safe => []DrainedBeforeExit
<1>1. Safe => [](OrderInv /\ Stopping)
  BY InitTypeInv, StepTypeInv, LockInit, LockStep, OrderInit, OrderStep, StopInit, StopStep, PTL
     DEF Safe
<1>2. OrderInv /\ Stopping => DrainedBeforeExit
  <2> SUFFICES ASSUME OrderInv, Stopping PROVE DrainedBeforeExit
    OBVIOUS
  <2>1. (\E w \in Worker : wpc[w] = "done") => shutdown /\ Len(taken) >= mark
    BY DEF Stopping
  <2>2. ASSUME mpc \in {"free", "over"}
        PROVE  (\A w \in Worker : wpc[w] = "done") /\ handled = Range(taken)
    <3>1. \A w \in Worker : wpc[w] = "done"
      BY <2>2 DEF Stopping
    <3>2. Running = {}
      BY <3>1 DEF Running
    <3> QED BY <3>1, <3>2 DEF OrderInv, JobsInOrder
  <2> QED BY <2>1, <2>2 DEF DrainedBeforeExit
<1> QED BY <1>1, <1>2, PTL
=============================================================================
