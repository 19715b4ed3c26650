----------------------------- MODULE ThreadPool -----------------------------
(***************************************************************************)
(* The worker pool of thread_pool.c: num_threads workers share a bounded   *)
(* array of jobs under one mutex and one condition variable.  Callers of   *)
(* job_enqueue run beside them, also while thread_pool_destroy is under    *)
(* way; main runs thread_pool_init and thread_pool_destroy.                *)
(*                                                                         *)
(* A step is what a thread does between two points where another one can   *)
(* interfere: taking the mutex, a section under it, releasing it,          *)
(* sleeping, signalling.  The used part of operations[] is the sequence    *)
(* jobs, with job_count its length.                                        *)
(***************************************************************************)
EXTENDS Integers, Sequences, FiniteSets, Functions

CONSTANTS
  num_threads,   \* argument of thread_pool_init and thread_pool_destroy
  LOAD_BOUND,    \* length of operations[]
  Caller,        \* threads that call job_enqueue
  Job,           \* the jobs they offer, each of them once
  MaxSpurious,   \* bound: how many spurious wakeups happen
  Main, Free,    \* the thread that owns the pool; the unlocked mutex
  NoJob          \* a job variable that was never assigned

Worker == 1 .. num_threads

ASSUME SizeAssumption == /\ num_threads \in Nat \ {0}
                         /\ LOAD_BOUND \in Nat \ {0, 1}
                         /\ MaxSpurious \in Nat
ASSUME ThreadAssumption == /\ Worker \cap Caller = {}
                           /\ Main \notin Worker \cup Caller
                           /\ Free \notin Worker \cup Caller \cup {Main}
                           /\ IsFiniteSet(Caller)
ASSUME JobAssumption == NoJob \notin Job

VARIABLES
  mutex,      \* mutex_queue: its holder, or Free
  jobs,       \* operations[0 .. job_count - 1]
  shutdown,
  wpc, job,   \* per worker: where it is in thread_pool_start, its job variable
  cpc, op,    \* per caller: where it is in job_enqueue, its argument
  mpc, k,     \* main: where it is in init and destroy, its loop counter
  spurious,   \* spurious wakeups so far
  todo,       \* history: jobs not offered yet
  accepted,   \* history: jobs job_enqueue stored, in order
  taken,      \* history: jobs workers removed, in order
  handled,    \* history: jobs passed to job_handle
  mark        \* history: how many jobs were accepted when shutdown was set

wvars == <<wpc, job, handled, taken>>
cvars == <<cpc, op, todo, accepted>>
mvars == <<mpc, k, shutdown, mark>>
vars  == <<mutex, jobs, wvars, cvars, mvars, spurious>>

Waiting == {w \in Worker : wpc[w] = "wait"}
GoW(w, l) == wpc' = [wpc EXCEPT ![w] = l]
GoC(c, l) == cpc' = [cpc EXCEPT ![c] = l]

Lock(t) == mutex = Free /\ mutex' = t
Unlock  == mutex' = Free

-----------------------------------------------------------------------------
(***************************************************************************)
(* thread_pool_start.  pthread_cond_wait is two steps: WTest releases the  *)
(* mutex and sleeps, WWake takes it again once a signal, a broadcast or a  *)
(* spurious wakeup moved the worker from "wait" to "wake".                 *)
(***************************************************************************)
WLock(w) ==
  /\ wpc[w] = "lock" /\ Lock(w) /\ GoW(w, "test")
  /\ UNCHANGED <<jobs, job, handled, taken, cvars, mvars, spurious>>

WTest(w) ==
  /\ wpc[w] = "test"
  /\ IF jobs = <<>> /\ ~shutdown
     THEN GoW(w, "wait") /\ Unlock
     ELSE GoW(w, "take") /\ UNCHANGED mutex
  /\ UNCHANGED <<jobs, job, handled, taken, cvars, mvars, spurious>>

WSpurious(w) ==
  /\ wpc[w] = "wait" /\ spurious < MaxSpurious
  /\ GoW(w, "wake") /\ spurious' = spurious + 1
  /\ UNCHANGED <<mutex, jobs, job, handled, taken, cvars, mvars>>

WakeSkipsTest(w) ==                     \* mutant: if instead of while
  /\ wpc[w] = "wake" /\ Lock(w) /\ GoW(w, "take")
  /\ UNCHANGED <<jobs, job, handled, taken, cvars, mvars, spurious>>

WWake(w) ==
  /\ wpc[w] = "wake" /\ Lock(w) /\ GoW(w, "test")
  /\ UNCHANGED <<jobs, job, handled, taken, cvars, mvars, spurious>>

ExitsAtOnce(w) ==                       \* mutant: shutdown is tested before job_count
  /\ wpc[w] = "take"
  /\ IF shutdown
     THEN GoW(w, "done") /\ Unlock /\ UNCHANGED <<job, taken, jobs>>
     ELSE /\ job' = [job EXCEPT ![w] = Head(jobs)] /\ taken' = Append(taken, Head(jobs))
          /\ jobs' = Tail(jobs) /\ GoW(w, "unlock") /\ UNCHANGED mutex
  /\ UNCHANGED <<handled, cvars, mvars, spurious>>

NeverLeaves(w) ==                       \* mutant: the break is missing
  /\ wpc[w] = "take"
  /\ IF jobs # <<>>
     THEN /\ job' = [job EXCEPT ![w] = Head(jobs)] /\ taken' = Append(taken, Head(jobs))
          /\ jobs' = Tail(jobs) /\ GoW(w, "unlock") /\ UNCHANGED mutex
     ELSE UNCHANGED <<job, taken, jobs>> /\ GoW(w, "lock") /\ Unlock
  /\ UNCHANGED <<handled, cvars, mvars, spurious>>

WTake(w) ==
  /\ wpc[w] = "take"
  /\ IF jobs # <<>>
     THEN /\ job' = [job EXCEPT ![w] = Head(jobs)] /\ taken' = Append(taken, Head(jobs))
          /\ jobs' = Tail(jobs) /\ GoW(w, "unlock") /\ UNCHANGED mutex
     ELSE /\ UNCHANGED <<job, taken, jobs>>
          /\ IF shutdown THEN GoW(w, "done") /\ Unlock
                         ELSE GoW(w, "unlock") /\ UNCHANGED mutex
  /\ UNCHANGED <<handled, cvars, mvars, spurious>>

WUnlock(w) ==
  /\ wpc[w] = "unlock" /\ Unlock /\ GoW(w, "run")
  /\ UNCHANGED <<jobs, job, handled, taken, cvars, mvars, spurious>>

(* job_handle, and the end of the loop body, where job goes out of scope.  *)
WRun(w) ==
  /\ wpc[w] = "run" /\ GoW(w, "lock")
  /\ handled' = handled \cup {job[w]} /\ job' = [job EXCEPT ![w] = NoJob]
  /\ UNCHANGED <<mutex, jobs, taken, cvars, mvars, spurious>>

WStep(w) == WLock(w) \/ WTest(w) \/ WWake(w) \/ WTake(w) \/ WUnlock(w) \/ WRun(w)

-----------------------------------------------------------------------------
(***************************************************************************)
(* job_enqueue.  Callers respect the life of the pool: a call starts only  *)
(* between thread_pool_init and the end of thread_pool_destroy.            *)
(***************************************************************************)
CCall(c) ==
  /\ cpc[c] = "idle" /\ mpc \in {"serve", "dlock", "shut", "dunlock", "join"}
  /\ \E j \in todo : op' = [op EXCEPT ![c] = j] /\ todo' = todo \ {j}
  /\ GoC(c, "lock")
  /\ UNCHANGED <<mutex, jobs, wvars, accepted, mvars, spurious>>

EnqueueUnlocked(c) ==                   \* mutant: the mutex is not taken
  /\ cpc[c] = "lock" /\ GoC(c, "put") /\ UNCHANGED mutex
  /\ UNCHANGED <<jobs, wvars, op, todo, accepted, mvars, spurious>>

CLock(c) ==
  /\ cpc[c] = "lock" /\ Lock(c) /\ GoC(c, "put")
  /\ UNCHANGED <<jobs, wvars, op, todo, accepted, mvars, spurious>>

FillsLastSlot(c) ==                     \* mutant: job_count <= LOAD_BOUND - 1
  /\ cpc[c] = "put" /\ GoC(c, "unlock")
  /\ IF Len(jobs) <= LOAD_BOUND - 1
     THEN jobs' = Append(jobs, op[c]) /\ accepted' = Append(accepted, op[c])
     ELSE UNCHANGED <<jobs, accepted>>
  /\ UNCHANGED <<mutex, wvars, op, todo, mvars, spurious>>

CEnqueue(c) ==
  /\ cpc[c] = "put" /\ GoC(c, "unlock")
  /\ IF Len(jobs) < LOAD_BOUND - 1
     THEN jobs' = Append(jobs, op[c]) /\ accepted' = Append(accepted, op[c])
     ELSE UNCHANGED <<jobs, accepted>>
  /\ UNCHANGED <<mutex, wvars, op, todo, mvars, spurious>>

CUnlock(c) ==
  /\ cpc[c] = "unlock" /\ Unlock /\ GoC(c, "signal")
  /\ UNCHANGED <<jobs, wvars, op, todo, accepted, mvars, spurious>>

NeverSignals(c) ==                      \* mutant: pthread_cond_signal is missing
  /\ cpc[c] = "signal" /\ GoC(c, "idle") /\ UNCHANGED wpc
  /\ UNCHANGED <<mutex, jobs, job, handled, taken, op, todo, accepted, mvars, spurious>>

CSignal(c) ==
  /\ cpc[c] = "signal" /\ GoC(c, "idle")
  /\ IF Waiting = {} THEN UNCHANGED wpc ELSE \E w \in Waiting : GoW(w, "wake")
  /\ UNCHANGED <<mutex, jobs, job, handled, taken, op, todo, accepted, mvars, spurious>>

CStep(c) == CLock(c) \/ CEnqueue(c) \/ CUnlock(c) \/ CSignal(c)

-----------------------------------------------------------------------------
(***************************************************************************)
(* thread_pool_init and thread_pool_destroy.  Any pthread_create may fail, *)
(* and so may the allocation before the first: init then returns NULL and  *)
(* leaves the workers it created behind.                                   *)
(***************************************************************************)
MCreate ==
  /\ mpc = "init"
  /\ GoW(k + 1, "lock")
  /\ k' = IF k + 1 = num_threads THEN 0 ELSE k + 1
  /\ mpc' = IF k + 1 = num_threads THEN "serve" ELSE "init"
  /\ UNCHANGED <<mutex, jobs, job, handled, taken, cvars, shutdown, mark, spurious>>

MCreateFails ==
  /\ mpc = "init" /\ mpc' = "failed"
  /\ UNCHANGED <<mutex, jobs, wvars, cvars, k, shutdown, mark, spurious>>

MDestroy ==
  /\ mpc = "serve" /\ mpc' = "dlock"
  /\ UNCHANGED <<mutex, jobs, wvars, cvars, k, shutdown, mark, spurious>>

MLock ==
  /\ mpc = "dlock" /\ Lock(Main) /\ mpc' = "shut"
  /\ UNCHANGED <<jobs, wvars, cvars, k, shutdown, mark, spurious>>

ShutdownSignals ==                      \* mutant: signal instead of broadcast
  /\ mpc = "shut" /\ mpc' = "dunlock"
  /\ shutdown' = TRUE /\ mark' = Len(accepted)
  /\ IF Waiting = {} THEN UNCHANGED wpc ELSE \E w \in Waiting : GoW(w, "wake")
  /\ UNCHANGED <<mutex, jobs, job, handled, taken, cvars, k, spurious>>

MShutdown ==
  /\ mpc = "shut" /\ mpc' = "dunlock"
  /\ shutdown' = TRUE /\ mark' = Len(accepted)
  /\ wpc' = [w \in Worker |-> IF wpc[w] = "wait" THEN "wake" ELSE wpc[w]]
  /\ UNCHANGED <<mutex, jobs, job, handled, taken, cvars, k, spurious>>

MUnlock ==
  /\ mpc = "dunlock" /\ Unlock /\ mpc' = "join"
  /\ UNCHANGED <<jobs, wvars, cvars, k, shutdown, mark, spurious>>

MJoin ==
  /\ mpc = "join"
  /\ wpc[k + 1] = "done"
  /\ k' = IF k + 1 = num_threads THEN 0 ELSE k + 1
  /\ mpc' = IF k + 1 = num_threads THEN "free" ELSE "join"
  /\ UNCHANGED <<mutex, jobs, wvars, cvars, shutdown, mark, spurious>>

(* Destroying the mutex and the condition variable; the owner of the pool  *)
(* does so when no call of job_enqueue is under way.                       *)
MFree ==
  /\ mpc = "free" /\ (\A c \in Caller : cpc[c] = "idle") /\ mpc' = "over"
  /\ UNCHANGED <<mutex, jobs, wvars, cvars, k, shutdown, mark, spurious>>

MStep == MCreate \/ MCreateFails \/ MLock \/ MShutdown \/ MUnlock \/ MJoin \/ MFree

(* The pool is gone, or was never completed.                               *)
Ended == mpc \in {"over", "failed"} /\ UNCHANGED vars

-----------------------------------------------------------------------------
Init ==
  /\ mutex = Free /\ jobs = <<>> /\ shutdown = FALSE
  /\ wpc = [w \in Worker |-> "none"] /\ job = [w \in Worker |-> NoJob]
  /\ cpc = [c \in Caller |-> "idle"] /\ op = [c \in Caller |-> NoJob]
  /\ mpc = "init" /\ k = 0 /\ spurious = 0 /\ mark = 0
  /\ todo = Job /\ accepted = <<>> /\ taken = <<>> /\ handled = {}

Next == \/ \E w \in Worker : WStep(w) \/ WSpurious(w)
        \/ \E c \in Caller : CCall(c) \/ CStep(c)
        \/ MStep \/ MDestroy \/ Ended

Safe == Init /\ [][Next]_vars

(***************************************************************************)
(* The scheduler runs every thread that can run: workers, callers inside   *)
(* job_enqueue, main inside init and destroy.  Nobody is obliged to start  *)
(* a call.                                                                 *)
(***************************************************************************)
Fairness == /\ \A w \in Worker : WF_vars(WStep(w))
            /\ \A c \in Caller : WF_vars(CStep(c))
            /\ WF_vars(MStep)

Spec == Safe /\ Fairness

-----------------------------------------------------------------------------
WPC == {"none", "lock", "test", "wait", "wake", "take", "unlock", "run", "done"}
CPC == {"idle", "lock", "put", "unlock", "signal"}
MPC == {"init", "failed", "serve", "dlock", "shut", "dunlock", "join", "free", "over"}

(* Type invariant; operations[] keeps its last slot free, so job_count     *)
(* never indexes past the array.                                           *)
TypeOK ==
  /\ mutex \in Worker \cup Caller \cup {Main, Free}
  /\ jobs \in Seq(Job) /\ Len(jobs) <= LOAD_BOUND - 1
  /\ shutdown \in BOOLEAN
  /\ wpc \in [Worker -> WPC] /\ job \in [Worker -> Job \cup {NoJob}]
  /\ cpc \in [Caller -> CPC] /\ op \in [Caller -> Job \cup {NoJob}]
  /\ mpc \in MPC /\ k \in 0 .. num_threads - 1 /\ spurious \in 0 .. MaxSpurious
  /\ todo \subseteq Job /\ accepted \in Seq(Job) /\ taken \in Seq(Job)
  /\ handled \subseteq Job \cup {NoJob} /\ mark \in Nat

(* The mutex is held by exactly the thread whose program counter is inside *)
(* a section of thread_pool_start, job_enqueue or thread_pool_destroy.     *)
HoldsLock(t) == \/ t \in Worker /\ wpc[t] \in {"test", "take", "unlock"}
                \/ t \in Caller /\ cpc[t] \in {"put", "unlock"}
                \/ t = Main /\ mpc \in {"shut", "dunlock"}
LockDiscipline ==
  \A t \in Worker \cup Caller \cup {Main} : HoldsLock(t) <=> mutex = t

(* No job is lost, duplicated or reordered: what job_enqueue accepted is   *)
(* what workers took followed by what is queued, and a worker never        *)
(* reaches job_handle with a job it did not take, whatever wakeups are     *)
(* spurious or late.                                                       *)
Running == {w \in Worker : wpc[w] \in {"unlock", "run"}}
JobsInOrder ==
  /\ accepted = taken \o jobs
  /\ Range(taken) = handled \cup {job[w] : w \in Running}
  /\ \A w \in Running : job[w] \notin handled /\ \A v \in Running : job[v] = job[w] => v = w

(* No wakeup is lost although job_enqueue signals after it released the    *)
(* mutex: while a worker sleeps, every queued job has a thread of its own  *)
(* that will still look at the queue or signal, and after shutdown nobody  *)
(* sleeps.                                                                 *)
Awake   == {w \in Worker : wpc[w] \in {"lock", "wake", "test", "take"}}
Pending == {c \in Caller : cpc[c] \in {"unlock", "signal"}}
NoLostWakeup ==
  /\ Waiting # {} => Len(jobs) <= Cardinality(Awake) + Cardinality(Pending)
  /\ shutdown => Waiting = {}

(* thread_pool_destroy drains the pool: no worker leaves its loop before   *)
(* every job accepted before shutdown was taken, and when the threads are  *)
(* freed all of them have left and have handled what they took.            *)
DrainedBeforeExit ==
  /\ (\E w \in Worker : wpc[w] = "done") => shutdown /\ Len(taken) >= mark
  /\ mpc \in {"free", "over"} =>
       (\A w \in Worker : wpc[w] = "done") /\ handled = Range(taken)

(* A destroy that was begun returns: broadcast and the tests under the     *)
(* mutex leave no worker asleep that main would join for ever.             *)
DestroyReturns == mpc = "dlock" ~> mpc = "over"

(* A job accepted before shutdown is eventually handled, also when its     *)
(* signal found no sleeper or the pool shuts down first.                   *)
AcceptedAreHandled ==
  \A j \in Job : (~shutdown /\ j \in Range(accepted)) ~> j \in handled
=============================================================================
