----------------------------- MODULE ThreadPool -----------------------------
(***************************************************************************)
(* The process-global worker pool of core/include/shortcog/thread_pool.hpp *)
(* and its Batch: a FIFO of jobs guarded by one mutex, workers that sleep  *)
(* on the condition variable ready_, and, per batch, a counter pending_    *)
(* guarded by the batch's own mutex with a condition variable done_.       *)
(*                                                                         *)
(* A batch lives on the stack of the thread that fills it, so a batch is   *)
(* named by its caller: it exists while cpc[c] # "idle" and is destroyed   *)
(* when Batch::wait returns.                                               *)
(*                                                                         *)
(* Critical sections of the pool mutex touch nothing else and hold the     *)
(* lock for one step, so each is one action.  The batch mutex is explicit  *)
(* (bmutex) because a worker still holds it after the step that lets the   *)
(* waiter go.  Both condition variables may wake spuriously.               *)
(*                                                                         *)
(* An operator marked "slip:" is not part of the specification: it is a    *)
(* plausible mistake in the code it stands next to, kept to show that a    *)
(* property notices it.                                                    *)
(***************************************************************************)
EXTENDS Naturals, Sequences, FiniteSets

CONSTANTS
  Workers,   (* the threads the pool may spawn                             *)
  Callers,   (* the threads that create batches and wait on them           *)
  MaxJobs,   (* bound on the number of jobs of one batch                   *)
  NoOne,     (* holder of a free mutex                                     *)
  NoJob      (* the job of a worker that has none                          *)

ASSUME PoolAssumption ==
  /\ Workers # {}
  /\ NoOne \notin Workers
  /\ MaxJobs \in Nat \ {0}

Job == [batch : Callers, task : 1..MaxJobs]

ASSUME FiniteThreads == IsFiniteSet(Workers) /\ IsFiniteSet(Callers)

ASSUME NoJobAssumption == NoJob \notin Job

VARIABLES
  life,      (* the pool object: none, up, stopping, joining, down         *)
  jobs,      (* jobs_, the FIFO of queued jobs                             *)
  wpc,       (* where each worker thread is in its loop                    *)
  wjob,      (* the job a worker took off the queue                        *)
  cpc,       (* where each caller is in submit() / wait()                  *)
  count,     (* how many jobs the caller's batch is going to have          *)
  next,      (* the job the caller is submitting                           *)
  pending,   (* Batch::pending_                                            *)
  bmutex,    (* the worker that holds Batch::mutex_, or NoOne              *)
  ran        (* history: the jobs of the batch whose body has completed    *)

poolVars == <<life, jobs, wpc, wjob>>
batchVars == <<cpc, count, next, pending, bmutex, ran>>
tpVars == <<life, jobs, wpc, wjob, cpc, count, next, pending, bmutex, ran>>

Submitting == {"submit", "push", "notify"}

(* ThreadPool::stop_ *)
stop == life \in {"stopping", "joining", "down"}

TPInit ==
  /\ life = "none"
  /\ jobs = << >>
  /\ wpc = [w \in Workers |-> "unborn"]
  /\ wjob = [w \in Workers |-> NoJob]
  /\ cpc = [c \in Callers |-> "idle"]
  /\ count = [c \in Callers |-> 0]
  /\ next = [c \in Callers |-> 1]
  /\ pending = [c \in Callers |-> 0]
  /\ bmutex = [c \in Callers |-> NoOne]
  /\ ran = [c \in Callers |-> {}]

-----------------------------------------------------------------------------
(* The pool object.                                                        *)

(* global_thread_pool(): the first caller's thread count builds the pool;  *)
(* later calls find it built, whatever they ask for.  A worker that starts *)
(* before the last one is spawned finds the queue empty, as the pool is    *)
(* handed out only when it is complete, so all of them start in one step.  *)
Construct(W) ==
  /\ life = "none"
  /\ W # {}
  /\ life' = "up"
  /\ wpc' = [w \in Workers |-> IF w \in W THEN "loop" ELSE wpc[w]]
  /\ UNCHANGED <<jobs, wjob, batchVars>>

(* ~ThreadPool(), run by exit(): set stop_ under the lock ...  A caller may *)
(* still be waiting for its batch; none may be between two submits.         *)
Shutdown ==
  /\ life = "up"
  /\ \A c \in Callers : cpc[c] \notin Submitting
  /\ life' = "stopping"
  /\ UNCHANGED <<jobs, wpc, wjob, batchVars>>

(* slip: notify_one() where the destructor needs notify_all().             *)
NotifyStopOne ==
  /\ life = "stopping"
  /\ life' = "joining"
  /\ \E v \in Workers : wpc' = [w \in Workers |->
       IF wpc[w] = "asleep" /\ w = v THEN "loop" ELSE wpc[w]]
  /\ UNCHANGED <<jobs, wjob, batchVars>>

(* ... then ready_.notify_all() ...                                         *)
NotifyStop ==
  /\ life = "stopping"
  /\ life' = "joining"
  /\ wpc' = [w \in Workers |-> IF wpc[w] = "asleep" THEN "loop" ELSE wpc[w]]
  /\ UNCHANGED <<jobs, wjob, batchVars>>

(* ... then join every worker.                                              *)
Join ==
  /\ life = "joining"
  /\ \A w \in Workers : wpc[w] \in {"unborn", "exited"}
  /\ life' = "down"
  /\ UNCHANGED <<jobs, wpc, wjob, batchVars>>

-----------------------------------------------------------------------------
(* Batch::submit and Batch::wait, on the caller's thread.                  *)

(* Construct a Batch that is going to get n jobs.                          *)
BeginBatch(c, n) ==
  /\ life = "up"
  /\ cpc[c] = "idle"
  /\ cpc' = [cpc EXCEPT ![c] = "submit"]
  /\ count' = [count EXCEPT ![c] = n]
  /\ next' = [next EXCEPT ![c] = 1]
  /\ pending' = [pending EXCEPT ![c] = 0]
  /\ bmutex' = [bmutex EXCEPT ![c] = NoOne]
  /\ ran' = [ran EXCEPT ![c] = {}]
  /\ UNCHANGED poolVars

(* submit(): ++pending_ under the batch mutex, before the job is visible.  *)
CountJob(c) ==
  /\ cpc[c] = "submit"
  /\ bmutex[c] = NoOne
  /\ cpc' = [cpc EXCEPT ![c] = "push"]
  /\ pending' = [pending EXCEPT ![c] = @ + 1]
  /\ UNCHANGED <<poolVars, count, next, bmutex, ran>>

(* enqueue(): push under the pool mutex.                                   *)
PushJob(c) ==
  /\ cpc[c] = "push"
  /\ cpc' = [cpc EXCEPT ![c] = "notify"]
  /\ jobs' = Append(jobs, [batch |-> c, task |-> next[c]])
  /\ UNCHANGED <<life, wpc, wjob, count, next, pending, bmutex, ran>>

(* enqueue(): ready_.notify_one() after the lock is released.              *)
NotifyOne ==
  LET asleep == {w \in Workers : wpc[w] = "asleep"} IN
  IF asleep = {}
    THEN UNCHANGED wpc
    ELSE \E w \in asleep : wpc' = [wpc EXCEPT ![w] = "loop"]

(* slip: notify only when the queue was empty before the push.             *)
NotifyIfFirst(c) ==
  /\ cpc[c] = "notify"
  /\ IF Len(jobs) = 1 THEN NotifyOne ELSE UNCHANGED wpc
  /\ next' = [next EXCEPT ![c] = @ + 1]
  /\ cpc' = [cpc EXCEPT ![c] = IF next[c] = count[c] THEN "wait" ELSE "submit"]
  /\ UNCHANGED <<life, jobs, wjob, count, pending, bmutex, ran>>

NotifyWorker(c) ==
  /\ cpc[c] = "notify"
  /\ NotifyOne
  /\ next' = [next EXCEPT ![c] = @ + 1]
  /\ cpc' = [cpc EXCEPT ![c] = IF next[c] = count[c] THEN "wait" ELSE "submit"]
  /\ UNCHANGED <<life, jobs, wjob, count, pending, bmutex, ran>>

(* slip: wait() is satisfied one job early.                                *)
WaitReturnEarly(c) ==
  /\ cpc[c] = "wait"
  /\ bmutex[c] = NoOne
  /\ pending[c] <= 1
  /\ cpc' = [cpc EXCEPT ![c] = "idle"]
  /\ UNCHANGED <<poolVars, count, next, pending, bmutex, ran>>

(* wait(): test pending_ under the batch mutex; sleep on done_, or return, *)
(* after which the batch is destroyed.                                     *)
WaitReturn(c) ==
  /\ cpc[c] = "wait"
  /\ bmutex[c] = NoOne
  /\ pending[c] = 0
  /\ cpc' = [cpc EXCEPT ![c] = "idle"]
  /\ UNCHANGED <<poolVars, count, next, pending, bmutex, ran>>

WaitBlock(c) ==
  /\ cpc[c] = "wait"
  /\ bmutex[c] = NoOne
  /\ pending[c] # 0
  /\ cpc' = [cpc EXCEPT ![c] = "blocked"]
  /\ UNCHANGED <<poolVars, count, next, pending, bmutex, ran>>

SpuriousDone(c) ==
  /\ cpc[c] = "blocked"
  /\ cpc' = [cpc EXCEPT ![c] = "wait"]
  /\ UNCHANGED <<poolVars, count, next, pending, bmutex, ran>>

-----------------------------------------------------------------------------
(* The worker loop of ThreadPool::ThreadPool and the wrapper of submit().  *)

WorkerSleep(w) ==
  /\ wpc[w] = "loop"
  /\ ~stop
  /\ jobs = << >>
  /\ wpc' = [wpc EXCEPT ![w] = "asleep"]
  /\ UNCHANGED <<life, jobs, wjob, batchVars>>

SpuriousReady(w) ==
  /\ wpc[w] = "asleep"
  /\ wpc' = [wpc EXCEPT ![w] = "loop"]
  /\ UNCHANGED <<life, jobs, wjob, batchVars>>

(* slip: a worker leaves as soon as stop_ is set.                          *)
WorkerExitAtOnce(w) ==
  /\ wpc[w] = "loop"
  /\ stop
  /\ wpc' = [wpc EXCEPT ![w] = "exited"]
  /\ UNCHANGED <<life, jobs, wjob, batchVars>>

WorkerExit(w) ==
  /\ wpc[w] = "loop"
  /\ stop
  /\ jobs = << >>
  /\ wpc' = [wpc EXCEPT ![w] = "exited"]
  /\ UNCHANGED <<life, jobs, wjob, batchVars>>

(* slip: front() is read in one critical section, pop() left to another.   *)
WorkerTakeNoPop(w) ==
  /\ wpc[w] = "loop"
  /\ jobs # << >>
  /\ wjob' = [wjob EXCEPT ![w] = Head(jobs)]
  /\ wpc' = [wpc EXCEPT ![w] = "run"]
  /\ UNCHANGED <<life, jobs, batchVars>>

WorkerTake(w) ==
  /\ wpc[w] = "loop"
  /\ jobs # << >>
  /\ wjob' = [wjob EXCEPT ![w] = Head(jobs)]
  /\ jobs' = Tail(jobs)
  /\ wpc' = [wpc EXCEPT ![w] = "run"]
  /\ UNCHANGED <<life, batchVars>>

(* The step in which the body of the job, job(), returns.                  *)
RunJob(w) ==
  /\ wpc[w] = "run"
  /\ wpc' = [wpc EXCEPT ![w] = "lock"]
  /\ ran' = [ran EXCEPT ![wjob[w].batch] = @ \cup {wjob[w].task}]
  /\ UNCHANGED <<life, jobs, wjob, cpc, count, next, pending, bmutex>>

(* The rest of the wrapper: lock_guard, --pending_, notify_all while the   *)
(* lock is still held, unlock.                                             *)
LockBatch(w) ==
  /\ wpc[w] = "lock"
  /\ bmutex[wjob[w].batch] = NoOne
  /\ bmutex' = [bmutex EXCEPT ![wjob[w].batch] = w]
  /\ wpc' = [wpc EXCEPT ![w] = "dec"]
  /\ UNCHANGED <<life, jobs, wjob, cpc, count, next, pending, ran>>

(* slip: the lock is released before done_ is notified.                    *)
DecrementUnlocked(w) ==
  LET c == wjob[w].batch IN
  /\ wpc[w] = "dec"
  /\ wpc' = [wpc EXCEPT ![w] = "unlock"]
  /\ pending' = [pending EXCEPT ![c] = @ - 1]
  /\ bmutex' = [bmutex EXCEPT ![c] = NoOne]
  /\ cpc' = [cpc EXCEPT ![c] =
               IF pending'[c] = 0 /\ @ = "blocked" THEN "wait" ELSE @]
  /\ UNCHANGED <<life, jobs, wjob, count, next, ran>>

(* slip: pending_-- == 0, so that done_ is never notified.                 *)
DecrementSilent(w) ==
  LET c == wjob[w].batch IN
  /\ wpc[w] = "dec"
  /\ wpc' = [wpc EXCEPT ![w] = "unlock"]
  /\ pending' = [pending EXCEPT ![c] = @ - 1]
  /\ cpc' = [cpc EXCEPT ![c] =
               IF pending[c] = 0 /\ @ = "blocked" THEN "wait" ELSE @]
  /\ UNCHANGED <<life, jobs, wjob, count, next, bmutex, ran>>

Decrement(w) ==
  LET c == wjob[w].batch IN
  /\ wpc[w] = "dec"
  /\ wpc' = [wpc EXCEPT ![w] = "unlock"]
  /\ pending' = [pending EXCEPT ![c] = @ - 1]
  /\ cpc' = [cpc EXCEPT ![c] =
               IF pending'[c] = 0 /\ @ = "blocked" THEN "wait" ELSE @]
  /\ UNCHANGED <<life, jobs, wjob, count, next, bmutex, ran>>

UnlockBatch(w) ==
  /\ wpc[w] = "unlock"
  /\ bmutex' = [bmutex EXCEPT ![wjob[w].batch] = NoOne]
  /\ wjob' = [wjob EXCEPT ![w] = NoJob]
  /\ wpc' = [wpc EXCEPT ![w] = "loop"]
  /\ UNCHANGED <<life, jobs, cpc, count, next, pending, ran>>

-----------------------------------------------------------------------------
(* The steps of each thread but the job's own body.                        *)

PoolStep ==
  \/ \E W \in SUBSET Workers : Construct(W)
  \/ Shutdown
  \/ NotifyStop
  \/ Join

CallerStep(c) ==
  \/ CountJob(c)
  \/ PushJob(c)
  \/ NotifyWorker(c)
  \/ WaitBlock(c)
  \/ SpuriousDone(c)

WorkerStep(w) ==
  \/ WorkerSleep(w)
  \/ SpuriousReady(w)
  \/ WorkerExit(w)
  \/ WorkerTake(w)
  \/ LockBatch(w)
  \/ Decrement(w)
  \/ UnlockBatch(w)

(* The process has nothing left to do.                                     *)
Quiesced ==
  /\ life = "down"
  /\ \A c \in Callers : cpc[c] = "idle"
  /\ UNCHANGED tpVars

TPNext ==
  \/ PoolStep
  \/ Quiesced
  \/ \E c \in Callers :
       \/ \E n \in 1..MaxJobs : BeginBatch(c, n)
       \/ CallerStep(c)
       \/ WaitReturn(c)
  \/ \E w \in Workers : WorkerStep(w) \/ RunJob(w)

TPSpec == TPInit /\ [][TPNext]_tpVars

(* Every thread that has started keeps being scheduled, every job returns, *)
(* and exit() goes on once begun.  Nothing is assumed of spurious          *)
(* wake-ups, of new batches, or of exit() being called at all.             *)
CallerProgress(c) ==
  CountJob(c) \/ PushJob(c) \/ NotifyWorker(c) \/ WaitBlock(c) \/ WaitReturn(c)

WorkerProgress(w) ==
  \/ WorkerSleep(w) \/ WorkerExit(w) \/ WorkerTake(w) \/ RunJob(w)
  \/ LockBatch(w) \/ Decrement(w) \/ UnlockBatch(w)

TPFairSpec ==
  /\ TPSpec
  /\ WF_tpVars(NotifyStop \/ Join)
  /\ \A c \in Callers : WF_tpVars(CallerProgress(c))
  /\ \A w \in Workers : WF_tpVars(WorkerProgress(w))

-----------------------------------------------------------------------------
TPTypeOK ==
  /\ life \in {"none", "up", "stopping", "joining", "down"}
  /\ jobs \in Seq(Job)
  /\ wpc \in [Workers -> {"unborn", "loop", "asleep", "exited",
                          "run", "lock", "dec", "unlock"}]
  /\ wjob \in [Workers -> Job \cup {NoJob}]
  /\ cpc \in [Callers -> Submitting \cup {"idle", "wait", "blocked"}]
  /\ count \in [Callers -> 0..MaxJobs]
  /\ next \in [Callers -> 1..(MaxJobs + 1)]
  /\ pending \in [Callers -> Nat]
  /\ bmutex \in [Callers -> Workers \cup {NoOne}]
  /\ ran \in [Callers -> SUBSET (1..MaxJobs)]

Queued(j) == \E i \in 1..Len(jobs) : jobs[i] = j

Holding(w) == wpc[w] \in {"run", "lock", "dec", "unlock"}

(* Once wait() has returned, the batch, the plan and the flag the jobs     *)
(* refer to are gone: no queued job and no worker, not even one that has   *)
(* only to release the mutex, may still refer to them.                     *)
NoUseAfterReturn ==
  \A c \in Callers : cpc[c] = "idle" =>
    /\ \A j \in Job : Queued(j) => j.batch # c
    /\ \A w \in Workers : Holding(w) => wjob[w].batch # c

(* wait() is a barrier: when it returns, the body of every job submitted   *)
(* to the batch has completed, whatever the other batches do.              *)
WaitIsBarrier ==
  \A c \in Callers : cpc[c] = "idle" => ran[c] = 1..count[c]

(* A job is handed to one worker only, so no tile is decoded by two        *)
(* threads at the same time.                                               *)
JobTakenOnce ==
  /\ \A v, w \in Workers : Holding(v) /\ Holding(w) /\ v # w => wjob[v] # wjob[w]
  /\ \A w \in Workers : Holding(w) => ~Queued(wjob[w])

(* No wake-up is lost: while some worker sleeps, every queued job has a    *)
(* worker on its way to the queue or a notify_one still to come.           *)
EveryJobHasAWaker ==
  (\E w \in Workers : wpc[w] = "asleep") =>
    Len(jobs) <= Cardinality({w \in Workers : wpc[w] = "loop"})
               + Cardinality({c \in Callers : cpc[c] = "notify"})

(* done_ is never missed: a caller sleeps on it only while some job of its *)
(* batch has still to decrement pending_.                                  *)
BlockedIsPending ==
  \A c \in Callers : cpc[c] = "blocked" => pending[c] > 0

(* ~ThreadPool drains the queue: no worker is gone while a job is queued,  *)
(* and the pool is down only when every batch is complete.                 *)
ShutdownDrains ==
  /\ (\E w \in Workers : wpc[w] = "exited") => jobs = << >>
  /\ life = "down" => \A c \in Callers : pending[c] = 0

(* A caller that has started a batch always gets out of wait(), whatever   *)
(* the other callers submit, and also when exit() shuts the pool down      *)
(* under it.                                                               *)
EveryBatchReturns == \A c \in Callers : cpc[c] # "idle" ~> cpc[c] = "idle"

(* exit() gets through ~ThreadPool: no worker misses notify_all, or sleeps *)
(* while the destructor joins it.                                          *)
PoolComesDown == life = "stopping" ~> life = "down"

-----------------------------------------------------------------------------
(* Why the safety properties hold: the bookkeeping that relates the        *)
(* caller's loop, the queue, the workers, the mutex and pending_.          *)

Counting == {"push", "notify"}

(* How many jobs of c are in the pool's hands, and how many ++pending_ has *)
(* counted: the loop counts a job, then pushes it.                         *)
Pushed(c) == IF cpc[c] = "notify" THEN next[c] ELSE next[c] - 1
Counted(c) == IF cpc[c] \in Counting THEN next[c] ELSE next[c] - 1

(* Worker w has run job t of c and has not yet decremented pending_.       *)
Owes(w, c, t) == wpc[w] \in {"lock", "dec"} /\ wjob[w] = [batch |-> c, task |-> t]

(* The counted jobs that --pending_ has not taken off.                     *)
Unfinished(c) ==
  {t \in 1..Counted(c) : t \in ran[c] => \E w \in Workers : Owes(w, c, t)}

LoopInv == \A c \in Callers :
  /\ cpc[c] \in Submitting => next[c] <= count[c] /\ life = "up"
  /\ cpc[c] \notin Submitting => next[c] = count[c] + 1
  /\ ran[c] \subseteq 1..Pushed(c)

QueueInv ==
  /\ \A i \in 1..Len(jobs) :
       /\ jobs[i].task <= Pushed(jobs[i].batch)
       /\ jobs[i].task \notin ran[jobs[i].batch]
       /\ \A k \in 1..Len(jobs) : jobs[i] = jobs[k] => i = k
       /\ \A w \in Workers : Holding(w) => wjob[w] # jobs[i]

HoldInv == \A w \in Workers : Holding(w) =>
  /\ wjob[w] \in Job
  /\ wjob[w].task <= Pushed(wjob[w].batch)
  /\ wjob[w].task \in ran[wjob[w].batch] <=> wpc[w] # "run"
  /\ \A v \in Workers : Holding(v) /\ wjob[v] = wjob[w] => v = w

MutexInv ==
  /\ \A w \in Workers :
       wpc[w] \in {"dec", "unlock"} => bmutex[wjob[w].batch] = w
  /\ \A c \in Callers : bmutex[c] # NoOne =>
       /\ bmutex[c] \in Workers
       /\ wpc[bmutex[c]] \in {"dec", "unlock"}
       /\ wjob[bmutex[c]].batch = c

PendingInv == \A c \in Callers :
  /\ pending[c] = Cardinality(Unfinished(c))
  /\ cpc[c] = "idle" => pending[c] = 0

LifeInv ==
  /\ life = "none" => \A w \in Workers : wpc[w] = "unborn"
  /\ life # "none" => \E w \in Workers : wpc[w] # "unborn"
  /\ \A w \in Workers : wpc[w] = "exited" => stop /\ jobs = << >>
  /\ life = "down" => \A w \in Workers : wpc[w] \in {"unborn", "exited"}

(* A job is never lost: pushed and not yet run, it is queued or a worker   *)
(* is about to run it.                                                     *)
Taken(j) == \E w \in Workers : wpc[w] = "run" /\ wjob[w] = j

JobInv == \A j \in Job :
  j.task <= Pushed(j.batch) /\ j.task \notin ran[j.batch] => Queued(j) \/ Taken(j)

(* What every reachable state satisfies and every step preserves.          *)
TPInv ==
  /\ TPTypeOK
  /\ LoopInv
  /\ QueueInv
  /\ HoldInv
  /\ MutexInv
  /\ PendingInv
  /\ LifeInv
  /\ JobInv
  /\ NoUseAfterReturn

=============================================================================
