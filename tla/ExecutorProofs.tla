--------------------------- MODULE ExecutorProofs ---------------------------
(***************************************************************************)
(* The safety of the thread pool and of Executor::run over it, for any     *)
(* number of workers, callers, jobs and tiles; and that Executor::run      *)
(* keeps its promise: it refines ParallelRun.                              *)
(***************************************************************************)
EXTENDS Executor, FiniteSetTheorems, SequenceTheorems, TLAPS

Free == {"unborn", "loop", "asleep", "exited"}

(* The jobs of a batch that pending_ counts are finitely many.             *)
LEMMA UnfinishedFinite ==
  ASSUME TPTypeOK, NEW c \in Callers
  PROVE  /\ IsFiniteSet(Unfinished(c))
         /\ Cardinality(Unfinished(c)) \in Nat
<1>1. Counted(c) \in Int
  BY DEF TPTypeOK, Counted
<1>2. IsFiniteSet(1..Counted(c))
  BY <1>1, FS_Interval
<1>3. Unfinished(c) \in SUBSET (1..Counted(c))
  BY DEF Unfinished
<1>4. QED
  BY <1>2, <1>3, FS_Subset, FS_CardinalityType

(* Every queued job is a job.                                              *)
LEMMA QueuedIsJob ==
  ASSUME TPTypeOK, NEW i \in 1..Len(jobs)
  PROVE  jobs[i] \in Job
BY ElementOfSeq DEF TPTypeOK

(* Initially there is neither a batch nor a job.                           *)
LEMMA InitInv == TPInit => TPInv
<1> SUFFICES ASSUME TPInit PROVE TPInv
  OBVIOUS
<1>1. TPTypeOK
  <2>1. jobs \in Seq(Job)
    BY EmptySeq DEF TPInit
  <2> QED
    BY <2>1, PoolAssumption DEF TPInit, TPTypeOK, Submitting
<1>2. Len(jobs) = 0
  BY DEF TPInit
<1>3. \A c \in Callers : Unfinished(c) = {}
  BY DEF TPInit, Unfinished, Counted, Counting
<1>4. PendingInv
  BY <1>3, FS_EmptySet DEF TPInit, PendingInv
<1>5. LoopInv
  BY DEF TPInit, LoopInv, Submitting
<1>6. QueueInv /\ HoldInv /\ MutexInv /\ NoUseAfterReturn
  BY <1>2 DEF TPInit, QueueInv, HoldInv, MutexInv, NoUseAfterReturn, Holding, Queued
<1>7. LifeInv
  BY DEF TPInit, LifeInv
<1>8. JobInv
  BY DEF TPInit, JobInv, Job, Pushed
<1> QED
  BY <1>1, <1>4, <1>5, <1>6, <1>7, <1>8 DEF TPInv

(* Steps that only move workers about that hold no job, or advance the     *)
(* life of the pool while nobody submits.                                  *)
LEMMA QuietStep ==
  ASSUME TPInv, UNCHANGED <<jobs, wjob, batchVars>>,
         life' \in {"none", "up", "stopping", "joining", "down"},
         life' = life \/ \A c \in Callers : cpc[c] \notin Submitting,
         wpc' \in [Workers -> {"unborn", "loop", "asleep", "exited",
                               "run", "lock", "dec", "unlock"}],
         \A w \in Workers : wpc'[w] = wpc[w] \/ (wpc[w] \in Free /\ wpc'[w] \in Free),
         LifeInv'
  PROVE  TPInv'
<1> USE DEF TPInv, batchVars
<1>1. TPTypeOK'
  BY DEF TPTypeOK
<1>2. \A w \in Workers : (Holding(w)' <=> Holding(w)) /\ (Holding(w) => wpc'[w] = wpc[w])
  BY DEF Holding, Free, TPTypeOK
<1>3. \A c \in Callers : Unfinished(c)' = Unfinished(c)
  <2> SUFFICES ASSUME NEW c \in Callers PROVE Unfinished(c)' = Unfinished(c)
    OBVIOUS
  <2>1. Counted(c)' = Counted(c)
    BY DEF Counted
  <2>2. \A w \in Workers, t \in Nat : Owes(w, c, t)' <=> Owes(w, c, t)
    BY DEF Owes, Free
  <2>3. \A t \in 1..Counted(c) : t \in Nat
    BY DEF Counted, TPTypeOK
  <2> QED
    BY <2>1, <2>2, <2>3 DEF Unfinished
<1>4. PendingInv'
  BY <1>3 DEF PendingInv
<1>5. \A c \in Callers : Pushed(c)' = Pushed(c)
  BY DEF Pushed
<1>6. LoopInv'
  BY <1>5 DEF LoopInv
<1>7. QueueInv'
  BY <1>2, <1>5, QueuedIsJob DEF QueueInv, Job
<1>8. HoldInv'
  BY <1>2, <1>5 DEF HoldInv, Job, Holding
<1>9. MutexInv'
  BY DEF MutexInv, Free
<1>10. NoUseAfterReturn'
  BY <1>2 DEF NoUseAfterReturn, Queued
<1>11. JobInv'
  BY <1>5 DEF JobInv, Queued, Taken, Free, Job
<1> QED
  BY <1>1, <1>4, <1>6, <1>7, <1>8, <1>9, <1>10, <1>11

-----------------------------------------------------------------------------
(* The caller's steps.                                                     *)

(* A new batch finds neither queue nor workers knowing its caller.         *)
LEMMA BeginBatchStep ==
  ASSUME TPInv, NEW c \in Callers, NEW n \in 1..MaxJobs, BeginBatch(c, n)
  PROVE  TPInv'
<1> USE DEF TPInv, BeginBatch, poolVars
<1>1. TPTypeOK'
  BY PoolAssumption DEF TPTypeOK, Submitting
<1>2. \A w \in Workers : Holding(w)' <=> Holding(w)
  BY DEF Holding
<1>3. \A d \in Callers : d # c => Pushed(d)' = Pushed(d) /\ Counted(d)' = Counted(d)
  BY DEF Pushed, Counted, TPTypeOK
<1>4. \A w \in Workers : Holding(w) => wjob[w].batch # c
  BY DEF NoUseAfterReturn
<1>5. \A i \in 1..Len(jobs) : jobs[i].batch # c
  BY QueuedIsJob DEF NoUseAfterReturn, Queued
<1>6. \A d \in Callers : d # c => Unfinished(d)' = Unfinished(d)
  BY <1>3 DEF Unfinished, Owes, TPTypeOK
<1>7. Unfinished(c)' = {}
  BY DEF Unfinished, Counted, Counting, TPTypeOK
<1>8. PendingInv'
  BY <1>6, <1>7, FS_EmptySet DEF PendingInv, TPTypeOK
<1>9. LoopInv'
  BY <1>3 DEF LoopInv, Submitting, TPTypeOK
<1>10. QueueInv'
  <2>1. \A i \in 1..Len(jobs) : /\ jobs[i].batch \in Callers \ {c}
                                /\ Pushed(jobs[i].batch)' = Pushed(jobs[i].batch)
                                /\ ran'[jobs[i].batch] = ran[jobs[i].batch]
    BY <1>3, <1>5, QueuedIsJob DEF Job, TPTypeOK
  <2> QED
    BY <1>2, <2>1 DEF QueueInv
<1>11. HoldInv'
  BY <1>2, <1>3, <1>4 DEF HoldInv, Job, TPTypeOK
<1>12. MutexInv'
  BY <1>4 DEF MutexInv, Holding, TPTypeOK
<1>13. NoUseAfterReturn'
  BY <1>2 DEF NoUseAfterReturn, Queued, TPTypeOK
<1>14. LifeInv'
  BY DEF LifeInv, stop
<1>15. JobInv'
  <2>1. Pushed(c)' = 0
    BY DEF Pushed, TPTypeOK
  <2>2. \A j \in Job : j.batch \in Callers /\ j.task \in Nat \ {0}
    BY DEF Job
  <2>3. \A j \in Job : j.task <= Pushed(j.batch)' => j.batch # c
    BY <2>1, <2>2
  <2>4. \A d \in Callers : d # c => ran'[d] = ran[d]
    BY DEF TPTypeOK
  <2>5. \A j \in Job : (Queued(j)' <=> Queued(j)) /\ (Taken(j)' <=> Taken(j))
    BY DEF Queued, Taken
  <2> QED
    BY <1>3, <2>2, <2>3, <2>4, <2>5 DEF JobInv
<1> QED
  BY <1>1, <1>8, <1>9, <1>10, <1>11, <1>12, <1>13, <1>14, <1>15

(* ++pending_ adds the job next[c], which nobody has seen yet.             *)
LEMMA CountJobStep ==
  ASSUME TPInv, NEW c \in Callers, CountJob(c)
  PROVE  TPInv'
<1> USE DEF TPInv, CountJob, poolVars
<1>1. TPTypeOK'
  BY DEF TPTypeOK, Submitting
<1>2. \A w \in Workers : Holding(w)' <=> Holding(w)
  BY DEF Holding
<1>3. \A d \in Callers : Pushed(d)' = Pushed(d)
  BY DEF Pushed, TPTypeOK
<1>4. \A d \in Callers : d # c => Unfinished(d)' = Unfinished(d)
  BY DEF Unfinished, Owes, Counted, TPTypeOK
<1>5. Unfinished(c)' = Unfinished(c) \cup {next[c]} /\ next[c] \notin Unfinished(c)
  <2>1. Counted(c) = next[c] - 1 /\ Counted(c)' = next[c] /\ next[c] \in Nat \ {0}
    BY DEF Counted, Counting, TPTypeOK
  <2>2. next[c] \notin ran[c]
    <3>1. ran[c] \subseteq 1..(next[c] - 1)
      BY DEF LoopInv, Pushed
    <3> QED
      BY <2>1, <3>1
  <2> QED
    BY <2>1, <2>2 DEF Unfinished, Owes
<1>6. Cardinality(Unfinished(c)') = Cardinality(Unfinished(c)) + 1
  BY <1>5, UnfinishedFinite, FS_AddElement
<1>7. PendingInv'
  BY <1>4, <1>6 DEF PendingInv, TPTypeOK
<1>8. LoopInv'
  BY <1>3 DEF LoopInv, Submitting, TPTypeOK
<1>9. QueueInv'
  BY <1>2, <1>3, QueuedIsJob DEF QueueInv, Job
<1>10. HoldInv'
  BY <1>2, <1>3 DEF HoldInv, Job
<1>11. MutexInv'
  BY DEF MutexInv
<1>12. NoUseAfterReturn'
  BY <1>2 DEF NoUseAfterReturn, Queued, TPTypeOK
<1>13. LifeInv' /\ JobInv'
  BY <1>3 DEF LifeInv, stop, JobInv, Queued, Taken, Job
<1> QED
  BY <1>1, <1>7, <1>8, <1>9, <1>10, <1>11, <1>12, <1>13

(* The job pushed is new to the queue and to the workers.                  *)
LEMMA PushJobStep ==
  ASSUME TPInv, NEW c \in Callers, PushJob(c)
  PROVE  TPInv'
<1> USE DEF TPInv, PushJob
<1> DEFINE j == [batch |-> c, task |-> next[c]]
<1>1. j \in Job
  <2>1. next[c] <= count[c] /\ count[c] \in 0..MaxJobs /\ next[c] \in 1..(MaxJobs + 1)
    BY DEF TPTypeOK, LoopInv, Submitting
  <2> QED
    BY <2>1, PoolAssumption DEF Job
<1>2. /\ jobs' \in Seq(Job)
      /\ Len(jobs') = Len(jobs) + 1
      /\ \A i \in 1..Len(jobs) : jobs'[i] = jobs[i]
      /\ jobs'[Len(jobs) + 1] = j
      /\ Len(jobs) \in Nat
  BY <1>1, AppendProperties, LenProperties DEF TPTypeOK
<1>3. TPTypeOK'
  BY <1>2 DEF TPTypeOK, Submitting
<1>4. \A w \in Workers : Holding(w)' <=> Holding(w)
  BY DEF Holding
<1>5. /\ \A d \in Callers : d # c => Pushed(d)' = Pushed(d)
      /\ Pushed(c) = next[c] - 1 /\ Pushed(c)' = next[c]
      /\ next[c] \in Nat
  BY DEF Pushed, TPTypeOK
<1>6. \A d \in Callers : Unfinished(d)' = Unfinished(d)
  BY DEF Unfinished, Owes, Counted, Counting, TPTypeOK
<1>7. PendingInv'
  BY <1>6 DEF PendingInv, TPTypeOK
<1>8. LoopInv'
  BY <1>5 DEF LoopInv, Submitting, TPTypeOK
<1>9. \A i \in 1..Len(jobs) : jobs[i] # j
  BY <1>5 DEF QueueInv
<1>10. \A w \in Workers : Holding(w) => wjob[w] # j
  BY <1>5 DEF HoldInv
<1>11. QueueInv'
  <2>1. next[c] \notin ran[c]
    BY <1>5 DEF LoopInv
  <2>2. \A i \in 1..Len(jobs') :
          \/ i \in 1..Len(jobs) /\ jobs'[i] = jobs[i]
          \/ i = Len(jobs) + 1 /\ jobs'[i] = j
    BY <1>2
  <2>3. \A i \in 1..Len(jobs) : jobs[i].batch \in Callers /\ jobs[i].task \in Nat
    BY QueuedIsJob DEF Job
  <2>4. \A i \in 1..Len(jobs') : (jobs[i].task <= Pushed(jobs[i].batch))'
    BY <1>5, <2>2, <2>3 DEF QueueInv
  <2>5. \A i \in 1..Len(jobs') : (jobs[i].task \notin ran[jobs[i].batch])'
    BY <2>1, <2>2 DEF QueueInv
  <2>6. \A i, k \in 1..Len(jobs') : jobs'[i] = jobs'[k] => i = k
    BY <1>9, <2>2 DEF QueueInv
  <2>7. \A i \in 1..Len(jobs'), w \in Workers : (Holding(w) => wjob[w] # jobs[i])'
    BY <1>4, <1>10, <2>2 DEF QueueInv
  <2> QED
    BY <2>4, <2>5, <2>6, <2>7 DEF QueueInv
<1>12. HoldInv'
  <2>1. \A w \in Workers : Holding(w) => wjob[w].batch \in Callers /\ wjob[w].task \in Nat
    BY DEF HoldInv, Job
  <2> QED
    BY <1>4, <1>5, <2>1 DEF HoldInv
<1>13. MutexInv'
  BY DEF MutexInv
<1>14. NoUseAfterReturn'
  BY <1>2, <1>4 DEF NoUseAfterReturn, Queued, TPTypeOK
<1>15. LifeInv'
  BY DEF LifeInv, LoopInv, Submitting, stop
<1>16. JobInv'
  <2>1. \A k \in Job : Queued(k) \/ k = j => Queued(k)'
    BY <1>2 DEF Queued
  <2>2. \A k \in Job : Taken(k)' <=> Taken(k)
    BY DEF Taken
  <2>3. \A k \in Job : /\ k.batch \in Callers /\ k.task \in Nat
                       /\ k = [batch |-> k.batch, task |-> k.task]
    BY DEF Job
  <2>4. \A k \in Job : k # j /\ k.task <= Pushed(k.batch)' => k.task <= Pushed(k.batch)
    BY <1>5, <2>3
  <2> QED
    BY <2>1, <2>2, <2>4 DEF JobInv
<1> QED
  BY <1>3, <1>7, <1>8, <1>11, <1>12, <1>13, <1>14, <1>15, <1>16

(* The wake-up moves at most one idle worker; the caller steps to the next *)
(* job, or to wait().                                                      *)
LEMMA NotifyWorkerStep ==
  ASSUME TPInv, NEW c \in Callers, NotifyWorker(c)
  PROVE  TPInv'
<1> USE DEF TPInv, NotifyWorker
<1>1. /\ wpc' \in [Workers -> {"unborn", "loop", "asleep", "exited",
                               "run", "lock", "dec", "unlock"}]
      /\ \A w \in Workers : wpc'[w] = wpc[w] \/ (wpc[w] \in Free /\ wpc'[w] \in Free)
  BY DEF NotifyOne, TPTypeOK, Free
<1>2. next[c] <= count[c] /\ next[c] \in Nat /\ count[c] \in 0..MaxJobs /\ life = "up"
  BY DEF TPTypeOK, LoopInv, Submitting
<1>3. TPTypeOK'
  BY <1>1, <1>2, PoolAssumption DEF TPTypeOK, Submitting
<1>4. \A w \in Workers : (Holding(w)' <=> Holding(w)) /\ (Holding(w) => wpc'[w] = wpc[w])
  BY <1>1 DEF Holding, Free
<1>5. \A d \in Callers : Pushed(d)' = Pushed(d) /\ Counted(d)' = Counted(d)
  BY <1>2 DEF Pushed, Counted, Counting, TPTypeOK
<1>6. \A d \in Callers : Unfinished(d)' = Unfinished(d)
  <2>1. \A d \in Callers, w \in Workers, t \in Nat : Owes(w, d, t)' <=> Owes(w, d, t)
    BY <1>1 DEF Owes, Free
  <2>2. \A d \in Callers : \A t \in 1..Counted(d) : t \in Nat
    BY DEF Counted, TPTypeOK
  <2> QED
    BY <1>5, <2>1, <2>2 DEF Unfinished
<1>7. PendingInv'
  BY <1>6 DEF PendingInv, TPTypeOK
<1>8. LoopInv'
  BY <1>2, <1>5 DEF LoopInv, Submitting, TPTypeOK
<1>9. QueueInv'
  BY <1>4, <1>5, QueuedIsJob DEF QueueInv, Job
<1>10. HoldInv'
  BY <1>4, <1>5 DEF HoldInv, Job
<1>11. MutexInv'
  BY <1>1 DEF MutexInv, Free
<1>12. NoUseAfterReturn'
  BY <1>4 DEF NoUseAfterReturn, Queued, TPTypeOK
<1>13. LifeInv'
  BY <1>1, <1>2 DEF LifeInv, stop, NotifyOne, TPTypeOK
<1>14. JobInv'
  BY <1>1, <1>5 DEF JobInv, Queued, Taken, Free, Job
<1> QED
  BY <1>3, <1>7, <1>8, <1>9, <1>10, <1>11, <1>12, <1>13, <1>14

(* pending_ = 0 after the last submit: no job of the batch is unfinished,  *)
(* so every one of them has run.                                           *)
LEMMA AllHaveRun ==
  ASSUME TPInv, NEW c \in Callers, cpc[c] \notin Submitting, pending[c] = 0
  PROVE  /\ ran[c] = 1..count[c]
         /\ Pushed(c) = count[c] /\ count[c] \in Nat
         /\ \A t \in 1..count[c], w \in Workers : ~Owes(w, c, t)
<1> USE DEF TPInv
<1>1. Unfinished(c) = {}
  BY UnfinishedFinite, FS_EmptySet DEF PendingInv
<1>2. Counted(c) = count[c] /\ Pushed(c) = count[c] /\ count[c] \in Nat
  BY DEF LoopInv, Counted, Pushed, Counting, Submitting, TPTypeOK
<1>3. \A t \in 1..count[c] : t \in ran[c] /\ \A w \in Workers : ~Owes(w, c, t)
  BY <1>1, <1>2 DEF Unfinished
<1>4. ran[c] = 1..count[c]
  BY <1>2, <1>3 DEF LoopInv
<1> QED
  BY <1>2, <1>3, <1>4

(* With the mutex free besides, none is queued and no worker holds one.    *)
LEMMA NothingPending ==
  ASSUME TPInv, NEW c \in Callers, cpc[c] \notin Submitting,
         bmutex[c] = NoOne, pending[c] = 0
  PROVE  /\ \A i \in 1..Len(jobs) : jobs[i].batch # c
         /\ \A w \in Workers : Holding(w) => wjob[w].batch # c
<1> USE DEF TPInv
<1>2. Pushed(c) = count[c] /\ count[c] \in Nat
  BY AllHaveRun
<1>3. \A t \in 1..count[c] : t \in ran[c] /\ \A w \in Workers : ~Owes(w, c, t)
  BY AllHaveRun
<1>4. ran[c] = 1..count[c]
  BY AllHaveRun
<1>5. \A i \in 1..Len(jobs) : jobs[i].batch # c
  BY <1>2, <1>4, QueuedIsJob DEF QueueInv, Job
<1>6. ASSUME NEW w \in Workers, Holding(w), wjob[w].batch = c
      PROVE  FALSE
  <2>1. wjob[w] = [batch |-> c, task |-> wjob[w].task] /\ wjob[w].task \in 1..count[c]
    BY <1>2, <1>6 DEF HoldInv, Job
  <2>2. wpc[w] # "run"
    BY <1>3, <1>6, <2>1 DEF HoldInv
  <2>3. wpc[w] \notin {"lock", "dec"}
    BY <1>3, <2>1 DEF Owes
  <2>4. wpc[w] # "unlock"
    BY <1>6, PoolAssumption DEF MutexInv
  <2> QED
    BY <1>6, <2>2, <2>3, <2>4 DEF Holding
<1> QED
  BY <1>5, <1>6

(* Steps that move the caller among wait, blocked and idle.                *)
LEMMA WaitStep ==
  ASSUME TPInv, NEW c \in Callers, NEW pc \in {"wait", "blocked", "idle"},
         cpc[c] \in {"wait", "blocked"},
         cpc' = [cpc EXCEPT ![c] = pc],
         UNCHANGED <<poolVars, count, next, pending, bmutex, ran>>,
         pc = "idle" => bmutex[c] = NoOne /\ pending[c] = 0
  PROVE  TPInv'
<1> USE DEF TPInv, poolVars
<1>1. TPTypeOK'
  BY DEF TPTypeOK, Submitting
<1>2. \A w \in Workers : Holding(w)' <=> Holding(w)
  BY DEF Holding
<1>3. \A d \in Callers : Pushed(d)' = Pushed(d) /\ Counted(d)' = Counted(d)
  BY DEF Pushed, Counted, Counting, TPTypeOK
<1>4. \A d \in Callers : Unfinished(d)' = Unfinished(d)
  BY <1>3 DEF Unfinished, Owes
<1>5. PendingInv'
  BY <1>4 DEF PendingInv, TPTypeOK
<1>6. LoopInv'
  BY <1>3 DEF LoopInv, Submitting, TPTypeOK
<1>7. QueueInv'
  BY <1>2, <1>3, QueuedIsJob DEF QueueInv, Job
<1>8. HoldInv'
  BY <1>2, <1>3 DEF HoldInv, Job
<1>9. MutexInv'
  BY DEF MutexInv
<1>10. NoUseAfterReturn'
  <2>1. CASE pc = "idle"
    <3>1. /\ \A i \in 1..Len(jobs) : jobs[i].batch # c
          /\ \A w \in Workers : Holding(w) => wjob[w].batch # c
      BY <2>1, NothingPending DEF Submitting
    <3> QED
      BY <1>2, <3>1 DEF NoUseAfterReturn, Queued, TPTypeOK
  <2>2. CASE pc # "idle"
    BY <1>2, <2>2 DEF NoUseAfterReturn, Queued, TPTypeOK
  <2> QED
    BY <2>1, <2>2
<1>11. LifeInv' /\ JobInv'
  BY <1>3 DEF LifeInv, stop, JobInv, Queued, Taken, Job
<1> QED
  BY <1>1, <1>5, <1>6, <1>7, <1>8, <1>9, <1>10, <1>11

-----------------------------------------------------------------------------
(* The worker's steps.                                                     *)

(* Only a worker inside the wrapper's critical section holds a batch mutex. *)
LEMMA HolderInside ==
  ASSUME MutexInv, NEW w \in Workers, wpc[w] \notin {"dec", "unlock"}
  PROVE  \A c \in Callers : bmutex[c] # w
<1>1. w # NoOne
  BY PoolAssumption
<1> QED
  BY <1>1 DEF MutexInv

(* The head of the queue moves, with all it is known of, to the worker.    *)
LEMMA WorkerTakeStep ==
  ASSUME TPInv, NEW w \in Workers, WorkerTake(w)
  PROVE  TPInv'
<1> USE DEF TPInv, WorkerTake
<1>1. /\ jobs' \in Seq(Job)
      /\ Len(jobs) \in Nat \ {0} /\ Len(jobs') = Len(jobs) - 1
      /\ \A i \in 1..Len(jobs') : jobs'[i] = jobs[i + 1]
      /\ wjob'[w] = jobs[1] /\ jobs[1] \in Job
  <2>1. jobs \in Seq(Job) /\ jobs # << >>
    BY DEF TPTypeOK
  <2>2. Len(jobs) \in Nat \ {0}
    BY <2>1, EmptySeq, LenProperties
  <2>3. Head(jobs) = jobs[1]
    BY <2>1
  <2>4. jobs[1] \in Job
    BY <2>2, QueuedIsJob
  <2> QED
    BY <2>1, <2>2, <2>3, <2>4, HeadTailProperties DEF TPTypeOK
<1>2. TPTypeOK'
  BY <1>1 DEF TPTypeOK, batchVars
<1>3. \A v \in Workers : v # w => (Holding(v)' <=> Holding(v)) /\ wjob'[v] = wjob[v] /\ wpc'[v] = wpc[v]
  BY DEF Holding, TPTypeOK
<1>4. ~Holding(w) /\ Holding(w)' /\ wpc'[w] = "run"
  BY DEF Holding, TPTypeOK
<1>5. \A d \in Callers : Pushed(d)' = Pushed(d) /\ Counted(d)' = Counted(d)
  BY DEF Pushed, Counted, batchVars
<1>6. \A d \in Callers, v \in Workers, t \in Nat : Owes(v, d, t)' <=> Owes(v, d, t)
  BY <1>3 DEF Owes, TPTypeOK
<1>7. \A d \in Callers : \A t \in 1..Counted(d) : t \in Nat
  BY DEF Counted, TPTypeOK
<1>8. \A d \in Callers : Unfinished(d)' = Unfinished(d)
  BY <1>5, <1>6, <1>7 DEF Unfinished, batchVars
<1>9. PendingInv'
  BY <1>8 DEF PendingInv, batchVars
<1>10. LoopInv'
  BY <1>5 DEF LoopInv, batchVars
<1>11. \A i \in 1..Len(jobs') : /\ i + 1 \in 1..Len(jobs)
                                /\ jobs'[i] = jobs[i + 1] /\ jobs'[i] # jobs[1]
                                /\ jobs'[i].batch \in Callers
  BY <1>1, QueuedIsJob DEF QueueInv, Job
<1>12. QueueInv'
  <2>1. \A i \in 1..Len(jobs') : (jobs[i].task <= Pushed(jobs[i].batch))'
    BY <1>5, <1>11 DEF QueueInv
  <2>2. \A i \in 1..Len(jobs') : (jobs[i].task \notin ran[jobs[i].batch])'
    BY <1>11 DEF QueueInv, batchVars
  <2>3. \A i, k \in 1..Len(jobs') : jobs'[i] = jobs'[k] => i = k
    BY <1>11 DEF QueueInv
  <2>4. \A i \in 1..Len(jobs'), v \in Workers : (Holding(v) => wjob[v] # jobs[i])'
    BY <1>1, <1>3, <1>11 DEF QueueInv
  <2> QED
    BY <2>1, <2>2, <2>3, <2>4 DEF QueueInv
<1>13. HoldInv'
  <2>1. 1 \in 1..Len(jobs)
    BY <1>1
  <2>2. /\ jobs[1].task <= Pushed(jobs[1].batch)
        /\ jobs[1].task \notin ran[jobs[1].batch]
        /\ \A v \in Workers : Holding(v) => wjob[v] # jobs[1]
        /\ jobs[1].batch \in Callers
    BY <1>1, <2>1 DEF QueueInv, Job
  <2>3. \A v \in Workers \ {w} : Holding(v) => wjob[v].batch \in Callers
    BY DEF HoldInv, Job
  <2> QED
    BY <1>1, <1>3, <1>4, <1>5, <2>2, <2>3 DEF HoldInv, batchVars
<1>14. MutexInv'
  <2>1. \A c \in Callers : bmutex[c] # w
    BY HolderInside
  <2> QED
    BY <1>3, <1>4, <2>1 DEF MutexInv, batchVars
<1>15. NoUseAfterReturn'
  <2>1. 1 \in 1..Len(jobs)
    BY <1>1
  <2>2. \A c \in Callers : cpc[c] = "idle" => jobs[1].batch # c
    BY <1>1, <2>1 DEF NoUseAfterReturn, Queued
  <2>3. \A j \in Job : Queued(j)' => Queued(j)
    BY <1>11 DEF Queued
  <2> QED
    BY <1>1, <1>3, <1>4, <2>2, <2>3 DEF NoUseAfterReturn, batchVars
<1>16. LifeInv'
  BY DEF LifeInv, stop, TPTypeOK
<1>17. JobInv'
  <2>1. \A j \in Job : Queued(j) => Queued(j)' \/ j = jobs[1]
    <3> SUFFICES ASSUME NEW j \in Job, NEW i \in 1..Len(jobs), jobs[i] = j, j # jobs[1]
                 PROVE  Queued(j)'
      BY DEF Queued
    <3>1. i - 1 \in 1..Len(jobs') /\ jobs'[i - 1] = j
      BY <1>1
    <3> QED
      BY <3>1 DEF Queued
  <2>2. \A j \in Job : Taken(j) \/ j = jobs[1] => Taken(j)'
    BY <1>1, <1>3, <1>4 DEF Taken, TPTypeOK
  <2> QED
    BY <1>5, <2>1, <2>2 DEF JobInv, Job, batchVars
<1> QED
  BY <1>2, <1>9, <1>10, <1>12, <1>13, <1>14, <1>15, <1>16, <1>17

(* The body returns: the job is in ran, and its worker owes a decrement.   *)
LEMMA RunJobStep ==
  ASSUME TPInv, NEW w \in Workers, RunJob(w)
  PROVE  TPInv'
<1> USE DEF TPInv, RunJob
<1> DEFINE b == wjob[w].batch
           s == wjob[w].task
<1>1. /\ Holding(w) /\ wjob[w] \in Job
      /\ b \in Callers /\ s \in 1..MaxJobs /\ s <= Pushed(b) /\ s \notin ran[b]
      /\ wjob[w] = [batch |-> b, task |-> s]
  BY DEF Holding, HoldInv, Job
<1>2. TPTypeOK'
  BY <1>1 DEF TPTypeOK
<1>3. \A v \in Workers : Holding(v)' <=> Holding(v)
  BY DEF Holding, TPTypeOK
<1>4. \A d \in Callers : /\ Pushed(d)' = Pushed(d) /\ Counted(d)' = Counted(d)
                         /\ Pushed(d) \in Nat /\ Counted(d) \in Nat
                         /\ Pushed(d) <= Counted(d)
  BY DEF Pushed, Counted, Counting, TPTypeOK
<1>5. \A d \in Callers : d # b => ran'[d] = ran[d]
  BY <1>1 DEF TPTypeOK
<1>6. ran'[b] = ran[b] \cup {s}
  BY <1>1 DEF TPTypeOK
<1>7. \A d \in Callers : Unfinished(d)' = Unfinished(d)
  <2>1. \A v \in Workers \ {w}, d \in Callers, t \in Nat : Owes(v, d, t)' <=> Owes(v, d, t)
    BY DEF Owes, TPTypeOK
  <2>2. \A d \in Callers, t \in Nat : ~Owes(w, d, t)
    BY DEF Owes
  <2>3. \A d \in Callers, t \in Nat : Owes(w, d, t)' <=> d = b /\ t = s
    BY <1>1 DEF Owes, TPTypeOK
  <2>4. \A d \in Callers : \A t \in 1..Counted(d) : t \in Nat
    BY <1>4
  <2>5. \A d \in Callers : d # b => Unfinished(d)' = Unfinished(d)
    BY <1>4, <1>5, <2>1, <2>2, <2>3, <2>4 DEF Unfinished
  <2>6. s \in Unfinished(b) /\ s \in Unfinished(b)'
    BY <1>1, <1>4, <2>3 DEF Unfinished
  <2>7. \A t \in 1..Counted(b) : t # s => (t \in Unfinished(b)' <=> t \in Unfinished(b))
    BY <1>1, <1>4, <1>6, <2>1, <2>2, <2>3 DEF Unfinished
  <2>8. Unfinished(b)' = Unfinished(b)
    BY <1>1, <1>4, <2>6, <2>7 DEF Unfinished
  <2> QED
    BY <2>5, <2>8
<1>8. PendingInv'
  BY <1>7 DEF PendingInv
<1>9. LoopInv'
  BY <1>1, <1>4, <1>5, <1>6 DEF LoopInv
<1>10. QueueInv'
  <2>1. \A i \in 1..Len(jobs) :
          /\ jobs[i] # wjob[w] /\ jobs[i].batch \in Callers
          /\ jobs[i] = [batch |-> jobs[i].batch, task |-> jobs[i].task]
    BY <1>1, QueuedIsJob DEF QueueInv, Job
  <2>2. \A i \in 1..Len(jobs) : jobs[i].task \notin ran'[jobs[i].batch]
    BY <1>1, <1>5, <1>6, <2>1 DEF QueueInv
  <2> QED
    BY <1>3, <1>4, <2>1, <2>2 DEF QueueInv
<1>11. HoldInv'
  <2>1. \A v \in Workers : v # w /\ Holding(v) =>
          /\ wjob[v] # wjob[w] /\ wjob[v].batch \in Callers
          /\ wjob[v] = [batch |-> wjob[v].batch, task |-> wjob[v].task]
          /\ wpc'[v] = wpc[v]
    BY <1>1 DEF HoldInv, Job, TPTypeOK
  <2>2. \A v \in Workers : v # w /\ Holding(v) =>
          (wjob[v].task \in ran'[wjob[v].batch] <=> wjob[v].task \in ran[wjob[v].batch])
    BY <1>1, <1>5, <1>6, <2>1
  <2>3. wpc'[w] = "lock" /\ s \in ran'[b]
    BY <1>6 DEF TPTypeOK
  <2> QED
    BY <1>1, <1>3, <1>4, <2>1, <2>2, <2>3, ZenonT(30) DEF HoldInv
<1>12. MutexInv'
  <2>1. \A c \in Callers : bmutex[c] # w
    BY HolderInside
  <2> QED
    BY <2>1 DEF MutexInv, TPTypeOK
<1>13. NoUseAfterReturn'
  BY <1>3 DEF NoUseAfterReturn, Queued
<1>14. LifeInv'
  BY DEF LifeInv, stop, TPTypeOK
<1>15. JobInv'
  <2>1. \A j \in Job : Queued(j) => Queued(j)'
    BY DEF Queued
  <2>2. \A j \in Job : Taken(j) => Taken(j)' \/ j = wjob[w]
    BY DEF Taken, TPTypeOK
  <2>3. \A j \in Job : j.task \notin ran'[j.batch] => j # wjob[w] /\ j.task \notin ran[j.batch]
    BY <1>1, <1>5, <1>6 DEF Job
  <2> QED
    BY <1>4, <2>1, <2>2, <2>3 DEF JobInv, Job
<1> QED
  BY <1>2, <1>8, <1>9, <1>10, <1>11, <1>12, <1>13, <1>14, <1>15

(* What a worker holding a job knows of it.                                *)
LEMMA HeldJob ==
  ASSUME TPInv, NEW w \in Workers, Holding(w)
  PROVE  /\ wjob[w] \in Job
         /\ wjob[w].batch \in Callers
         /\ wjob[w].task \in 1..MaxJobs
         /\ wjob[w].task \in 1..Pushed(wjob[w].batch)
         /\ wjob[w] = [batch |-> wjob[w].batch, task |-> wjob[w].task]
         /\ cpc[wjob[w].batch] # "idle"
BY DEF TPInv, HoldInv, Job, NoUseAfterReturn, TPTypeOK, Pushed

(* Steps of a worker inside the critical section keep what does not depend *)
(* on the mutex or on pending_.                                            *)
LEMMA CriticalStep ==
  ASSUME TPInv, NEW w \in Workers, NEW pc \in {"dec", "unlock"},
         wpc[w] \in {"lock", "dec"}, wpc' = [wpc EXCEPT ![w] = pc],
         UNCHANGED <<life, jobs, wjob, count, next, ran>>,
         cpc' = cpc \/ \E c \in Callers :
           cpc[c] = "blocked" /\ cpc' = [cpc EXCEPT ![c] = "wait"]
  PROVE  /\ LoopInv' /\ QueueInv' /\ HoldInv' /\ NoUseAfterReturn'
         /\ LifeInv' /\ JobInv'
<1> USE DEF TPInv
<1>1. /\ cpc' \in [Callers -> Submitting \cup {"idle", "wait", "blocked"}]
      /\ \A c \in Callers : \/ cpc'[c] = cpc[c]
                            \/ cpc[c] = "blocked" /\ cpc'[c] = "wait"
  BY DEF TPTypeOK
<1>2. \A v \in Workers : (Holding(v)' <=> Holding(v)) /\ (wpc'[v] = "run" <=> wpc[v] = "run")
  BY DEF Holding, TPTypeOK
<1>3. \A c \in Callers : Pushed(c)' = Pushed(c)
  BY <1>1 DEF Pushed
<1>4. LoopInv'
  BY <1>1, <1>3 DEF LoopInv, Submitting
<1>5. QueueInv'
  BY <1>2, <1>3, QueuedIsJob DEF QueueInv, Job
<1>6. HoldInv'
  BY <1>2, <1>3 DEF HoldInv, Job
<1>7. NoUseAfterReturn'
  BY <1>1, <1>2 DEF NoUseAfterReturn, Queued
<1>8. LifeInv'
  BY DEF LifeInv, stop, TPTypeOK
<1>9. JobInv'
  BY <1>2, <1>3 DEF JobInv, Queued, Taken, Job
<1> QED
  BY <1>4, <1>5, <1>6, <1>7, <1>8, <1>9

(* The worker takes a free mutex.                                          *)
LEMMA LockBatchStep ==
  ASSUME TPInv, NEW w \in Workers, LockBatch(w)
  PROVE  TPInv'
<1> USE DEF TPInv, LockBatch
<1> DEFINE b == wjob[w].batch
<1>1. b \in Callers
  BY HeldJob DEF Holding
<1>2. TPTypeOK'
  BY DEF TPTypeOK
<1>3. /\ LoopInv' /\ QueueInv' /\ HoldInv' /\ NoUseAfterReturn'
      /\ LifeInv' /\ JobInv'
  BY CriticalStep
<1>4. \A d \in Callers, v \in Workers, t \in Nat : Owes(v, d, t)' <=> Owes(v, d, t)
  BY DEF Owes, TPTypeOK
<1>5. \A d \in Callers : Counted(d)' = Counted(d) /\ \A t \in 1..Counted(d) : t \in Nat
  BY DEF Counted, TPTypeOK
<1>6. \A d \in Callers : Unfinished(d)' = Unfinished(d)
  BY <1>4, <1>5 DEF Unfinished
<1>7. PendingInv'
  BY <1>6 DEF PendingInv
<1>8. MutexInv'
  <2>1. \A v \in Workers : wpc[v] \in {"dec", "unlock"} => wjob[v].batch # b
    BY PoolAssumption DEF MutexInv
  <2>2. \A v \in Workers : v # w => wpc'[v] = wpc[v]
    BY DEF TPTypeOK
  <2>3. wpc'[w] = "dec"
    BY DEF TPTypeOK
  <2>4. bmutex'[b] = w /\ \A c \in Callers : c # b => bmutex'[c] = bmutex[c]
    BY <1>1 DEF TPTypeOK
  <2>5. \A v \in Workers : wpc[v] \in {"dec", "unlock"} => wjob[v].batch \in Callers
    BY HeldJob DEF Holding
  <2>6. \A v \in Workers : wpc'[v] \in {"dec", "unlock"} => bmutex'[wjob[v].batch] = v
    BY <2>1, <2>2, <2>4, <2>5 DEF MutexInv
  <2>7. \A c \in Callers : bmutex[c] # w
    BY HolderInside
  <2>8. ASSUME NEW c \in Callers, bmutex'[c] # NoOne
        PROVE  /\ bmutex'[c] \in Workers
               /\ wpc'[bmutex'[c]] \in {"dec", "unlock"}
               /\ wjob[bmutex'[c]].batch = c
    BY <2>2, <2>3, <2>4, <2>7, <2>8 DEF MutexInv
  <2> QED
    BY <2>6, <2>8 DEF MutexInv
<1> QED
  BY <1>2, <1>3, <1>7, <1>8

(* --pending_ takes exactly the worker's own job off the unfinished ones.  *)
LEMMA DecrementStep ==
  ASSUME TPInv, NEW w \in Workers, Decrement(w)
  PROVE  TPInv'
<1> USE DEF TPInv
<1> DEFINE b == wjob[w].batch
           s == wjob[w].task
<1>1. /\ b \in Callers /\ wjob[w] = [batch |-> b, task |-> s]
      /\ s \in 1..Pushed(b) /\ cpc[b] # "idle"
  BY HeldJob DEF Holding, Decrement
<1>2. /\ wpc[w] = "dec" /\ wpc' = [wpc EXCEPT ![w] = "unlock"]
      /\ pending' = [pending EXCEPT ![b] = @ - 1]
      /\ UNCHANGED <<life, jobs, wjob, count, next, bmutex, ran>>
      /\ \/ cpc' = cpc
         \/ cpc[b] = "blocked" /\ cpc' = [cpc EXCEPT ![b] = "wait"]
  BY <1>1 DEF Decrement, TPTypeOK
<1>3. /\ LoopInv' /\ QueueInv' /\ HoldInv' /\ NoUseAfterReturn'
      /\ LifeInv' /\ JobInv'
  BY <1>1, <1>2, CriticalStep
<1>4. \A d \in Callers : /\ Counted(d)' = Counted(d) /\ Counted(d) \in Nat
                         /\ Pushed(d) \in Nat /\ Pushed(d) <= Counted(d)
  BY <1>2, SMTT(30) DEF Counted, Pushed, Counting, TPTypeOK
<1>5. \A v \in Workers \ {w}, d \in Callers, t \in Nat : Owes(v, d, t)' <=> Owes(v, d, t)
  BY <1>2 DEF Owes, TPTypeOK
<1>6. /\ \A d \in Callers, t \in Nat : Owes(w, d, t) <=> d = b /\ t = s
      /\ \A d \in Callers, t \in Nat : ~Owes(w, d, t)'
  BY <1>1, <1>2 DEF Owes, TPTypeOK
<1>7. s \in ran[b]
  BY <1>2 DEF HoldInv, Holding
<1>8. \A v \in Workers : v # w => ~Owes(v, b, s)
  BY <1>1, <1>2 DEF Owes, HoldInv, Holding
<1>9. \A d \in Callers : d # b => Unfinished(d)' = Unfinished(d)
  <2>1. \A d \in Callers : \A t \in 1..Counted(d) : t \in Nat
    BY <1>4
  <2> QED
    BY <1>2, <1>4, <1>5, <1>6, <2>1 DEF Unfinished
<1>10. s \in Unfinished(b) /\ s \in Nat
  BY <1>1, <1>4, <1>6 DEF Unfinished
<1>11. Unfinished(b)' = Unfinished(b) \ {s}
  <2>1. \A v \in Workers : ~Owes(v, b, s)'
    BY <1>1, <1>2, <1>5, <1>6, <1>8, <1>10
  <2>2. s \notin Unfinished(b)'
    BY <1>2, <1>7, <2>1 DEF Unfinished
  <2>3. \A t \in 1..Counted(b) : t # s => (t \in Unfinished(b)' <=> t \in Unfinished(b))
    BY <1>1, <1>2, <1>4, <1>5, <1>6 DEF Unfinished
  <2>4. Unfinished(b) \subseteq 1..Counted(b) /\ Unfinished(b)' \subseteq 1..Counted(b)
    BY <1>1, <1>2, <1>4 DEF Unfinished
  <2> QED
    BY <1>2, <2>2, <2>3, <2>4
<1>12. /\ Cardinality(Unfinished(b)') = Cardinality(Unfinished(b)) - 1
       /\ Cardinality(Unfinished(b)) \in Nat
       /\ Cardinality(Unfinished(b)') \in Nat
  <2>1. IsFiniteSet(Unfinished(b)) /\ Cardinality(Unfinished(b)) \in Nat
    BY <1>1, UnfinishedFinite
  <2>2. IsFiniteSet(Unfinished(b) \ {s})
    BY <2>1, FS_RemoveElement
  <2> QED
    BY <1>10, <1>11, <2>1, <2>2, FS_RemoveElement, FS_CardinalityType
<1>13. TPTypeOK'
  <2>1. pending' \in [Callers -> Nat]
    BY <1>1, <1>2, <1>12 DEF PendingInv, TPTypeOK
  <2>2. cpc' \in [Callers -> Submitting \cup {"idle", "wait", "blocked"}]
    BY <1>2 DEF TPTypeOK
  <2> QED
    BY <1>2, <2>1, <2>2 DEF TPTypeOK
<1>14. PendingInv'
  BY <1>1, <1>2, <1>9, <1>12 DEF PendingInv, TPTypeOK
<1>15. MutexInv'
  BY <1>2 DEF MutexInv, TPTypeOK
<1> QED
  BY <1>3, <1>13, <1>14, <1>15

(* The worker lets the mutex go, and with it the batch.                    *)
LEMMA UnlockBatchStep ==
  ASSUME TPInv, NEW w \in Workers, UnlockBatch(w)
  PROVE  TPInv'
<1> USE DEF TPInv, UnlockBatch
<1> DEFINE b == wjob[w].batch
<1>1. b \in Callers
  BY HeldJob DEF Holding
<1>2. TPTypeOK'
  BY DEF TPTypeOK
<1>3. \A v \in Workers : v # w =>
        /\ Holding(v)' <=> Holding(v)
        /\ wjob'[v] = wjob[v] /\ wpc'[v] = wpc[v]
  BY DEF Holding, TPTypeOK
<1>4. ~Holding(w)' /\ wpc'[w] = "loop"
  BY DEF Holding, TPTypeOK
<1>5. \A d \in Callers : Pushed(d)' = Pushed(d) /\ Counted(d)' = Counted(d)
  BY DEF Pushed, Counted
<1>6. \A d \in Callers, v \in Workers, t \in Nat : Owes(v, d, t)' <=> Owes(v, d, t)
  BY <1>3, <1>4 DEF Owes
<1>7. \A d \in Callers : \A t \in 1..Counted(d) : t \in Nat
  BY DEF Counted, TPTypeOK
<1>8. \A d \in Callers : Unfinished(d)' = Unfinished(d)
  BY <1>5, <1>6, <1>7 DEF Unfinished
<1>9. PendingInv'
  BY <1>8 DEF PendingInv
<1>10. LoopInv'
  BY <1>5 DEF LoopInv
<1>11. QueueInv'
  BY <1>3, <1>4, <1>5, QueuedIsJob DEF QueueInv, Job
<1>12. HoldInv'
  BY <1>3, <1>4, <1>5 DEF HoldInv, Job
<1>13. MutexInv'
  <2>1. bmutex[b] = w
    BY DEF MutexInv
  <2>2. bmutex'[b] = NoOne /\ \A c \in Callers : c # b => bmutex'[c] = bmutex[c]
    BY <1>1 DEF TPTypeOK
  <2>3. \A v \in Workers : v # w /\ wpc[v] \in {"dec", "unlock"} =>
          wjob[v].batch # b /\ wjob[v].batch \in Callers
    BY <2>1, HeldJob DEF MutexInv, Holding
  <2>4. \A v \in Workers : wpc'[v] \in {"dec", "unlock"} => bmutex'[wjob'[v].batch] = v
    BY <1>3, <1>4, <2>2, <2>3 DEF MutexInv
  <2>5. ASSUME NEW c \in Callers, bmutex'[c] # NoOne
        PROVE  /\ bmutex'[c] \in Workers
               /\ wpc'[bmutex'[c]] \in {"dec", "unlock"}
               /\ wjob'[bmutex'[c]].batch = c
    <3>1. c # b /\ bmutex'[c] = bmutex[c]
      BY <2>2, <2>5
    <3>2. bmutex[c] \in Workers /\ wjob[bmutex[c]].batch = c /\ bmutex[c] # w
      BY <2>5, <3>1 DEF MutexInv
    <3> QED
      BY <1>3, <2>5, <3>1, <3>2 DEF MutexInv
  <2> QED
    BY <2>4, <2>5 DEF MutexInv
<1>14. NoUseAfterReturn'
  BY <1>3, <1>4 DEF NoUseAfterReturn, Queued
<1>15. LifeInv'
  BY <1>3, <1>4 DEF LifeInv, stop, TPTypeOK
<1>16. JobInv'
  BY <1>3, <1>4, <1>5 DEF JobInv, Queued, Taken, Job
<1> QED
  BY <1>2, <1>9, <1>10, <1>11, <1>12, <1>13, <1>14, <1>15, <1>16

-----------------------------------------------------------------------------
(* Every step of the pool preserves the invariant.                         *)

LEMMA PoolStepInv == TPInv /\ (PoolStep \/ Quiesced) => TPInv'
<1> SUFFICES ASSUME TPInv, PoolStep \/ Quiesced PROVE TPInv'
  OBVIOUS
<1> USE QuietStep DEF Free
<1>1. TPTypeOK /\ LifeInv
  BY DEF TPInv
<1>2. ASSUME NEW W \in SUBSET Workers, Construct(W) PROVE TPInv'
  <2>1. \A c \in Callers : cpc[c] \notin Submitting
    BY <1>2 DEF TPInv, LoopInv, Construct
  <2>2. \A w \in Workers : wpc[w] = "unborn"
    BY <1>1, <1>2 DEF Construct, LifeInv
  <2>3. LifeInv'
    BY <1>2, <2>2 DEF Construct, LifeInv, stop
  <2> QED
    BY <1>1, <1>2, <2>1, <2>2, <2>3 DEF Construct, TPTypeOK
<1>3. CASE Shutdown
  <2>1. LifeInv'
    BY <1>1, <1>3 DEF Shutdown, LifeInv, stop
  <2> QED
    BY <1>1, <1>3, <2>1 DEF Shutdown, TPTypeOK
<1>4. CASE NotifyStop
  <2>1. \A c \in Callers : cpc[c] \notin Submitting
    BY <1>4 DEF TPInv, LoopInv, NotifyStop
  <2>2. LifeInv'
    BY <1>1, <1>4 DEF NotifyStop, LifeInv, stop
  <2> QED
    BY <1>1, <1>4, <2>1, <2>2 DEF NotifyStop, TPTypeOK
<1>5. CASE Join
  <2>1. \A c \in Callers : cpc[c] \notin Submitting
    BY <1>5 DEF TPInv, LoopInv, Join
  <2>2. LifeInv'
    BY <1>1, <1>5 DEF Join, LifeInv, stop
  <2> QED
    BY <1>1, <1>5, <2>1, <2>2 DEF Join, TPTypeOK
<1>6. CASE Quiesced
  BY <1>1, <1>6 DEF Quiesced, tpVars, batchVars, TPTypeOK, LifeInv, stop
<1> QED
  BY <1>2, <1>3, <1>4, <1>5, <1>6 DEF PoolStep

LEMMA CallerStepInv ==
  ASSUME TPInv, NEW c \in Callers, CallerStep(c) \/ WaitReturn(c)
  PROVE  TPInv'
<1>1. CASE WaitReturn(c)
  BY <1>1, WaitStep DEF WaitReturn
<1>2. CASE WaitBlock(c)
  BY <1>2, WaitStep DEF WaitBlock
<1>3. CASE SpuriousDone(c)
  BY <1>3, WaitStep DEF SpuriousDone
<1> QED
  BY <1>1, <1>2, <1>3, CountJobStep, PushJobStep, NotifyWorkerStep DEF CallerStep

LEMMA WorkerStepInv ==
  ASSUME TPInv, NEW w \in Workers, WorkerStep(w) \/ RunJob(w)
  PROVE  TPInv'
<1> USE QuietStep DEF Free
<1>1. TPTypeOK /\ LifeInv
  BY DEF TPInv
<1>2. CASE WorkerSleep(w)
  BY <1>1, <1>2 DEF WorkerSleep, TPTypeOK, LifeInv, stop
<1>3. CASE SpuriousReady(w)
  BY <1>1, <1>3 DEF SpuriousReady, TPTypeOK, LifeInv, stop
<1>4. CASE WorkerExit(w)
  BY <1>1, <1>4 DEF WorkerExit, TPTypeOK, LifeInv, stop
<1> QED
  BY <1>2, <1>3, <1>4, WorkerTakeStep, RunJobStep, LockBatchStep, DecrementStep,
     UnlockBatchStep DEF WorkerStep

LEMMA TPStepInv == TPInv /\ [TPNext]_tpVars => TPInv'
<1> SUFFICES ASSUME TPInv, [TPNext]_tpVars PROVE TPInv'
  OBVIOUS
<1>1. CASE UNCHANGED tpVars
  BY <1>1, QuietStep DEF tpVars, batchVars, TPInv, TPTypeOK, LifeInv, stop
<1>2. CASE TPNext
  BY <1>2, PoolStepInv, BeginBatchStep, CallerStepInv, WorkerStepInv DEF TPNext
<1> QED
  BY <1>1, <1>2

(* The bookkeeping invariant holds of every behaviour of the pool, for     *)
(* every number of workers, callers and jobs.                              *)
THEOREM TPInvariant == TPSpec => []TPInv
<1>1. TPInit => TPInv
  BY InitInv
<1>2. TPInv /\ [TPNext]_tpVars => TPInv'
  BY TPStepInv
<1> QED
  BY <1>1, <1>2, PTL DEF TPSpec

(* Every variable keeps its type; in particular pending_ never wraps below *)
(* zero, which depends on counting a job before pushing it.                *)
THEOREM TPTypeCorrect == TPSpec => []TPTypeOK
<1>1. TPInv => TPTypeOK
  BY DEF TPInv
<1> QED
  BY <1>1, TPInvariant, PTL

(* No worker and no queued job refers to a batch whose wait() has returned. *)
THEOREM TPNoUseAfterReturn == TPSpec => []NoUseAfterReturn
<1>1. TPInv => NoUseAfterReturn
  BY DEF TPInv
<1> QED
  BY <1>1, TPInvariant, PTL

(* When wait() has returned, every job of the batch has run.               *)
THEOREM TPWaitIsBarrier == TPSpec => []WaitIsBarrier
<1>1. TPInv => WaitIsBarrier
  BY AllHaveRun DEF TPInv, PendingInv, WaitIsBarrier, Submitting
<1> QED
  BY <1>1, TPInvariant, PTL

(* No job is in the hands of two workers, or of a worker and the queue.    *)
THEOREM TPJobTakenOnce == TPSpec => []JobTakenOnce
<1>1. TPInv => JobTakenOnce
  BY DEF TPInv, HoldInv, QueueInv, JobTakenOnce, Queued
<1> QED
  BY <1>1, TPInvariant, PTL

(* ~ThreadPool joins its workers only after they have emptied the queue    *)
(* and finished every batch.                                               *)
THEOREM TPShutdownDrains == TPSpec => []ShutdownDrains
<1>1. ASSUME TPInv PROVE ShutdownDrains
  <2> USE <1>1 DEF TPInv
  <2>1. (\E w \in Workers : wpc[w] = "exited") => jobs = << >>
    BY DEF LifeInv
  <2>2. ASSUME life = "down", NEW c \in Callers
        PROVE  pending[c] = 0
    <3>1. /\ \A w \in Workers : wpc[w] \in {"unborn", "exited"}
          /\ jobs = << >> /\ Len(jobs) = 0
      BY <2>2 DEF LifeInv
    <3>2. Counted(c) = count[c] /\ Pushed(c) = count[c] /\ count[c] \in 0..MaxJobs
      <4>1. cpc[c] \notin Submitting
        BY <2>2 DEF LoopInv
      <4>2. next[c] = count[c] + 1 /\ count[c] \in 0..MaxJobs
        BY <4>1 DEF LoopInv, TPTypeOK
      <4> QED
        BY <4>1, <4>2, PoolAssumption DEF Counted, Pushed, Counting, Submitting
    <3>3. \A t \in 1..count[c] : t \in ran[c]
      <4> SUFFICES ASSUME NEW t \in 1..count[c], t \notin ran[c] PROVE FALSE
        OBVIOUS
      <4>1. [batch |-> c, task |-> t] \in Job
        BY <3>2, PoolAssumption DEF Job
      <4>2. Queued([batch |-> c, task |-> t]) \/ Taken([batch |-> c, task |-> t])
        BY <3>2, <4>1 DEF JobInv
      <4> QED
        BY <3>1, <4>2 DEF Queued, Taken
    <3>4. Unfinished(c) = {}
      BY <3>1, <3>2, <3>3 DEF Unfinished, Owes
    <3> QED
      BY <3>4, FS_EmptySet DEF PendingInv
  <2> QED
    BY <2>1, <2>2 DEF ShutdownDrains
<1> QED
  BY <1>1, TPInvariant, PTL

(* A caller asleep on done_ has a job that will still notify it: the       *)
(* decrement that reaches zero is the step that wakes it.                  *)
THEOREM TPBlockedIsPending == TPSpec => []BlockedIsPending
<1>1. TPInit => BlockedIsPending
  BY DEF TPInit, BlockedIsPending
<1>2. TPInv /\ BlockedIsPending /\ [TPNext]_tpVars => BlockedIsPending'
  <2> SUFFICES ASSUME TPInv, BlockedIsPending, [TPNext]_tpVars,
                      NEW c \in Callers, cpc'[c] = "blocked"
               PROVE  pending'[c] > 0
    BY DEF BlockedIsPending
  <2>1. TPTypeOK /\ TPTypeOK'
    BY TPStepInv DEF TPInv
  <2>2. CASE UNCHANGED <<cpc, pending>>
    BY <2>2 DEF BlockedIsPending
  <2>3. ASSUME NEW d \in Callers, NEW n \in 1..MaxJobs, BeginBatch(d, n)
        PROVE  pending'[c] > 0
    BY <2>1, <2>3 DEF BeginBatch, BlockedIsPending, TPTypeOK
  <2>4. ASSUME NEW d \in Callers, CallerStep(d) \/ WaitReturn(d)
        PROVE  pending'[c] > 0
    BY <2>1, <2>4, SMTT(30) DEF CallerStep, CountJob, PushJob, NotifyWorker, WaitReturn, WaitBlock,
       SpuriousDone, BlockedIsPending, TPTypeOK
  <2>5. ASSUME NEW w \in Workers, Decrement(w)
        PROVE  pending'[c] > 0
    <3>1. wjob[w].batch \in Callers
      BY <2>5, HeldJob DEF Decrement, Holding
    <3>2. pending'[c] \in Nat
      BY <2>1 DEF TPTypeOK
    <3> QED
      BY <2>1, <2>5, <3>1, <3>2 DEF Decrement, BlockedIsPending, TPTypeOK
  <2> QED
    BY <2>2, <2>3, <2>4, <2>5 DEF TPNext, tpVars, batchVars, PoolStep, Construct, Shutdown,
       NotifyStop, Join, Quiesced, WorkerStep, WorkerSleep, SpuriousReady, WorkerExit,
       WorkerTake, LockBatch, UnlockBatch, RunJob
<1> QED
  BY <1>1, <1>2, TPInvariant, PTL DEF TPSpec

-----------------------------------------------------------------------------
(* Wake-ups: workers on their way to the queue, and submits that still     *)
(* have to notify.                                                         *)

Looping == {w \in Workers : wpc[w] = "loop"}
Notifying == {c \in Callers : cpc[c] = "notify"}
SomeoneSleeps == \E w \in Workers : wpc[w] = "asleep"

(* There are finitely many of either, before and after a step.             *)
LEMMA WakersFinite ==
  /\ IsFiniteSet(Looping) /\ IsFiniteSet(Notifying)
  /\ IsFiniteSet(Looping') /\ IsFiniteSet(Notifying')
  /\ Cardinality(Looping) \in Nat /\ Cardinality(Notifying) \in Nat
  /\ Cardinality(Looping') \in Nat /\ Cardinality(Notifying') \in Nat
<1>1. /\ Looping \in SUBSET Workers /\ Looping' \in SUBSET Workers
      /\ Notifying \in SUBSET Callers /\ Notifying' \in SUBSET Callers
  BY DEF Looping, Notifying
<1>2. /\ IsFiniteSet(Looping) /\ IsFiniteSet(Notifying)
      /\ IsFiniteSet(Looping') /\ IsFiniteSet(Notifying')
  BY <1>1, FiniteThreads, FS_Subset
<1>3. QED
  BY <1>2, FS_CardinalityType

(* A step that takes no job's waker away.                                  *)
LEMMA WakersKept ==
  ASSUME TPTypeOK, EveryJobHasAWaker, SomeoneSleeps, jobs' = jobs,
         Looping \subseteq Looping', Notifying \subseteq Notifying'
  PROVE  EveryJobHasAWaker'
<1>1. /\ Cardinality(Looping) <= Cardinality(Looping')
      /\ Cardinality(Notifying) <= Cardinality(Notifying')
  BY WakersFinite, FS_Subset
<1>2. Len(jobs) <= Cardinality(Looping) + Cardinality(Notifying) /\ Len(jobs) \in Nat
  BY LenProperties DEF EveryJobHasAWaker, SomeoneSleeps, Looping, Notifying, TPTypeOK
<1>3. Len(jobs') <= Cardinality(Looping') + Cardinality(Notifying')
  BY <1>1, <1>2, WakersFinite
<1>4. QED
  BY <1>3 DEF EveryJobHasAWaker, Looping, Notifying

(* A job pushed comes with a submit that will notify.                      *)
LEMMA PushKeepsWakers ==
  ASSUME TPInv, EveryJobHasAWaker, NEW c \in Callers, PushJob(c)
  PROVE  EveryJobHasAWaker'
<1> SUFFICES ASSUME SomeoneSleeps'
             PROVE  Len(jobs') <= Cardinality(Looping') + Cardinality(Notifying')
  BY DEF EveryJobHasAWaker, SomeoneSleeps, Looping, Notifying
<1>1. Looping' = Looping /\ SomeoneSleeps
  BY DEF PushJob, Looping, SomeoneSleeps
<1>2. Notifying' = Notifying \cup {c} /\ c \notin Notifying
  BY DEF PushJob, Notifying, TPInv, TPTypeOK
<1>3. Len(jobs') = Len(jobs) + 1 /\ Len(jobs) \in Nat
  <2>1. next[c] <= count[c] /\ count[c] \in 0..MaxJobs /\ next[c] \in 1..(MaxJobs + 1)
    BY DEF TPInv, TPTypeOK, LoopInv, Submitting, PushJob
  <2>2. [batch |-> c, task |-> next[c]] \in Job
    BY <2>1, PoolAssumption DEF Job
  <2>3. QED
    BY <2>2, AppendProperties, LenProperties DEF TPInv, TPTypeOK, PushJob
<1>4. Cardinality(Notifying') = Cardinality(Notifying) + 1
  BY <1>2, WakersFinite, FS_AddElement
<1>5. Len(jobs) <= Cardinality(Looping) + Cardinality(Notifying)
  BY <1>1 DEF EveryJobHasAWaker, SomeoneSleeps, Looping, Notifying
<1>6. QED
  BY <1>1, <1>3, <1>4, <1>5, WakersFinite

(* notify_one turns the submit into a worker that is awake.                *)
LEMMA NotifyKeepsWakers ==
  ASSUME TPInv, EveryJobHasAWaker, NEW c \in Callers, NotifyWorker(c)
  PROVE  EveryJobHasAWaker'
<1> SUFFICES ASSUME SomeoneSleeps'
             PROVE  Len(jobs') <= Cardinality(Looping') + Cardinality(Notifying')
  BY DEF EveryJobHasAWaker, SomeoneSleeps, Looping, Notifying
<1>1. PICK w \in Workers : wpc[w] = "asleep" /\ wpc' = [wpc EXCEPT ![w] = "loop"]
  BY DEF NotifyWorker, NotifyOne, SomeoneSleeps
<1>2. Looping' = Looping \cup {w} /\ w \notin Looping
  BY <1>1 DEF Looping, TPInv, TPTypeOK
<1>3. Notifying' = Notifying \ {c} /\ c \in Notifying
  BY DEF NotifyWorker, Notifying, TPInv, TPTypeOK
<1>4. /\ Cardinality(Looping') = Cardinality(Looping) + 1
      /\ Cardinality(Notifying') = Cardinality(Notifying) - 1
  BY <1>2, <1>3, WakersFinite, FS_AddElement, FS_RemoveElement
<1>5. Len(jobs) <= Cardinality(Looping) + Cardinality(Notifying) /\ Len(jobs) \in Nat /\ jobs' = jobs
  BY <1>1, LenProperties
     DEF EveryJobHasAWaker, Looping, Notifying, TPInv, TPTypeOK, NotifyWorker
<1>6. QED
  BY <1>4, <1>5, WakersFinite

(* A worker that takes a job leaves one job fewer to wake for.             *)
LEMMA TakeKeepsWakers ==
  ASSUME TPInv, EveryJobHasAWaker, NEW w \in Workers, WorkerTake(w)
  PROVE  EveryJobHasAWaker'
<1> SUFFICES ASSUME SomeoneSleeps'
             PROVE  Len(jobs') <= Cardinality(Looping') + Cardinality(Notifying')
  BY DEF EveryJobHasAWaker, SomeoneSleeps, Looping, Notifying
<1>1. Looping' = Looping \ {w} /\ w \in Looping /\ SomeoneSleeps
  BY DEF WorkerTake, Looping, SomeoneSleeps, TPInv, TPTypeOK
<1>2. Notifying' = Notifying
  BY DEF WorkerTake, batchVars, Notifying
<1>3. Len(jobs') = Len(jobs) - 1 /\ Len(jobs) \in Nat
  BY HeadTailProperties, LenProperties DEF WorkerTake, TPInv, TPTypeOK
<1>4. Cardinality(Looping') = Cardinality(Looping) - 1
  BY <1>1, WakersFinite, FS_RemoveElement
<1>5. Len(jobs) <= Cardinality(Looping) + Cardinality(Notifying)
  BY <1>1 DEF EveryJobHasAWaker, SomeoneSleeps, Looping, Notifying
<1>6. QED
  BY <1>2, <1>3, <1>4, <1>5, WakersFinite

(* Nobody sleeps after the step, or nothing is queued.                     *)
LEMMA NobodyToWake ==
  ASSUME ~SomeoneSleeps' \/ jobs' = << >>
  PROVE  EveryJobHasAWaker'
<1>1. jobs' = << >> => Len(jobs') = 0
  OBVIOUS
<1>2. QED
  BY <1>1, WakersFinite DEF EveryJobHasAWaker, SomeoneSleeps, Looping, Notifying

(* No wake-up of the pool is lost, whoever submits and whoever falls       *)
(* asleep meanwhile: every queued job has a waker while somebody sleeps.   *)
THEOREM TPEveryJobHasAWaker == TPSpec => []EveryJobHasAWaker
<1>1. TPInit => EveryJobHasAWaker
  <2>1. TPInit => Len(jobs) = 0
    BY DEF TPInit
  <2>2. QED
    BY <2>1, WakersFinite DEF EveryJobHasAWaker, Looping, Notifying
<1>2. TPInv /\ EveryJobHasAWaker /\ [TPNext]_tpVars => EveryJobHasAWaker'
  <2> SUFFICES ASSUME TPInv, EveryJobHasAWaker, [TPNext]_tpVars PROVE EveryJobHasAWaker'
    OBVIOUS
  <2>0. TPTypeOK
    BY DEF TPInv
  <2>1. CASE jobs' = jobs /\ Looping \subseteq Looping' /\ Notifying \subseteq Notifying'
             /\ (SomeoneSleeps' => SomeoneSleeps)
    BY <2>0, <2>1, WakersKept, NobodyToWake
  <2>2. CASE UNCHANGED <<jobs, wpc, cpc>>
    BY <2>1, <2>2 DEF Looping, Notifying, SomeoneSleeps
  <2>3. ASSUME NEW W \in SUBSET Workers, Construct(W) PROVE EveryJobHasAWaker'
    <3>1. ~SomeoneSleeps'
      BY <2>0, <2>3 DEF Construct, SomeoneSleeps, TPInv, LifeInv, TPTypeOK
    <3>2. QED
      BY <3>1, NobodyToWake
  <2>4. CASE NotifyStop
    <3>1. ~SomeoneSleeps'
      BY <2>4 DEF NotifyStop, SomeoneSleeps
    <3>2. QED
      BY <3>1, NobodyToWake
  <2>5. ASSUME NEW c \in Callers, NEW n \in 1..MaxJobs, BeginBatch(c, n) PROVE EveryJobHasAWaker'
    BY <2>0, <2>1, <2>5 DEF BeginBatch, poolVars, Looping, Notifying, SomeoneSleeps, TPTypeOK
  <2>6. ASSUME NEW c \in Callers, CallerStep(c) \/ WaitReturn(c) PROVE EveryJobHasAWaker'
    <3>1. CASE CountJob(c) \/ WaitBlock(c) \/ SpuriousDone(c) \/ WaitReturn(c)
      BY <2>0, <2>1, <3>1 DEF CountJob, WaitBlock, SpuriousDone, WaitReturn, poolVars,
         Looping, Notifying, SomeoneSleeps, TPTypeOK
    <3>2. QED
      BY <2>6, <3>1, PushKeepsWakers, NotifyKeepsWakers DEF CallerStep
  <2>7. ASSUME NEW w \in Workers, WorkerStep(w) \/ RunJob(w) PROVE EveryJobHasAWaker'
    <3>1. CASE WorkerSleep(w) \/ WorkerExit(w)
      BY <3>1, NobodyToWake DEF WorkerSleep, WorkerExit
    <3>2. CASE SpuriousReady(w) \/ LockBatch(w) \/ UnlockBatch(w) \/ RunJob(w)
      BY <2>0, <2>1, <3>2 DEF SpuriousReady, LockBatch, UnlockBatch, RunJob, batchVars,
         Looping, Notifying, SomeoneSleeps, TPTypeOK
    <3>3. CASE Decrement(w)
      BY <2>0, <2>1, <3>3 DEF Decrement, Looping, Notifying, SomeoneSleeps, TPTypeOK
    <3>4. QED
      BY <2>7, <3>1, <3>2, <3>3, TakeKeepsWakers DEF WorkerStep
  <2>8. CASE Shutdown \/ Join \/ Quiesced
    BY <2>2, <2>8 DEF Shutdown, Join, Quiesced, batchVars, tpVars
  <2>9. QED
    BY <2>2, <2>3, <2>4, <2>5, <2>6, <2>7, <2>8 DEF TPNext, PoolStep, tpVars
<1>3. QED
  BY <1>1, <1>2, TPInvariant, PTL DEF TPSpec

-----------------------------------------------------------------------------
(* Executor::run.                                                          *)

(* What a run adds to the pool does not change what the pool does.         *)
LEMMA PoolBelow == [ExNext]_exVars => [TPNext]_tpVars
<1> SUFFICES ASSUME [ExNext]_exVars PROVE [TPNext]_tpVars
  OBVIOUS
<1>1. CASE UNCHANGED exVars
  BY <1>1 DEF exVars, tpVars
<1>2. CASE PoolStep \/ ExQuiesced
  BY <1>2 DEF TPNext, ExQuiesced
<1>3. ASSUME NEW c \in Callers, NEW n \in 1..MaxJobs, RunPooled(c, n)
      PROVE  TPNext
  BY <1>3 DEF RunPooled, TPNext
<1>4. ASSUME NEW c \in Callers, NEW n \in 0..MaxJobs, RunInline(c, n)
      PROVE  UNCHANGED tpVars
  BY <1>4 DEF RunInline
<1>5. ASSUME NEW c \in Callers, CallerStep(c) \/ PooledReturn(c)
      PROVE  TPNext
  BY <1>5 DEF PooledReturn, TPNext
<1>6. ASSUME NEW c \in Callers, InlineStep(c)
      PROVE  UNCHANGED tpVars
  BY <1>6 DEF InlineStep, InlineStart, InlineSucceeds, InlineFails, InlineReturn
<1>7. ASSUME NEW w \in Workers, WorkerStep(w)
      PROVE  TPNext
  BY <1>7 DEF TPNext
<1>8. ASSUME NEW w \in Workers, JobBody(w)
      PROVE  [TPNext]_tpVars
  BY <1>8 DEF JobBody, JobSkip, JobStart, JobSucceeds, JobFails, TPNext
<1> QED
  BY <1>1, <1>2, <1>3, <1>4, <1>5, <1>6, <1>7, <1>8 DEF ExNext

LEMMA ExInitInv == ExInit => ExInv
<1> SUFFICES ASSUME ExInit PROVE ExInv
  OBVIOUS
<1>1. TPInv
  BY InitInv DEF ExInit
<1>2. ExTypeOK
  BY PoolAssumption DEF ExInit, ExTypeOK, Blank
<1>3. FlagInv /\ PooledInv /\ InlineInv /\ ResultInv
  BY DEF ExInit, TPInit, FlagInv, PooledInv, InlineInv, ResultInv, Blank
<1>4. SuccessMeansComplete /\ FailureIsOwn
  BY DEF ExInit, SuccessMeansComplete, FailureIsOwn
<1> QED
  BY <1>1, <1>2, <1>3, <1>4 DEF ExInv

(* The part of the invariant that speaks of runs.                          *)
RunInv ==
  ExTypeOK /\ FlagInv /\ PooledInv /\ InlineInv /\ ResultInv
    /\ SuccessMeansComplete /\ FailureIsOwn

(* Steps of the pool that end no job and begin or end no batch.            *)
LEMMA PoolOnlyStep ==
  ASSUME RunInv, UNCHANGED <<runVars, count, ran>>,
         \A c \in Callers : cpc'[c] = "idle" <=> cpc[c] = "idle",
         \A j \in Job : Taken(j) => Taken(j)',
         PoolAssumption
  PROVE  RunInv'
<1> USE DEF RunInv, runVars
<1>1. ExTypeOK' /\ FlagInv' /\ InlineInv' /\ SuccessMeansComplete' /\ FailureIsOwn'
  BY DEF ExTypeOK, FlagInv, InlineInv, SuccessMeansComplete, FailureIsOwn
<1>2. \A c \in Callers, t \in 1..MaxJobs : JobOf(c, t) \in Job
  BY DEF JobOf, Job
<1>3. \A c \in Callers, t \in 1..MaxJobs : Taken(JobOf(c, t)) => Taken(JobOf(c, t))'
  BY <1>2 DEF JobOf
<1>4. PooledInv'
  BY <1>3 DEF PooledInv
<1>5. ResultInv'
  BY DEF ResultInv, Running
<1> QED
  BY <1>1, <1>4, <1>5

LEMMA PoolStepRun ==
  ASSUME TPInv, RunInv, PoolStep, UNCHANGED runVars
  PROVE  RunInv'
<1>1. UNCHANGED <<count, ran, cpc, wjob>>
  BY DEF PoolStep, Construct, Shutdown, NotifyStop, Join, batchVars
<1>2. \A w \in Workers : wpc[w] = "run" => wpc'[w] = "run"
  <2>1. ASSUME NEW W \in SUBSET Workers, Construct(W), NEW w \in Workers
        PROVE  wpc[w] # "run"
    BY <2>1 DEF Construct, TPInv, LifeInv
  <2> QED
    BY <2>1 DEF PoolStep, Shutdown, NotifyStop, Join
<1>3. \A j \in Job : Taken(j) => Taken(j)'
  BY <1>1, <1>2 DEF Taken
<1> QED
  BY <1>1, <1>3, PoolOnlyStep, PoolAssumption

LEMMA CallerStepRun ==
  ASSUME TPInv, RunInv, NEW c \in Callers, CallerStep(c), UNCHANGED runVars
  PROVE  RunInv'
<1>1. UNCHANGED <<count, ran, wjob>>
  BY DEF CallerStep, CountJob, PushJob, NotifyWorker, WaitBlock, SpuriousDone, poolVars
<1>2. \A w \in Workers : wpc[w] = "run" => wpc'[w] = "run"
  BY DEF CallerStep, CountJob, PushJob, NotifyWorker, NotifyOne, WaitBlock, SpuriousDone,
     poolVars, TPInv, TPTypeOK
<1>3. \A j \in Job : Taken(j) => Taken(j)'
  BY <1>1, <1>2 DEF Taken
<1>4. \A d \in Callers : cpc'[d] = "idle" <=> cpc[d] = "idle"
  BY DEF CallerStep, CountJob, PushJob, NotifyWorker, WaitBlock, SpuriousDone, TPInv, TPTypeOK
<1> QED
  BY <1>1, <1>3, <1>4, PoolOnlyStep, PoolAssumption

LEMMA WorkerStepRun ==
  ASSUME TPInv, RunInv, NEW w \in Workers, WorkerStep(w), UNCHANGED runVars
  PROVE  RunInv'
<1>1. UNCHANGED <<count, ran>>
  BY DEF WorkerStep, WorkerSleep, SpuriousReady, WorkerExit, WorkerTake, LockBatch, Decrement,
     UnlockBatch, batchVars
<1>2. /\ wpc[w] # "run"
      /\ \A v \in Workers : v # w => wpc'[v] = wpc[v] /\ wjob'[v] = wjob[v]
  BY DEF WorkerStep, WorkerSleep, SpuriousReady, WorkerExit, WorkerTake, LockBatch, Decrement,
     UnlockBatch, TPInv, TPTypeOK
<1>3. \A j \in Job : Taken(j) => Taken(j)'
  BY <1>2 DEF Taken
<1>4. \A d \in Callers : cpc'[d] = "idle" <=> cpc[d] = "idle"
  BY DEF WorkerStep, WorkerSleep, SpuriousReady, WorkerExit, WorkerTake, LockBatch, Decrement,
     UnlockBatch, batchVars, TPInv, TPTypeOK
<1> QED
  BY <1>1, <1>3, <1>4, PoolOnlyStep, PoolAssumption

-----------------------------------------------------------------------------
(* The steps of a run.                                                     *)

LEMMA BlankTile == \A t \in 1..MaxJobs : Blank[t] = "blank"
BY DEF Blank

LEMMA RunPooledStep ==
  ASSUME TPInv, RunInv, NEW c \in Callers, NEW n \in 1..MaxJobs, RunPooled(c, n)
  PROVE  RunInv'
<1> USE PoolAssumption, BlankTile
    DEF RunInv, RunPooled, BeginRun, BeginBatch, poolVars, Running
<1>1. ExTypeOK'
  BY DEF ExTypeOK, Blank
<1>2. FlagInv'
  BY DEF FlagInv, ExTypeOK
<1>3. \A d \in Callers, t \in 1..MaxJobs : Taken(JobOf(d, t))' <=> Taken(JobOf(d, t))
  BY DEF Taken, JobOf
<1>4. PooledInv'
  BY <1>3 DEF PooledInv, ExTypeOK, TPInv, TPTypeOK
<1>5. InlineInv'
  BY DEF InlineInv, ExTypeOK
<1>6. ResultInv'
  BY DEF ResultInv, ExTypeOK, TPInv, TPTypeOK
<1>7. SuccessMeansComplete' /\ FailureIsOwn'
  BY DEF SuccessMeansComplete, FailureIsOwn, ExTypeOK
<1> QED
  BY <1>1, <1>2, <1>4, <1>5, <1>6, <1>7

LEMMA RunInlineStep ==
  ASSUME TPInv, RunInv, NEW c \in Callers, NEW n \in 0..MaxJobs, RunInline(c, n)
  PROVE  RunInv'
<1> USE PoolAssumption, BlankTile
    DEF RunInv, RunInline, BeginRun, tpVars, Running
<1>1. ExTypeOK'
  BY DEF ExTypeOK, Blank
<1>2. FlagInv'
  BY DEF FlagInv, ExTypeOK
<1>3. \A d \in Callers, t \in 1..MaxJobs : Taken(JobOf(d, t))' <=> Taken(JobOf(d, t))
  BY DEF Taken, JobOf
<1>4. PooledInv'
  BY <1>3 DEF PooledInv, ExTypeOK
<1>5. InlineInv'
  BY DEF InlineInv, ExTypeOK
<1>6. ResultInv'
  BY DEF ResultInv, ExTypeOK
<1>7. SuccessMeansComplete' /\ FailureIsOwn'
  BY DEF SuccessMeansComplete, FailureIsOwn, ExTypeOK
<1> QED
  BY <1>1, <1>2, <1>4, <1>5, <1>6, <1>7

(* A change to the run of one caller leaves what is known of the others.   *)
LEMMA InlineTask ==
  ASSUME TPInv, RunInv, NEW c \in Callers, UNCHANGED tpVars,
         InlineStart(c) \/ InlineSucceeds(c) \/ InlineFails(c)
  PROVE  RunInv'
<1> USE PoolAssumption DEF RunInv, tpVars, Running
<1> DEFINE k == turn[c]
<1>1. /\ k \in 1..size[c] /\ k \in 1..MaxJobs /\ size[c] \in 0..MaxJobs
      /\ turn[c] # 0 /\ cpc[c] = "idle" /\ UNCHANGED <<size, result>>
      /\ result[c] = "none" /\ ok[c] /\ dst[c][k] \in {"blank", "writing"}
  BY DEF InlineStart, InlineSucceeds, InlineFails, ExTypeOK, PooledInv, InlineInv
<1>2. PICK v \in {"writing", "good", "bad"} :
        /\ dst' = [dst EXCEPT ![c][k] = v]
        /\ ok' = [ok EXCEPT ![c] = ok[c] /\ v # "bad"]
        /\ turn' = [turn EXCEPT ![c] = CASE v = "writing" -> k
                                          [] v = "good" -> k + 1
                                          [] v = "bad" -> size[c] + 1]
  <2>1. CASE InlineStart(c)
    BY <1>1, <2>1 DEF InlineStart, ExTypeOK
  <2>2. CASE InlineSucceeds(c)
    BY <1>1, <2>2 DEF InlineSucceeds, ExTypeOK
  <2>3. CASE InlineFails(c)
    BY <1>1, <2>3 DEF InlineFails, ExTypeOK
  <2> QED
    BY <2>1, <2>2, <2>3
<1>3. /\ \A d \in Callers : d # c => dst'[d] = dst[d] /\ ok'[d] = ok[d] /\ turn'[d] = turn[d]
      /\ \A t \in 1..MaxJobs : t # k => dst'[c][t] = dst[c][t]
      /\ dst'[c][k] = v /\ (ok'[c] <=> v # "bad")
      /\ v = "writing" => turn'[c] = k
      /\ v = "good" => turn'[c] = k + 1
      /\ v = "bad" => turn'[c] = size[c] + 1
      /\ k \in Nat /\ size[c] \in Nat
  <2>1. \A d \in Callers : d # c => dst'[d] = dst[d] /\ ok'[d] = ok[d] /\ turn'[d] = turn[d]
    BY <1>2 DEF ExTypeOK
  <2>2. dst'[c][k] = v /\ \A t \in 1..MaxJobs : t # k => dst'[c][t] = dst[c][t]
    BY <1>1, <1>2 DEF ExTypeOK
  <2>3. ok'[c] = (ok[c] /\ v # "bad")
    BY <1>2 DEF ExTypeOK
  <2>4. ok'[c] <=> v # "bad"
    BY <1>1, <2>3
  <2>5. turn'[c] = CASE v = "writing" -> k [] v = "good" -> k + 1 [] v = "bad" -> size[c] + 1
    BY <1>2 DEF ExTypeOK
  <2>6. /\ v = "writing" => turn'[c] = k
        /\ v = "good" => turn'[c] = k + 1
        /\ v = "bad" => turn'[c] = size[c] + 1
    BY <2>5
  <2> QED
    BY <1>1, <2>1, <2>2, <2>4, <2>6
<1>4. ExTypeOK'
  <2>1. dst' \in [Callers -> [1..MaxJobs -> {"blank", "writing", "good", "bad"}]]
    BY <1>1, <1>2 DEF ExTypeOK
  <2>2. ok' \in [Callers -> BOOLEAN]
    BY <1>1, <1>2 DEF ExTypeOK
  <2>3. turn' \in [Callers -> 0..(MaxJobs + 1)]
    BY <1>1, <1>2 DEF ExTypeOK
  <2> QED
    BY <1>1, <2>1, <2>2, <2>3 DEF ExTypeOK
<1>10. FlagInv'
  <2>1. \A t \in 1..MaxJobs : dst[c][t] # "bad" /\ (dst[c][t] # "blank" => t <= size[c])
    BY <1>1 DEF FlagInv
  <2>2. ok'[c] <=> \A t \in 1..MaxJobs : dst'[c][t] # "bad"
    BY <1>1, <1>3, <2>1
  <2>3. \A t \in 1..MaxJobs : dst'[c][t] # "blank" => t <= size[c]
    BY <1>1, <1>3, <2>1
  <2> QED
    BY <1>1, <1>3, <2>2, <2>3 DEF FlagInv
<1>5. \A d \in Callers, t \in 1..MaxJobs : Taken(JobOf(d, t))' <=> Taken(JobOf(d, t))
  BY DEF Taken, JobOf
<1>6. PooledInv'
  BY <1>1, <1>3, <1>5 DEF PooledInv
<1>7. InlineInv'
  <2>1. ASSUME NEW d \in Callers \ {c}, turn'[d] # 0
        PROVE  /\ result'[d] = "none" /\ (turn'[d] <= size'[d] => ok'[d])
               /\ \A t \in 1..MaxJobs :
                    /\ dst'[d][t] = "writing" => t = turn'[d] /\ t <= size'[d]
                    /\ ok'[d] /\ t <= size'[d] /\ t < turn'[d] => dst'[d][t] = "good"
    BY <1>1, <1>3, <2>1 DEF InlineInv
  <2>2. result'[c] = "none" /\ (turn'[c] <= size'[c] => ok'[c])
    BY <1>1, <1>3
  <2>3. ASSUME NEW t \in 1..MaxJobs
        PROVE  /\ dst'[c][t] = "writing" => t = turn'[c] /\ t <= size'[c]
               /\ ok'[c] /\ t <= size'[c] /\ t < turn'[c] => dst'[c][t] = "good"
    <3>1. CASE t = k
      BY <1>1, <1>3, <3>1
    <3>2. CASE t # k
      <4>1. dst'[c][t] = dst[c][t] /\ dst[c][t] # "writing"
        BY <1>1, <1>3, <3>2 DEF InlineInv
      <4>2. t <= size[c] /\ t < k => dst[c][t] = "good"
        BY <1>1 DEF InlineInv
      <4> QED
        BY <1>1, <1>3, <3>2, <4>1, <4>2
    <3> QED
      BY <3>1, <3>2
  <2> QED
    BY <2>1, <2>2, <2>3 DEF InlineInv
<1>8. ResultInv'
  <2>1. turn'[c] # 0
    BY <1>1, <1>3
  <2> QED
    BY <1>1, <1>3, <2>1 DEF ResultInv
<1>9. SuccessMeansComplete' /\ FailureIsOwn'
  BY <1>1, <1>3 DEF SuccessMeansComplete, FailureIsOwn
<1> QED
  BY <1>4, <1>6, <1>7, <1>8, <1>9, <1>10

(* When a run returns, no tile is being written, and ok tells whether all  *)
(* are good or some is bad.                                                *)
LEMMA Settled ==
  ASSUME TPInv, RunInv, NEW c \in Callers,
         PooledReturn(c) \/ (turn[c] > size[c] /\ turn[c] # 0)
  PROVE  /\ \A t \in 1..MaxJobs : dst[c][t] # "writing"
         /\ ok[c] => \A t \in 1..size[c] : dst[c][t] = "good"
         /\ ~ok[c] => \E t \in 1..size[c] : dst[c][t] = "bad"
         /\ size[c] \in 0..MaxJobs
<1> USE PoolAssumption DEF RunInv
<1>1. size[c] \in 0..MaxJobs /\ turn[c] \in 0..(MaxJobs + 1) /\ ok[c] \in BOOLEAN
  BY DEF ExTypeOK
<1>2. ~ok[c] => \E t \in 1..size[c] : dst[c][t] = "bad"
  BY <1>1 DEF FlagInv
<1>3. \A t \in 1..MaxJobs : dst[c][t] \in {"blank", "writing", "good", "bad"}
  BY DEF ExTypeOK
<1>4. CASE PooledReturn(c)
  <2>1. cpc[c] = "wait" /\ bmutex[c] = NoOne /\ pending[c] = 0
    BY <1>4 DEF PooledReturn, WaitReturn
  <2>2. ran[c] = 1..count[c] /\ size[c] = count[c]
    BY <2>1, AllHaveRun DEF Submitting, PooledInv
  <2>3. \A w \in Workers : Holding(w) => wjob[w].batch # c
    BY <2>1, NothingPending DEF Submitting
  <2>4. \A t \in 1..MaxJobs : ~Taken(JobOf(c, t))
    BY <2>3 DEF Taken, JobOf, Holding
  <2>5. \A t \in 1..MaxJobs : dst[c][t] # "writing"
    BY <2>1, <2>4 DEF PooledInv
  <2>6. ok[c] => \A t \in 1..size[c] : dst[c][t] = "good"
    BY <1>1, <1>3, <2>1, <2>2, <2>5 DEF PooledInv, FlagInv
  <2> QED
    BY <1>1, <1>2, <2>5, <2>6
<1>5. CASE turn[c] > size[c] /\ turn[c] # 0
  <2>1. \A t \in 1..MaxJobs : dst[c][t] # "writing"
    BY <1>1, <1>5 DEF InlineInv
  <2>2. ok[c] => \A t \in 1..size[c] : dst[c][t] = "good"
    BY <1>1, <1>5 DEF InlineInv
  <2> QED
    BY <1>1, <1>2, <2>1, <2>2
<1> QED
  BY <1>4, <1>5

LEMMA ReturnStep ==
  ASSUME TPInv, RunInv, NEW c \in Callers, PooledReturn(c) \/ (InlineReturn(c) /\ turn[c] # 0)
  PROVE  RunInv'
<1> USE PoolAssumption DEF RunInv
<1>1. /\ \A t \in 1..MaxJobs : dst[c][t] # "writing"
      /\ ok[c] => \A t \in 1..size[c] : dst[c][t] = "good"
      /\ ~ok[c] => \E t \in 1..size[c] : dst[c][t] = "bad"
  BY Settled DEF InlineReturn
<1>2. /\ UNCHANGED <<size, dst, ok, count, ran, wpc, wjob>>
      /\ result' = [result EXCEPT ![c] = IF ok[c] THEN "ok" ELSE "failed"]
      /\ cpc'[c] = "idle" /\ turn'[c] = 0
      /\ \A d \in Callers : d # c => cpc'[d] = cpc[d] /\ turn'[d] = turn[d]
  <2>1. CASE PooledReturn(c)
    BY <2>1 DEF PooledReturn, WaitReturn, SetResult, poolVars, PooledInv, TPInv, TPTypeOK
  <2>2. CASE InlineReturn(c) /\ turn[c] # 0
    BY <2>2 DEF InlineReturn, SetResult, tpVars, PooledInv, ExTypeOK
  <2> QED
    BY <2>1, <2>2
<1>3. ExTypeOK'
  <2>1. turn' \in [Callers -> 0..(MaxJobs + 1)]
    BY <1>2 DEF PooledReturn, InlineReturn, ExTypeOK
  <2> QED
    BY <1>2, <2>1 DEF ExTypeOK
<1>4. FlagInv'
  BY <1>2 DEF FlagInv
<1>5. \A d \in Callers, t \in 1..MaxJobs : Taken(JobOf(d, t))' <=> Taken(JobOf(d, t))
  BY <1>2 DEF Taken, JobOf
<1>6. PooledInv'
  <2>1. \A d \in Callers : cpc'[d] # "idle" =>
          cpc[d] # "idle" /\ turn'[d] = turn[d] /\ result'[d] = result[d]
    BY <1>2 DEF ExTypeOK
  <2> QED
    BY <1>2, <1>5, <2>1 DEF PooledInv
<1>7. InlineInv'
  BY <1>2 DEF InlineInv, ExTypeOK
<1>8. ResultInv'
  BY <1>1, <1>2 DEF ResultInv, Running
<1>9. SuccessMeansComplete' /\ FailureIsOwn'
  BY <1>1, <1>2 DEF SuccessMeansComplete, FailureIsOwn, ExTypeOK
<1> QED
  BY <1>3, <1>4, <1>6, <1>7, <1>8, <1>9

(* A job moves only the tile that is its own, and only forward.            *)
LEMMA JobStep ==
  ASSUME TPInv, RunInv, NEW w \in Workers, JobBody(w)
  PROVE  RunInv'
<1> USE PoolAssumption DEF RunInv
<1> DEFINE b == wjob[w].batch
           s == wjob[w].task
<1>1. /\ b \in Callers /\ s \in 1..MaxJobs /\ wjob[w] = JobOf(b, s)
      /\ cpc[b] # "idle" /\ s \in 1..Pushed(b) /\ s \notin ran[b] /\ wpc[w] = "run"
      /\ dst[b][s] \in {"blank", "writing"}
      /\ turn[b] = 0 /\ size[b] = count[b] /\ result[b] = "none" /\ Taken(JobOf(b, s))
  <2>1. wpc[w] = "run"
    BY DEF JobBody, JobSkip, JobStart, JobSucceeds, JobFails
  <2>2. /\ b \in Callers /\ s \in 1..MaxJobs /\ wjob[w] = JobOf(b, s)
        /\ cpc[b] # "idle" /\ s \in 1..Pushed(b)
    BY <2>1, HeldJob DEF Holding, JobOf
  <2>3. s \notin ran[b]
    BY <2>1 DEF TPInv, HoldInv, Holding
  <2>4. Taken(JobOf(b, s))
    BY <2>1, <2>2 DEF Taken
  <2> QED
    BY <2>1, <2>2, <2>3, <2>4 DEF PooledInv
<1>2. s <= size[b] /\ size[b] \in 0..MaxJobs
  BY <1>1 DEF Pushed, TPInv, LoopInv, Submitting, ExTypeOK, TPTypeOK
<1>3. /\ UNCHANGED <<wjob, cpc, count, size, turn, result>>
      /\ \A v \in Workers : v # w => wpc'[v] = wpc[v]
  BY DEF JobBody, JobSkip, JobStart, JobSucceeds, JobFails, RunJob, runVars, tpVars, TPInv, TPTypeOK
<1>4. PICK v \in {"blank", "writing", "good", "bad"} :
        /\ dst' = [dst EXCEPT ![b][s] = v]
        /\ ok' = [ok EXCEPT ![b] = ok[b] /\ v # "bad"]
        /\ v = "writing" => wpc'[w] = "run" /\ ran' = ran
        /\ v # "writing" => ran' = [ran EXCEPT ![b] = @ \cup {s}]
        /\ v = "blank" => ~ok[b]
  <2>1. CASE JobSkip(w)
    <3>1. dst[b][s] = "blank" /\ dst' = dst /\ ok' = ok /\ ~ok[b]
      BY <2>1 DEF JobSkip, TileOf, runVars
    <3>2. dst = [dst EXCEPT ![b][s] = "blank"]
      BY <1>1, <3>1, ZenonT(30) DEF ExTypeOK
    <3>3. ok = [ok EXCEPT ![b] = ok[b] /\ "blank" # "bad"]
      BY <1>1, <3>1 DEF ExTypeOK
    <3>4. ran' = [ran EXCEPT ![b] = @ \cup {s}]
      BY <2>1 DEF JobSkip, RunJob
    <3> QED
      BY <3>1, <3>2, <3>3, <3>4
  <2>2. CASE JobStart(w)
    BY <1>1, <2>2, SMTT(30) DEF JobStart, SetTile, tpVars, ExTypeOK
  <2>3. CASE JobSucceeds(w)
    BY <1>1, <2>3, SMTT(30) DEF JobSucceeds, RunJob, SetTile, ExTypeOK
  <2>4. CASE JobFails(w)
    BY <1>1, <2>4 DEF JobFails, RunJob, SetTile, ExTypeOK
  <2> QED
    BY <2>1, <2>2, <2>3, <2>4 DEF JobBody
<1>5. /\ \A d \in Callers : d # b => dst'[d] = dst[d] /\ ok'[d] = ok[d] /\ ran'[d] = ran[d]
      /\ \A t \in 1..MaxJobs : t # s => dst'[b][t] = dst[b][t]
      /\ dst'[b][s] = v /\ (ok'[b] <=> ok[b] /\ v # "bad")
      /\ \A t \in 1..MaxJobs : t # s => (t \in ran'[b] <=> t \in ran[b])
      /\ s \in ran'[b] <=> v # "writing"
  <2>1. \A d \in Callers : d # b => dst'[d] = dst[d] /\ ok'[d] = ok[d] /\ ran'[d] = ran[d]
    BY <1>4 DEF ExTypeOK, TPInv, TPTypeOK
  <2>2. dst'[b][s] = v /\ \A t \in 1..MaxJobs : t # s => dst'[b][t] = dst[b][t]
    BY <1>1, <1>4 DEF ExTypeOK
  <2>3. ok'[b] = (ok[b] /\ v # "bad")
    BY <1>1, <1>4 DEF ExTypeOK
  <2>4. ok'[b] <=> ok[b] /\ v # "bad"
    BY <2>3
  <2>5. ran'[b] = IF v = "writing" THEN ran[b] ELSE ran[b] \cup {s}
    BY <1>1, <1>4 DEF TPInv, TPTypeOK
  <2> QED
    BY <1>1, <2>1, <2>2, <2>4, <2>5
<1>6. ExTypeOK'
  <2>1. dst' \in [Callers -> [1..MaxJobs -> {"blank", "writing", "good", "bad"}]]
    BY <1>1, <1>4 DEF ExTypeOK
  <2>2. ok' \in [Callers -> BOOLEAN]
    BY <1>4 DEF ExTypeOK
  <2> QED
    BY <1>3, <2>1, <2>2 DEF ExTypeOK
<1>7. FlagInv'
  <2>1. ok'[b] <=> \A t \in 1..MaxJobs : dst'[b][t] # "bad"
    BY <1>1, <1>5 DEF FlagInv
  <2>2. \A t \in 1..MaxJobs : dst'[b][t] # "blank" => t <= size[b]
    BY <1>1, <1>2, <1>5 DEF FlagInv
  <2> QED
    BY <1>1, <1>3, <1>5, <2>1, <2>2 DEF FlagInv
<1>8. \A d \in Callers, t \in 1..MaxJobs :
        Taken(JobOf(d, t)) => Taken(JobOf(d, t))' \/ (d = b /\ t = s)
  <2> SUFFICES ASSUME NEW d \in Callers, NEW t \in 1..MaxJobs, NEW v_1 \in Workers,
                      wpc[v_1] = "run", wjob[v_1] = JobOf(d, t), ~(d = b /\ t = s)
               PROVE  Taken(JobOf(d, t))'
    BY DEF Taken
  <2>1. v_1 # w
    BY <1>1 DEF JobOf
  <2> QED
    BY <1>3, <2>1 DEF Taken, JobOf
<1>9. PooledInv'
  <2>1. ASSUME NEW d \in Callers \ {b}, cpc'[d] # "idle"
        PROVE  /\ turn'[d] = 0 /\ size'[d] = count'[d] /\ result'[d] = "none"
               /\ \A t \in 1..MaxJobs :
                    /\ dst'[d][t] = "writing" => Taken(JobOf(d, t))'
                    /\ t \notin ran'[d] => dst'[d][t] \in {"blank", "writing"}
                    /\ t \in ran'[d] => dst'[d][t] # "writing" /\ (ok'[d] => dst'[d][t] # "blank")
    BY <1>3, <1>5, <1>8, <2>1 DEF PooledInv
  <2>2. v = "writing" => Taken(JobOf(b, s))'
    BY <1>1, <1>3, <1>4 DEF Taken, JobOf
  <2>3. \A t \in 1..MaxJobs :
          /\ dst'[b][t] = "writing" => Taken(JobOf(b, t))'
          /\ t \notin ran'[b] => dst'[b][t] \in {"blank", "writing"}
          /\ t \in ran'[b] => dst'[b][t] # "writing" /\ (ok'[b] => dst'[b][t] # "blank")
    <3>1. /\ dst'[b][s] = "writing" => Taken(JobOf(b, s))'
          /\ s \notin ran'[b] => dst'[b][s] \in {"blank", "writing"}
          /\ s \in ran'[b] => dst'[b][s] # "writing" /\ (ok'[b] => dst'[b][s] # "blank")
      BY <1>4, <1>5, <2>2
    <3>2. ASSUME NEW t \in 1..MaxJobs, t # s
          PROVE  /\ dst'[b][t] = "writing" => Taken(JobOf(b, t))'
                 /\ t \notin ran'[b] => dst'[b][t] \in {"blank", "writing"}
                 /\ t \in ran'[b] => dst'[b][t] # "writing" /\ (ok'[b] => dst'[b][t] # "blank")
      BY <1>1, <1>3, <1>5, <1>8, <3>2 DEF PooledInv
    <3> QED
      BY <1>3, <3>1, <3>2
  <2> QED
    BY <1>1, <1>3, <2>1, <2>3 DEF PooledInv
<1>10. InlineInv'
  BY <1>1, <1>3, <1>5 DEF InlineInv
<1>11. ResultInv'
  BY <1>1, <1>3, <1>5 DEF ResultInv, Running
<1>12. SuccessMeansComplete' /\ FailureIsOwn'
  BY <1>1, <1>3, <1>5 DEF SuccessMeansComplete, FailureIsOwn
<1> QED
  BY <1>6, <1>7, <1>9, <1>10, <1>11, <1>12

LEMMA ExStepInv == ExInv /\ [ExNext]_exVars => ExInv'
<1> SUFFICES ASSUME ExInv, [ExNext]_exVars PROVE ExInv'
  OBVIOUS
<1>1. TPInv /\ RunInv /\ TPInv'
  BY PoolBelow, TPStepInv DEF ExInv, RunInv
<1>2. ASSUME UNCHANGED tpVars, UNCHANGED runVars PROVE RunInv'
  <2>1. \A j \in Job : Taken(j) => Taken(j)'
    BY <1>2 DEF tpVars, Taken
  <2> QED
    BY <1>1, <1>2, <2>1, PoolOnlyStep, PoolAssumption DEF tpVars
<1>3. ASSUME NEW c \in Callers, InlineStep(c) PROVE RunInv'
  <2>1. CASE InlineReturn(c)
    <3>1. turn[c] # 0
      BY <1>1, <2>1, PoolAssumption DEF InlineReturn, RunInv, ExTypeOK
    <3> QED
      BY <1>1, <2>1, <3>1, ReturnStep
  <2>2. CASE InlineStart(c) \/ InlineSucceeds(c) \/ InlineFails(c)
    <3>1. UNCHANGED tpVars
      BY <2>2 DEF InlineStart, InlineSucceeds, InlineFails
    <3> QED
      BY <1>1, <2>2, <3>1, InlineTask
  <2> QED
    BY <1>3, <2>1, <2>2 DEF InlineStep
<1>4. ASSUME NEW c \in Callers,
             \/ \E n \in 1..MaxJobs : RunPooled(c, n)
             \/ \E n \in 0..MaxJobs : RunInline(c, n)
             \/ CallerStep(c) /\ UNCHANGED runVars
             \/ PooledReturn(c)
      PROVE  RunInv'
  BY <1>1, <1>4, RunPooledStep, RunInlineStep, CallerStepRun, ReturnStep
<1>5. ASSUME NEW w \in Workers, (WorkerStep(w) /\ UNCHANGED runVars) \/ JobBody(w)
      PROVE  RunInv'
  BY <1>1, <1>5, WorkerStepRun, JobStep
<1>6. ASSUME PoolStep /\ UNCHANGED runVars PROVE RunInv'
  BY <1>1, <1>6, PoolStepRun
<1>7. ASSUME ExQuiesced PROVE RunInv'
  BY <1>2, <1>7 DEF ExQuiesced, Quiesced
<1>8. ASSUME UNCHANGED exVars PROVE RunInv'
  BY <1>2, <1>8 DEF exVars, tpVars, runVars
<1>9. RunInv'
  BY <1>3, <1>4, <1>5, <1>6, <1>7, <1>8 DEF ExNext
<1> QED
  BY <1>1, <1>9 DEF ExInv, RunInv

(* The bookkeeping invariant of runs holds of every behaviour.             *)
THEOREM ExInvariant == ExSpec => []ExInv
<1>1. ExInit => ExInv
  BY ExInitInv
<1>2. ExInv /\ [ExNext]_exVars => ExInv'
  BY ExStepInv
<1> QED
  BY <1>1, <1>2, PTL DEF ExSpec

(* A run reports success only when every tile of its plan is in place.     *)
THEOREM ExSuccessMeansComplete == ExSpec => []SuccessMeansComplete
<1>1. ExInv => SuccessMeansComplete
  BY DEF ExInv
<1> QED
  BY <1>1, ExInvariant, PTL

(* A run reports failure only when one of its own tiles has failed.        *)
THEOREM ExFailureIsOwn == ExSpec => []FailureIsOwn
<1>1. ExInv => FailureIsOwn
  BY DEF ExInv
<1> QED
  BY <1>1, ExInvariant, PTL

-----------------------------------------------------------------------------
(* Refinement.                                                             *)

Active == {c \in Callers : Running(c)}

LEMMA InitRefines == ExInit => Run!PRInit
BY DEF ExInit, TPInit, Run!PRInit, Running, Blank, Run!Blank

(* A step of the pool that neither begins nor ends a batch is no step of   *)
(* the promise.                                                            *)
LEMMA PoolStutters ==
  ASSUME TPInv, UNCHANGED runVars,
         PoolStep \/ (\E c \in Callers : CallerStep(c)) \/ (\E w \in Workers : WorkerStep(w))
  PROVE  UNCHANGED Run!prVars
<1>1. \A c \in Callers : cpc'[c] = "idle" <=> cpc[c] = "idle"
  <2>1. CASE PoolStep
    BY <2>1 DEF PoolStep, Construct, Shutdown, NotifyStop, Join, batchVars
  <2>2. ASSUME NEW d \in Callers, CallerStep(d)
        PROVE  \A c \in Callers : cpc'[c] = "idle" <=> cpc[c] = "idle"
    BY <2>2 DEF CallerStep, CountJob, PushJob, NotifyWorker, WaitBlock, SpuriousDone, TPInv, TPTypeOK
  <2>3. ASSUME NEW w \in Workers, WorkerStep(w)
        PROVE  \A c \in Callers : cpc'[c] = "idle" <=> cpc[c] = "idle"
    BY <2>3 DEF WorkerStep, WorkerSleep, SpuriousReady, WorkerExit, WorkerTake, LockBatch,
       Decrement, UnlockBatch, batchVars, TPInv, TPTypeOK
  <2> QED
    BY <2>1, <2>2, <2>3
<1>2. Active' = Active
  BY <1>1 DEF Active, Running, runVars
<1> QED
  BY <1>2 DEF Run!prVars, Active, runVars

(* Both ways of beginning a run are the promise's Start.                   *)
LEMMA BeginRefines ==
  ASSUME ExInv, NEW c \in Callers, NEW n \in 0..MaxJobs, RunPooled(c, n) \/ RunInline(c, n)
  PROVE  Run!Start(c, n)
<1>1. c \notin Active
  BY DEF RunPooled, RunInline, BeginRun, Active
<1>2. Active' = Active \cup {c}
  BY DEF RunPooled, RunInline, BeginRun, BeginBatch, tpVars, Active, Running, ExInv, ExTypeOK,
     TPInv, TPTypeOK
<1> QED
  BY <1>1, <1>2 DEF RunPooled, RunInline, BeginRun, Run!Start, Active, Blank, Run!Blank

(* Both ways of returning are the promise's Return.                        *)
LEMMA ReturnRefines ==
  ASSUME ExInv, NEW c \in Callers, PooledReturn(c) \/ InlineReturn(c)
  PROVE  Run!Return(c)
<1>1. InlineReturn(c) => turn[c] # 0
  BY PoolAssumption DEF InlineReturn, ExInv, ExTypeOK
<1>2. /\ \A t \in 1..MaxJobs : dst[c][t] # "writing"
      /\ ok[c] => \A t \in 1..size[c] : dst[c][t] = "good"
      /\ ~ok[c] => \E t \in 1..size[c] : dst[c][t] = "bad"
      /\ size[c] \in 0..MaxJobs
  BY <1>1, Settled DEF InlineReturn, ExInv, RunInv
<1>3. \A t \in 1..size[c] : dst[c][t] # "writing"
  BY <1>2, PoolAssumption
<1>4. UNCHANGED <<size, dst>> /\ result' = [result EXCEPT ![c] = IF ok[c] THEN "ok" ELSE "failed"]
  BY DEF PooledReturn, InlineReturn, SetResult
<1>5. c \in Active /\ Active' = Active \ {c}
  <2>1. CASE PooledReturn(c)
    BY <2>1 DEF PooledReturn, WaitReturn, Active, Running, ExInv, PooledInv, TPInv, TPTypeOK
  <2>2. CASE InlineReturn(c)
    BY <1>1, <2>2 DEF InlineReturn, tpVars, Active, Running, ExInv, PooledInv, ExTypeOK
  <2> QED
    BY <2>1, <2>2
<1> QED
  BY <1>2, <1>3, <1>4, <1>5 DEF Run!Return, Active

(* The caller's own task is a Write or a Settle of the promise.            *)
LEMMA InlineRefines ==
  ASSUME ExInv, NEW c \in Callers, InlineStart(c) \/ InlineSucceeds(c) \/ InlineFails(c)
  PROVE  Run!Write(c, turn[c]) \/ Run!Settle(c, turn[c])
<1>1. turn[c] \in 1..size[c] /\ turn[c] # 0 /\ size[c] \in 0..MaxJobs /\ turn[c] \in 1..MaxJobs
  BY PoolAssumption DEF InlineStart, InlineSucceeds, InlineFails, ExInv, ExTypeOK
<1>2. c \in Active /\ Active' = Active
  BY <1>1 DEF InlineStart, InlineSucceeds, InlineFails, tpVars, Active, Running, ExInv, ExTypeOK
<1> QED
  BY <1>1, <1>2 DEF InlineStart, InlineSucceeds, InlineFails, Run!Write, Run!Settle, Active

(* So is a worker's; the job that finds ok cleared does nothing.           *)
LEMMA JobRefines ==
  ASSUME ExInv, NEW w \in Workers, JobBody(w)
  PROVE  \/ Run!Write(wjob[w].batch, wjob[w].task)
         \/ Run!Settle(wjob[w].batch, wjob[w].task)
         \/ UNCHANGED Run!prVars
<1> DEFINE b == wjob[w].batch
           s == wjob[w].task
<1>1. /\ b \in Callers /\ cpc[b] # "idle" /\ s \in 1..Pushed(b) /\ size[b] = count[b]
      /\ s \in 1..MaxJobs
  BY HeldJob DEF JobBody, JobSkip, JobStart, JobSucceeds, JobFails, Holding, ExInv, PooledInv
<1>2. s <= size[b]
  <2>1. next[b] \in 1..(MaxJobs + 1) /\ count[b] \in 0..MaxJobs
    BY <1>1 DEF ExInv, TPInv, TPTypeOK
  <2>2. Pushed(b) <= count[b] /\ Pushed(b) \in Int
    <3>1. CASE cpc[b] \in Submitting
      BY <1>1, <2>1, <3>1, PoolAssumption DEF Pushed, ExInv, TPInv, LoopInv
    <3>2. CASE cpc[b] \notin Submitting
      BY <1>1, <2>1, <3>2, PoolAssumption DEF Pushed, ExInv, TPInv, LoopInv, Submitting
    <3> QED
      BY <3>1, <3>2
  <2> QED
    BY <1>1, <2>1, <2>2, PoolAssumption
<1>3. b \in Active /\ Active' = Active
  BY <1>1 DEF JobBody, JobSkip, JobStart, JobSucceeds, JobFails, RunJob, tpVars, runVars, Active,
     Running
<1> QED
  BY <1>1, <1>2, <1>3 DEF JobBody, JobSkip, JobStart, JobSucceeds, JobFails, TileOf, SetTile,
     runVars, Run!Write, Run!Settle, Run!prVars, Active

(* Executor::run, over the pool or on the calling thread, implements the   *)
(* promise of ParallelRun.                                                 *)
THEOREM ExRefinesParallelRun == ExSpec => RunSpec
<1>1. ExInit => Run!PRInit
  BY InitRefines
<1>2. ExInv /\ [ExNext]_exVars => [Run!PRNext]_(Run!prVars)
  <2> SUFFICES ASSUME ExInv, [ExNext]_exVars PROVE [Run!PRNext]_(Run!prVars)
    OBVIOUS
  <2>1. CASE UNCHANGED exVars
    BY <2>1 DEF exVars, Run!prVars, Running
  <2>2. CASE ExQuiesced
    BY <2>2 DEF ExQuiesced, Quiesced, tpVars, runVars, Run!prVars, Running
  <2>3. CASE PoolStep /\ UNCHANGED runVars
    BY <2>3, PoolStutters DEF ExInv
  <2>4. ASSUME NEW c \in Callers PROVE
          /\ \A n \in 1..MaxJobs : RunPooled(c, n) => Run!PRNext
          /\ \A n \in 0..MaxJobs : RunInline(c, n) => Run!PRNext
          /\ CallerStep(c) /\ UNCHANGED runVars => UNCHANGED Run!prVars
          /\ PooledReturn(c) => Run!PRNext
          /\ InlineStep(c) => Run!PRNext
    <3>1. \A n \in 1..MaxJobs : n \in 0..MaxJobs
      BY PoolAssumption
    <3>2. \A n \in 0..MaxJobs : RunPooled(c, n) \/ RunInline(c, n) => Run!PRNext
      BY BeginRefines DEF Run!PRNext
    <3>3. CallerStep(c) /\ UNCHANGED runVars => UNCHANGED Run!prVars
      BY PoolStutters DEF ExInv
    <3>4. PooledReturn(c) \/ InlineReturn(c) => Run!PRNext
      BY ReturnRefines DEF Run!PRNext
    <3>5. InlineStart(c) \/ InlineSucceeds(c) \/ InlineFails(c) => Run!PRNext
      <4>1. InlineStart(c) \/ InlineSucceeds(c) \/ InlineFails(c) => turn[c] \in 1..MaxJobs
        BY PoolAssumption DEF InlineStart, InlineSucceeds, InlineFails, ExInv, ExTypeOK
      <4> QED
        BY <4>1, InlineRefines DEF Run!PRNext
    <3> QED
      BY <3>1, <3>2, <3>3, <3>4, <3>5 DEF InlineStep
  <2>5. ASSUME NEW w \in Workers PROVE
          /\ WorkerStep(w) /\ UNCHANGED runVars => UNCHANGED Run!prVars
          /\ JobBody(w) => [Run!PRNext]_(Run!prVars)
    <3>1. WorkerStep(w) /\ UNCHANGED runVars => UNCHANGED Run!prVars
      BY PoolStutters DEF ExInv
    <3>2. JobBody(w) => wjob[w].batch \in Callers /\ wjob[w].task \in 1..MaxJobs
      BY HeldJob DEF JobBody, JobSkip, JobStart, JobSucceeds, JobFails, Holding, ExInv
    <3> QED
      BY <3>1, <3>2, JobRefines DEF Run!PRNext
  <2> QED
    BY <2>1, <2>2, <2>3, <2>4, <2>5 DEF ExNext
<1> QED
  BY <1>1, <1>2, ExInvariant, PTL DEF ExSpec, RunSpec, Run!PRSpec
=============================================================================
