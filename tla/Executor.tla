------------------------------ MODULE Executor ------------------------------
(***************************************************************************)
(* Executor::run (core/src/plan.cpp) over the thread pool.  A run with a   *)
(* pool and at least two tiles hands one job per tile to a batch and waits *)
(* for it; any other run decodes its tiles on the calling thread and stops *)
(* at the first failure.  The outcome is the flag ok, which any task may   *)
(* clear and every job not yet started consults.                           *)
(*                                                                         *)
(* The pool's actions are those of ThreadPool, conjoined with what the     *)
(* lambda of Executor::run and execute_task do in the same step.           *)
(***************************************************************************)
EXTENDS ThreadPool

VARIABLES
  size,      (* plan.tasks.size()                                          *)
  dst,       (* the part of the destination each task fills                *)
  ok,        (* the flag shared by the tasks of a run                      *)
  turn,      (* the task the caller decodes itself, 0 when it does not     *)
  result     (* what the caller's last run returned                        *)

runVars == <<size, dst, ok, turn, result>>
exVars == <<life, jobs, wpc, wjob, cpc, count, next, pending, bmutex, ran,
            size, dst, ok, turn, result>>

Blank == [t \in 1..MaxJobs |-> "blank"]

ExInit ==
  /\ TPInit
  /\ size = [c \in Callers |-> 0]
  /\ dst = [c \in Callers |-> Blank]
  /\ ok = [c \in Callers |-> TRUE]
  /\ turn = [c \in Callers |-> 0]
  /\ result = [c \in Callers |-> "none"]

Running(c) == cpc[c] # "idle" \/ turn[c] # 0

-----------------------------------------------------------------------------
(* Executor::run on the calling thread.                                    *)

BeginRun(c, n) ==
  /\ ~Running(c)
  /\ size' = [size EXCEPT ![c] = n]
  /\ dst' = [dst EXCEPT ![c] = Blank]
  /\ ok' = [ok EXCEPT ![c] = TRUE]
  /\ result' = [result EXCEPT ![c] = "none"]

(* pool_ != nullptr && plan.tasks.size() > 1                               *)
RunPooled(c, n) ==
  /\ n > 1
  /\ BeginRun(c, n)
  /\ BeginBatch(c, n)
  /\ UNCHANGED turn

(* A null pool, one task, or none.                                         *)
RunInline(c, n) ==
  /\ BeginRun(c, n)
  /\ turn' = [turn EXCEPT ![c] = 1]
  /\ UNCHANGED tpVars

(* The caller's own call of execute_task: it starts, succeeds, or fails and *)
(* breaks out of the loop.                                                 *)
InlineStart(c) ==
  /\ turn[c] \in 1..size[c]
  /\ dst[c][turn[c]] = "blank"
  /\ dst' = [dst EXCEPT ![c][turn[c]] = "writing"]
  /\ UNCHANGED <<tpVars, size, ok, turn, result>>

InlineSucceeds(c) ==
  /\ turn[c] \in 1..size[c]
  /\ dst[c][turn[c]] = "writing"
  /\ dst' = [dst EXCEPT ![c][turn[c]] = "good"]
  /\ turn' = [turn EXCEPT ![c] = @ + 1]
  /\ UNCHANGED <<tpVars, size, ok, result>>

InlineFails(c) ==
  /\ turn[c] \in 1..size[c]
  /\ dst[c][turn[c]] = "writing"
  /\ dst' = [dst EXCEPT ![c][turn[c]] = "bad"]
  /\ ok' = [ok EXCEPT ![c] = FALSE]
  /\ turn' = [turn EXCEPT ![c] = size[c] + 1]
  /\ UNCHANGED <<tpVars, size, result>>

(* return ok.load(), after the loop or after batch.wait().                 *)
SetResult(c) ==
  result' = [result EXCEPT ![c] = IF ok[c] THEN "ok" ELSE "failed"]

InlineReturn(c) ==
  /\ turn[c] > size[c]
  /\ SetResult(c)
  /\ turn' = [turn EXCEPT ![c] = 0]
  /\ UNCHANGED <<tpVars, size, dst, ok>>

(* slip: a failed run does not wait for the jobs it has left in the pool.  *)
PooledReturnFailFast(c) ==
  /\ cpc[c] = "wait"
  /\ pending[c] = 0 \/ ~ok[c]
  /\ cpc' = [cpc EXCEPT ![c] = "idle"]
  /\ UNCHANGED <<poolVars, count, next, pending, bmutex, ran>>
  /\ SetResult(c)
  /\ UNCHANGED <<size, dst, ok, turn>>

PooledReturn(c) ==
  /\ WaitReturn(c)
  /\ SetResult(c)
  /\ UNCHANGED <<size, dst, ok, turn>>

-----------------------------------------------------------------------------
(* The lambda of Executor::run on a worker, and execute_task under it.     *)

TileOf(w) == dst[wjob[w].batch][wjob[w].task]

SetTile(w, v) == dst' = [dst EXCEPT ![wjob[w].batch][wjob[w].task] = v]

(* The job finds ok cleared and does nothing.                              *)
JobSkip(w) ==
  /\ wpc[w] = "run"
  /\ ~ok[wjob[w].batch]
  /\ TileOf(w) = "blank"
  /\ RunJob(w)
  /\ UNCHANGED runVars

(* The load of ok is relaxed: it may still return TRUE after another task  *)
(* has cleared the flag, so the start of a task has no guard on ok.        *)
JobStart(w) ==
  /\ wpc[w] = "run"
  /\ TileOf(w) = "blank"
  /\ SetTile(w, "writing")
  /\ UNCHANGED <<tpVars, size, ok, turn, result>>

JobSucceeds(w) ==
  /\ wpc[w] = "run"
  /\ TileOf(w) = "writing"
  /\ RunJob(w)
  /\ SetTile(w, "good")
  /\ UNCHANGED <<size, ok, turn, result>>

(* slip: the failure is reported, not recorded.                            *)
JobFailsUnseen(w) ==
  /\ wpc[w] = "run"
  /\ TileOf(w) = "writing"
  /\ RunJob(w)
  /\ SetTile(w, "bad")
  /\ UNCHANGED <<size, ok, turn, result>>

(* slip: one flag for the pool, not one for each run.                      *)
JobFailsForAll(w) ==
  /\ wpc[w] = "run"
  /\ TileOf(w) = "writing"
  /\ RunJob(w)
  /\ SetTile(w, "bad")
  /\ ok' = [c \in Callers |-> FALSE]
  /\ UNCHANGED <<size, turn, result>>

(* execute_task returns false on any of its error paths, having written    *)
(* nothing, or part of a tile it decodes in place.                         *)
JobFails(w) ==
  /\ wpc[w] = "run"
  /\ TileOf(w) = "writing"
  /\ RunJob(w)
  /\ SetTile(w, "bad")
  /\ ok' = [ok EXCEPT ![wjob[w].batch] = FALSE]
  /\ UNCHANGED <<size, turn, result>>

-----------------------------------------------------------------------------
InlineStep(c) ==
  \/ InlineStart(c)
  \/ InlineSucceeds(c)
  \/ InlineFails(c)
  \/ InlineReturn(c)

JobBody(w) ==
  \/ JobSkip(w)
  \/ JobStart(w)
  \/ JobSucceeds(w)
  \/ JobFails(w)

ExQuiesced == Quiesced /\ (\A c \in Callers : ~Running(c)) /\ UNCHANGED runVars

ExNext ==
  \/ PoolStep /\ UNCHANGED runVars
  \/ ExQuiesced
  \/ \E c \in Callers :
       \/ \E n \in 1..MaxJobs : RunPooled(c, n)
       \/ \E n \in 0..MaxJobs : RunInline(c, n)
       \/ CallerStep(c) /\ UNCHANGED runVars
       \/ PooledReturn(c)
       \/ InlineStep(c)
  \/ \E w \in Workers :
       \/ WorkerStep(w) /\ UNCHANGED runVars
       \/ JobBody(w)

ExSpec == ExInit /\ [][ExNext]_exVars

-----------------------------------------------------------------------------
ExTypeOK ==
  /\ size \in [Callers -> 0..MaxJobs]
  /\ dst \in [Callers -> [1..MaxJobs -> {"blank", "writing", "good", "bad"}]]
  /\ ok \in [Callers -> BOOLEAN]
  /\ turn \in [Callers -> 0..(MaxJobs + 1)]
  /\ result \in [Callers -> {"none", "ok", "failed"}]

(* A run that reports success has decoded every tile of its plan, although *)
(* jobs read ok without synchronisation and skip their tile when it is     *)
(* cleared.                                                                *)
SuccessMeansComplete ==
  \A c \in Callers : result[c] = "ok" => \A t \in 1..size[c] : dst[c][t] = "good"

(* A run that reports failure has a failed tile of its own: a failure in   *)
(* another caller's run on the same pool does not leak into it.            *)
FailureIsOwn ==
  \A c \in Callers : result[c] = "failed" => \E t \in 1..size[c] : dst[c][t] = "bad"

(* What a run promises, with neither pool nor batch in sight.              *)
Run == INSTANCE ParallelRun WITH
         active <- {c \in Callers : Running(c)}

RunSpec == Run!PRSpec

-----------------------------------------------------------------------------
(* Why: how the tiles of a run relate to its jobs, its flag and its size.  *)

JobOf(c, t) == [batch |-> c, task |-> t]

FlagInv == \A c \in Callers :
  /\ ok[c] <=> \A t \in 1..MaxJobs : dst[c][t] # "bad"
  /\ \A t \in 1..MaxJobs : dst[c][t] # "blank" => t <= size[c]

PooledInv == \A c \in Callers : cpc[c] # "idle" =>
  /\ turn[c] = 0 /\ size[c] = count[c] /\ result[c] = "none"
  /\ \A t \in 1..MaxJobs :
       /\ dst[c][t] = "writing" => Taken(JobOf(c, t))
       /\ t \notin ran[c] => dst[c][t] \in {"blank", "writing"}
       /\ t \in ran[c] => dst[c][t] # "writing" /\ (ok[c] => dst[c][t] # "blank")

InlineInv == \A c \in Callers : turn[c] # 0 =>
  /\ result[c] = "none" /\ (turn[c] <= size[c] => ok[c])
  /\ \A t \in 1..MaxJobs :
       /\ dst[c][t] = "writing" => t = turn[c] /\ t <= size[c]
       /\ ok[c] /\ t <= size[c] /\ t < turn[c] => dst[c][t] = "good"

ResultInv == \A c \in Callers :
  ~Running(c) => \A t \in 1..MaxJobs : dst[c][t] # "writing"

(* What every reachable state satisfies and every step preserves.          *)
ExInv ==
  /\ TPInv
  /\ ExTypeOK
  /\ FlagInv
  /\ PooledInv
  /\ InlineInv
  /\ ResultInv
  /\ SuccessMeansComplete
  /\ FailureIsOwn

=============================================================================
