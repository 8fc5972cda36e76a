--------------------------- MODULE ExecutorFaults ---------------------------
(***************************************************************************)
(* Executor::run when memory runs out.  Batch::submit allocates: the       *)
(* std::function made from the lambda, the wrapper around it, the node of  *)
(* std::queue.  Nothing in Executor::run or read_window catches            *)
(* std::bad_alloc, and Batch has no destructor that waits; capi_call turns *)
(* the exception into SHORTCOG_ERR_OOM and the caller goes on.             *)
(***************************************************************************)
EXTENDS Executor

(* An allocation of submit() fails, before ++pending_ or after it.  The    *)
(* batch, the flag and the plan are unwound, whatever is queued.           *)
SubmitThrows(c) ==
  /\ cpc[c] \in {"submit", "push"}
  /\ cpc' = [cpc EXCEPT ![c] = "idle"]
  /\ UNCHANGED <<poolVars, count, next, pending, bmutex, ran, runVars>>

FaultNext == ExNext \/ \E c \in Callers : SubmitThrows(c)

FaultSpec == ExInit /\ [][FaultNext]_exVars
=============================================================================
