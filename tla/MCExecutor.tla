----------------------------- MODULE MCExecutor -----------------------------
(* Small instances of Executor::run over the thread pool for TLC.          *)
EXTENDS Executor, TLC

(* Threads are interchangeable: no definition names one of them.           *)
Symmetry == Permutations(Workers) \cup Permutations(Callers)
=============================================================================
