-------------------------- MODULE MCExecutorFaults --------------------------
(* One caller whose second submit runs out of memory, for TLC.             *)
EXTENDS ExecutorFaults
=============================================================================
