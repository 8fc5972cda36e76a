---------------------------- MODULE MCThreadPool ----------------------------
(* A small instance of the thread pool for TLC.                            *)
EXTENDS ThreadPool
=============================================================================
