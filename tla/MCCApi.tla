------------------------------- MODULE MCCApi -------------------------------
(* The C interface for TLC: the cfg files say how many threads of each     *)
(* kind there are.  Threads are not interchangeable: messages name them.   *)
EXTENDS CApi
=============================================================================
