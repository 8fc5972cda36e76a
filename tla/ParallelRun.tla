---------------------------- MODULE ParallelRun -----------------------------
(***************************************************************************)
(* What Executor::run promises to the thread that calls it, with neither   *)
(* pool nor batch in sight: the tiles of a run are decoded in any order,   *)
(* each at most once; the run returns when none is being written any more; *)
(* it returns TRUE only if every tile is in place and FALSE only if one of *)
(* its own tiles failed.                                                   *)
(***************************************************************************)
EXTENDS Naturals

CONSTANTS Callers, MaxJobs

VARIABLES
  active,    (* the calls in progress                                      *)
  size,      (* how many tiles the call decodes                            *)
  dst,       (* the part of the destination each tile fills                *)
  result     (* what the last call of the thread returned                  *)

prVars == <<active, size, dst, result>>

Blank == [t \in 1..MaxJobs |-> "blank"]

PRInit ==
  /\ active = {}
  /\ size = [c \in Callers |-> 0]
  /\ dst = [c \in Callers |-> Blank]
  /\ result = [c \in Callers |-> "none"]

Start(c, n) ==
  /\ c \notin active
  /\ active' = active \cup {c}
  /\ size' = [size EXCEPT ![c] = n]
  /\ dst' = [dst EXCEPT ![c] = Blank]
  /\ result' = [result EXCEPT ![c] = "none"]

(* A destination once written is never written again by the same run.      *)
Write(c, t) ==
  /\ c \in active
  /\ t <= size[c]
  /\ dst[c][t] = "blank"
  /\ dst' = [dst EXCEPT ![c][t] = "writing"]
  /\ UNCHANGED <<active, size, result>>

Settle(c, t) ==
  /\ c \in active
  /\ dst[c][t] = "writing"
  /\ \E v \in {"good", "bad"} : dst' = [dst EXCEPT ![c][t] = v]
  /\ UNCHANGED <<active, size, result>>

Return(c) ==
  /\ c \in active
  /\ \A t \in 1..size[c] : dst[c][t] # "writing"
  /\ \/ /\ \A t \in 1..size[c] : dst[c][t] = "good"
        /\ result' = [result EXCEPT ![c] = "ok"]
     \/ /\ \E t \in 1..size[c] : dst[c][t] = "bad"
        /\ result' = [result EXCEPT ![c] = "failed"]
  /\ active' = active \ {c}
  /\ UNCHANGED <<size, dst>>

PRNext ==
  \E c \in Callers :
    \/ \E n \in 0..MaxJobs : Start(c, n)
    \/ \E t \in 1..MaxJobs : Write(c, t) \/ Settle(c, t)
    \/ Return(c)

PRSpec == PRInit /\ [][PRNext]_prVars
=============================================================================
