------------------------------ MODULE FrontEnds ------------------------------
(***************************************************************************)
(* The two ways into a plan, the stateless reads and the GDAL driver, in   *)
(* one process, one call at a time and the stateless ones while no dataset *)
(* is open: they have no state in common with it, and two plans under way  *)
(* share nothing but the thread pool (modules ThreadPool and Executor).    *)
(***************************************************************************)
EXTENDS Read, Driver

feVars == <<readVars, openVars, askVars, plVars>>

FEInit == RDInit /\ DRInit

FENext ==
  \/ ds \in {"unregistered", "none"} /\ RDNext /\ UNCHANGED <<openVars, askVars>>
  \/ rpc = "idle" /\ DRNext /\ UNCHANGED readVars

FESpec == FEInit /\ [][FENext]_feVars
=============================================================================
