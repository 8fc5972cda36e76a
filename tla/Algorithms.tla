------------------------------ MODULE Algorithms ------------------------------
(***************************************************************************)
(* The two pure algorithms of a read, each called to its end before the    *)
(* other: compile_layout (module Layout) before the first tile is fetched, *)
(* and the predictor (module Predictor) on each tile.  They have no state  *)
(* in common.                                                              *)
(***************************************************************************)
EXTENDS Layout, Predictor

ALInit == LOInit /\ PRInit

ALNext ==
  \/ apc = "idle" /\ LONext /\ UNCHANGED prVars
  \/ lpc = "idle" /\ PRNext /\ UNCHANGED loVars

ALSpec == ALInit /\ [][ALNext]_<<loVars, prVars>>
=============================================================================
