----------------------------- MODULE PrefixSums -----------------------------
(***************************************************************************)
(* Running sums, the operator that the properties of the parser, of the    *)
(* builder and of the predictor have in common.  It is a recursive         *)
(* function and no fold, so that the provers can be taught to unfold it.   *)
(***************************************************************************)
EXTENDS Integers

(* f[1] + ... + f[n]                                                       *)
PrefixSum(f, n) ==
  LET sum[k \in Nat] == IF k = 0 THEN 0 ELSE sum[k - 1] + f[k]
  IN  sum[n]
=============================================================================
