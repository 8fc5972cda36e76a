----------------------------- MODULE MCAlgorithms -----------------------------
(***************************************************************************)
(* For TLC: every box of up to three per axis, and the empty ones; every   *)
(* row of up to five samples, rows of two registers and a rest, and tiles  *)
(* of two rows.                                                            *)
(***************************************************************************)
EXTENDS Algorithms

MCExtents == (1..2) \X (1..3) \X (1..3) \X (1..3)
             \cup {<<0, 1, 1, 1>>, <<1, -1, 2, 2>>, <<1, 1, 0, 1>>, <<2, 2, 2, 0>>}

Row(n) == [1..n -> 0..(Samples - 1)]

MCTiles ==
  {<<row>> : row \in UNION {Row(n) : n \in 1..5} \cup [1..9 -> {1, 3}]}
  \cup [1..2 -> [1..5 -> {0, 3}]] \cup {<<>>}
=============================================================================
