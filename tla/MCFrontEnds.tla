----------------------------- MODULE MCFrontEnds -----------------------------
(***************************************************************************)
(* Requests of the driver for TLC, next to the calls of MCRead: windows of *)
(* every alignment, direct with three kinds of spacing, resampled to       *)
(* smaller and larger buffers, converted, through a floating window; and   *)
(* what is refused.                                                        *)
(***************************************************************************)
EXTENDS FrontEnds, MCRead

(* 13 * 15 tiles, which six bits count as 3: the tables have three entries. *)
Vast == [width |-> 13, length |-> 15, tw |-> 1, tl |-> 1, bps |-> 1, spp |-> 1, predictor |-> 1]

MCRasters == {Two, Strip, Vast}

Plain(y, x, bands, buf, spacing) ==
  [write |-> FALSE, null |-> FALSE, y_off |-> y[1], y_size |-> y[2], x_off |-> x[1], x_size |-> x[2],
   buf_y |-> buf[1], buf_x |-> buf[2], type |-> "native", bands |-> bands,
   pixel |-> spacing[1], line |-> spacing[2], band |-> spacing[3],
   float |-> FALSE, fx |-> 0, fxs |-> 0, fy |-> 0, fys |-> 0]

(* Samples of two bytes at most: rows of three, pixels interleaved, and    *)
(* tight rows of one tile.                                                 *)
Spaced ==
  {Plain(y, x, <<1>>, <<y[2], x[2]>>, <<2, 6, 18>>) :
     y \in {<<0, 1>>, <<1, 2>>}, x \in {<<0, 3>>, <<1, 2>>, <<2, 1>>}}
  \cup {Plain(<<0, 2>>, x, <<2, 1>>, <<2, x[2]>>, <<4, 12, 2>>) : x \in {<<0, 2>>, <<1, 2>>}}
  \cup {Plain(y, <<0, 2>>, <<1>>, <<y[2], 2>>, <<1, 2, 4>>) : y \in {<<0, 2>>, <<1, 2>>}}

Resampled ==
  {Plain(y, x, <<2>>, b, <<2, 8, 32>>) :
     y \in {<<0, 1>>, <<1, 2>>}, x \in {<<0, 3>>, <<1, 2>>, <<2, 1>>}, b \in {<<1, 1>>, <<2, 4>>}}
  \cup {Plain(<<0, 1>>, <<1, 2>>, <<2, 1>>, <<3, 3>>, <<2, 8, 32>>)}

Converted == {[Plain(y, <<1, 2>>, <<1>>, <<y[2], 2>>, <<4, 8, 16>>) EXCEPT !.type = "other"]
                : y \in {<<0, 1>>, <<1, 2>>}}

(* A window of three half pixels that begins between two samples, and one  *)
(* in the last tile.                                                       *)
Floating ==
  {[Plain(<<1, 2>>, <<1, 2>>, <<1>>, <<n, n>>, <<2, 6, 18>>)
      EXCEPT !.float = TRUE, !.fx = 3, !.fxs = 3, !.fy = 2, !.fys = 4] : n \in {1, 3}}
  \cup {[Plain(<<1, 2>>, <<2, 1>>, <<1>>, <<3, 2>>, <<2, 6, 18>>)
      EXCEPT !.float = TRUE, !.fx = 4, !.fxs = 2, !.fy = 3, !.fys = 3]}

Unfit ==
  LET r == Plain(<<0, 1>>, <<0, 1>>, <<1>>, <<1, 1>>, <<2, 6, 18>>)
  IN  {[r EXCEPT !.write = TRUE], [r EXCEPT !.null = TRUE], [r EXCEPT !.pixel = 0],
       [r EXCEPT !.bands = <<1, 1>>, !.band = -2], [r EXCEPT !.x_size = 4], [r EXCEPT !.y_off = -1]}

(* Four tiles of the first row of Vast, the last one beyond its tables, and *)
(* the three that are inside.                                              *)
MCAllCalls == MCCalls \cup {One(Vast, <<1>>, <<"b", "y", "x">>, <<0, 1>>, <<0, n>>, 4) : n \in {3, 4}}

MCRequests == Spaced \cup Resampled \cup Converted \cup Floating \cup Unfit
=============================================================================
