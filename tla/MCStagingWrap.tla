----------------------------- MODULE MCStagingWrap -----------------------------
(***************************************************************************)
(* A staged read whose window has more bytes than size_t counts: two bands *)
(* of 32 bytes each, in six bits.  Image::IRasterIO bounds neither the     *)
(* window times the bands nor their number, and a band may be repeated.    *)
(***************************************************************************)
EXTENDS Driver

WideRaster ==
  [width |-> 8, length |-> 4, tw |-> 4, tl |-> 2, bps |-> 1, spp |-> 1, predictor |-> 1]

Overview(bands) ==
  [write |-> FALSE, null |-> FALSE, y_off |-> 0, y_size |-> 4, x_off |-> 0, x_size |-> 8,
   buf_y |-> 1, buf_x |-> 1, type |-> "native", bands |-> bands,
   pixel |-> 1, line |-> 1, band |-> 1,
   float |-> FALSE, fx |-> 0, fxs |-> 0, fy |-> 0, fys |-> 0]

MCRasters == {WideRaster}
MCRequests == {Overview(<<1>>), Overview(<<1, 1>>)}
=============================================================================
