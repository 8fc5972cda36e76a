----------------------------- MODULE Predictor -----------------------------
(***************************************************************************)
(* apply_horizontal_predictor (core/src/predictor.cpp): every row of a     *)
(* tile, stored as differences, becomes its running sums, in place.  Rows  *)
(* of 8, 16 and 32-bit samples go through a register of several lanes at a *)
(* time, summed by shifts that double, and then one by one; 64-bit rows    *)
(* and builds without SIMD are summed one by one.                          *)
(***************************************************************************)
EXTENDS Sequences, PrefixSums

CONSTANTS
  Samples,   (* how many values a sample has: 2^8 ... 2^64                 *)
  Lanes,     (* samples in a register                                      *)
  Sums,      (* how many values the scalar accumulator has, 2^32 or more   *)
  Tiles,     (* tiles that may come: sequences of rows of equal width      *)
  NoTile

ASSUME PredictorAssumption ==
  /\ Samples \in Nat \ {0} /\ Lanes \in Nat \ {0, 1}
  /\ Sums \in Nat /\ \E m \in 1..Sums : Sums = Samples * m
  /\ NoTile \notin Tiles
  /\ Tiles \subseteq Seq(Seq(0..(Samples - 1)))
  /\ \A t \in Tiles : \A k \in 1..Len(t) : Len(t[k]) = Len(t[1]) /\ Len(t[k]) > 0

VARIABLES
  apc,       (* "idle", "row", "scan", "tail" or "done"                    *)
  input,     (* the tile as it was handed over                             *)
  tile,
  r,         (* the row being decoded                                      *)
  i,         (* samples of it that are done                                *)
  x,         (* the register                                               *)
  shift,     (* the distance of the next shift, in lanes                   *)
  acc        (* carry, and in the tail the scalar sum                      *)

prVars == <<apc, input, tile, r, i, x, shift, acc>>

Height == Len(tile)
Width == Len(tile[r])

-----------------------------------------------------------------------------
(* A tile is its samples and has no address: that a tile which is decoded  *)
(* in place begins at a multiple of the sample's size is asserted by the   *)
(* code and left to its callers, who do not all of them check it.          *)
PRInit ==
  /\ apc = "idle" /\ input = NoTile /\ tile = NoTile
  /\ r = 1 /\ i = 0 /\ x = <<>> /\ shift = 1 /\ acc = 0

(* A tile one sample wide, or with no row, is left as it is.               *)
PredictBegin(t) ==
  /\ apc = "idle"
  /\ input' = t /\ tile' = t
  /\ apc' = IF t # <<>> /\ Len(t[1]) > 1 THEN "row" ELSE "done"
  /\ UNCHANGED <<r, i, x, shift, acc>>

(* decode_row_simd: before the first block.                                *)
BeginSimdRow ==
  /\ apc = "row"
  /\ apc' = "scan" /\ i' = 0 /\ x' = <<>> /\ acc' = 0
  /\ UNCHANGED <<input, tile, r, shift>>

(* decode_row: the first sample is its own sum.                            *)
BeginScalarRow ==
  /\ apc = "row"
  /\ apc' = "tail" /\ i' = 1 /\ acc' = tile[r][1]
  /\ UNCHANGED <<input, tile, r, x, shift>>

LoadBlock ==
  /\ apc = "scan" /\ x = <<>> /\ i + Lanes <= Width
  /\ x' = [l \in 1..Lanes |-> tile[r][i + l]] /\ shift' = 1
  /\ UNCHANGED <<apc, input, tile, r, i, acc>>

(* slip: the shift grows by one lane and not to twice the lanes.           *)
NextShiftByOne == shift + 1

NextShift == 2 * shift

(* x += x shifted up by so many lanes; zeros come in.                      *)
ShiftAdd ==
  /\ apc = "scan" /\ x # <<>> /\ shift < Lanes
  /\ x' = [l \in 1..Lanes |-> (x[l] + IF l > shift THEN x[l - shift] ELSE 0) % Samples]
  /\ shift' = NextShift
  /\ UNCHANGED <<apc, input, tile, r, i, acc>>

(* slip: the next block is seeded with this block's sum alone.             *)
CarryOfBlock == x[Lanes]

CarryOut == (x[Lanes] + acc) % Samples

StoreBlock ==
  /\ apc = "scan" /\ x # <<>> /\ shift >= Lanes
  /\ tile' = [tile EXCEPT ![r] = [c \in DOMAIN @ |->
                IF c \in (i + 1)..(i + Lanes) THEN (x[c - i] + acc) % Samples ELSE @[c]]]
  /\ acc' = CarryOut /\ i' = i + Lanes /\ x' = <<>>
  /\ UNCHANGED <<apc, input, r, shift>>

EndBlocks ==
  /\ apc = "scan" /\ x = <<>> /\ i + Lanes > Width
  /\ apc' = "tail"
  /\ UNCHANGED <<input, tile, r, i, x, shift, acc>>

TailSample ==
  /\ apc = "tail" /\ i < Width
  /\ acc' = (acc + tile[r][i + 1]) % Sums
  /\ tile' = [tile EXCEPT ![r][i + 1] = acc' % Samples]
  /\ i' = i + 1
  /\ UNCHANGED <<apc, input, r, x, shift>>

EndRow ==
  /\ apc = "tail" /\ i = Width
  /\ IF r < Height THEN apc' = "row" /\ r' = r + 1 ELSE apc' = "done" /\ UNCHANGED r
  /\ UNCHANGED <<input, tile, i, x, shift, acc>>

PredictReturn ==
  /\ apc = "done"
  /\ apc' = "idle" /\ input' = NoTile /\ tile' = NoTile
  /\ r' = 1 /\ i' = 0 /\ x' = <<>> /\ shift' = 1 /\ acc' = 0

PRNext == \/ apc = "idle" /\ \E t \in Tiles : PredictBegin(t)
          \/ BeginSimdRow \/ BeginScalarRow \/ LoadBlock \/ ShiftAdd \/ StoreBlock
          \/ EndBlocks \/ TailSample \/ EndRow \/ PredictReturn

PRSpec == PRInit /\ [][PRNext]_prVars

-----------------------------------------------------------------------------
(* A row that has been decoded is the running sum of what was stored.      *)
RunningSum(w, c) == PrefixSum(input[w], c) % Samples

RowDecoded(w) == \A c \in 1..Len(tile[w]) : tile[w][c] = RunningSum(w, c)

(* A decoded tile is, row by row, the running sums of its differences in   *)
(* the arithmetic of the sample type, whatever the register did.           *)
TileDecoded == apc = "done" => \A w \in 1..Height : RowDecoded(w)

(* The loop invariant of a row: the samples behind the cursor are decoded  *)
(* and those ahead are still differences; the accumulator agrees with the  *)
(* last one decoded; and lane l of the register sums the shift lanes that  *)
(* end at l, the difference of two running sums.                           *)
ScanInv ==
  LET sum(c) == PrefixSum(input[r], c)
      Before(l) == IF l > shift THEN l - shift ELSE 0
  IN  /\ i \in 0..Width
      /\ \A c \in 1..Width : tile[r][c] = IF c <= i THEN RunningSum(r, c) ELSE input[r][c]
      /\ acc % Samples = IF i = 0 THEN 0 ELSE tile[r][i]
      /\ x # <<>> =>
           /\ i + Lanes <= Width
           /\ \A l \in 1..Lanes : x[l] = (sum(i + l) - sum(i + Before(l))) % Samples

(* The rows above the current one are decoded, those below are untouched.  *)
RowsInv ==
  /\ r \in 1..Height
  /\ \A w \in 1..Height : /\ w < r => RowDecoded(w)
                          /\ w > r => tile[w] = input[w]

(* The inductive invariant of the whole tile; its first part is the type   *)
(* of the state.                                                           *)
PRInv ==
  /\ apc \in {"idle", "row", "scan", "tail", "done"}
  /\ acc \in Nat /\ shift \in Nat \ {0}
  /\ x = <<>> \/ (apc = "scan" /\ x \in [1..Lanes -> 0..(Samples - 1)])
  /\ apc = "idle" => r = 1
  /\ apc # "idle" =>
       /\ input \in Tiles /\ tile \in Seq(Seq(0..(Samples - 1)))
       /\ Height = Len(input) /\ \A w \in 1..Height : Len(tile[w]) = Len(input[w])
  /\ apc \in {"row", "scan", "tail"} => RowsInv
  /\ apc = "row" => tile[r] = input[r]
  /\ apc \in {"scan", "tail"} => ScanInv
  /\ TileDecoded
=============================================================================
