---------------------------- MODULE PredictorProofs ----------------------------
(***************************************************************************)
(* What is proved about the horizontal predictor, for samples, registers   *)
(* and tiles of every size: however a row is cut into registers, shifts    *)
(* and a rest, and in an accumulator as wide as one likes, every sample    *)
(* becomes the running sum of the differences up to it, in the arithmetic  *)
(* of the sample type.                                                     *)
(***************************************************************************)
EXTENDS Predictor, ArithmeticProofs

(* What is added may be known up to multiples of m only.                   *)
LEMMA CongruentSum ==
  ASSUME NEW m \in Nat \ {0}, NEW a \in Nat, NEW b \in Nat, NEW c \in Nat, b % m = c % m
  PROVE  (b + a) % m = (c + a) % m
<1>1. ((b % m) + a) % m = (b + a) % m /\ ((c % m) + a) % m = (c + a) % m
  BY RemainderOfSum
<1>2. QED
  BY <1>1

LEMMA RemainderTwice ==
  ASSUME NEW m \in Nat \ {0}, NEW a \in Nat
  PROVE  (a % m) % m = a % m /\ a % m \in 0..(m - 1) /\ (a < m => a % m = a)
<1>1. a % m \in 0..(m - 1)
  BY RemainderParts
<1>2. \A b \in 0..(m - 1) : b % m = b
  <2>1. m - 1 \in Nat /\ (m - 1) + 1 = m
    OBVIOUS
  <2>2. \A b \in 0..(m - 1) : b % ((m - 1) + 1) = b
    BY <2>1, NoWrap
  <2>3. QED
    BY <2>1, <2>2
<1>3. QED
  BY <1>1, <1>2

LEMMA SmallRemainder ==
  ASSUME NEW m \in Nat \ {0}, NEW v \in 0..(m - 1)
  PROVE  v % m = v
BY RemainderTwice

-----------------------------------------------------------------------------
(* The tile, the row and its sums.                                         *)

(* Functions on 1..n and sequences of length n are the same.               *)
LEMMA FunctionIsSeq ==
  ASSUME NEW V, NEW n \in Nat, NEW f \in [1..n -> V]
  PROVE  f \in Seq(V) /\ Len(f) = n
OBVIOUS

LEMMA SeqIsFunction ==
  ASSUME NEW V, NEW s \in Seq(V)
  PROVE  Len(s) \in Nat /\ s \in [1..Len(s) -> V]
OBVIOUS

(* One row of a tile is replaced by a row of the same width.               *)
LEMMA RowReplaced ==
  ASSUME NEW V, NEW t \in Seq(Seq(V)), NEW k \in 1..Len(t), NEW row \in [1..Len(t[k]) -> V]
  PROVE  LET u == [t EXCEPT ![k] = row]
         IN  /\ u \in Seq(Seq(V)) /\ Len(u) = Len(t) /\ u[k] = row
             /\ \A w \in 1..Len(t) : Len(u[w]) = Len(t[w]) /\ (w # k => u[w] = t[w])
<1> DEFINE u == [t EXCEPT ![k] = row]
<1>1. row \in Seq(V) /\ Len(row) = Len(t[k])
  <2>1. t[k] \in Seq(V)
    OBVIOUS
  <2>2. Len(t[k]) \in Nat
    BY <2>1
  <2>3. QED
    BY <2>2, FunctionIsSeq
<1>2. u \in [1..Len(t) -> Seq(V)] /\ Len(t) \in Nat
  BY <1>1
<1>3. u \in Seq(Seq(V)) /\ Len(u) = Len(t)
  BY <1>2
<1>4. u[k] = row /\ \A w \in 1..Len(t) : w # k => u[w] = t[w]
  OBVIOUS
<1>5. QED
  BY <1>1, <1>3, <1>4

(* What is known while a tile is decoded.                                  *)
LEMMA TileFacts ==
  ASSUME PRInv, apc # "idle"
  PROVE  /\ input \in Tiles /\ tile \in Seq(Seq(0..(Samples - 1)))
         /\ Height \in Nat /\ Height = Len(input)
         /\ \A w \in 1..Height :
              /\ Len(tile[w]) = Len(input[w]) /\ Len(tile[w]) \in Nat \ {0}
              /\ tile[w] \in [1..Len(tile[w]) -> 0..(Samples - 1)]
              /\ input[w] \in [1..Len(tile[w]) -> 0..(Samples - 1)]
         /\ Samples \in Nat \ {0} /\ Lanes \in Nat \ {0, 1}
<1>1. /\ input \in Tiles /\ tile \in Seq(Seq(0..(Samples - 1))) /\ Height = Len(input)
      /\ \A w \in 1..Height : Len(tile[w]) = Len(input[w])
  BY DEF PRInv
<1>2. Height \in Nat
  BY <1>1 DEF Height
<1>3. input \in Seq(Seq(0..(Samples - 1))) /\ \A k \in 1..Len(input) : Len(input[k]) > 0
  BY <1>1, PredictorAssumption
<1>4. ASSUME NEW w \in 1..Height
      PROVE  /\ Len(tile[w]) \in Nat \ {0}
             /\ tile[w] \in [1..Len(tile[w]) -> 0..(Samples - 1)]
             /\ input[w] \in [1..Len(tile[w]) -> 0..(Samples - 1)]
  <2>1. tile[w] \in Seq(0..(Samples - 1)) /\ input[w] \in Seq(0..(Samples - 1))
    BY <1>1, <1>3 DEF Height
  <2>2. Len(tile[w]) = Len(input[w]) /\ Len(input[w]) > 0
    BY <1>1, <1>3
  <2>3. /\ Len(tile[w]) \in Nat /\ tile[w] \in [1..Len(tile[w]) -> 0..(Samples - 1)]
        /\ Len(input[w]) \in Nat /\ input[w] \in [1..Len(input[w]) -> 0..(Samples - 1)]
    BY <2>1, SeqIsFunction
  <2>4. QED
    BY <2>2, <2>3
<1>5. QED
  BY <1>1, <1>2, <1>4, PredictorAssumption

(* The sums of a row are numbers, grow, and begin with its first sample.   *)
LEMMA RowSums ==
  ASSUME PRInv, apc # "idle", NEW w \in 1..Height
  PROVE  /\ PrefixSum(input[w], 0) = 0
         /\ \A c \in 0..Len(tile[w]) : PrefixSum(input[w], c) \in Nat
         /\ \A c \in 0..Len(tile[w]) :
              c < Len(tile[w]) =>
                PrefixSum(input[w], c + 1) = PrefixSum(input[w], c) + input[w][c + 1]
         /\ \A a, b \in 0..Len(tile[w]) : a <= b => PrefixSum(input[w], a) <= PrefixSum(input[w], b)
         /\ PrefixSum(input[w], 1) = input[w][1]
<1> DEFINE f == input[w]
           n == Len(tile[w])
<1>1. n \in Nat \ {0} /\ \A c \in 1..n : f[c] \in Nat
  BY TileFacts, SMTT(30)
<1> HIDE DEF f, n
<1>2. PrefixSum(f, 0) = 0 /\ \A c \in Nat : PrefixSum(f, c + 1) = PrefixSum(f, c) + f[c + 1]
  BY PrefixSumUnfold
<1>3. ASSUME NEW b \in 0..n
      PROVE  /\ PrefixSum(f, b) \in Nat
             /\ \A a \in 0..n : a <= b => PrefixSum(f, a) <= PrefixSum(f, b)
  <2>1. b \in Nat /\ \A c \in 1..b : f[c] \in Nat
    BY <1>1
  <2>2. \A k \in 0..b : PrefixSum(f, k) \in Nat /\ PrefixSum(f, k) <= PrefixSum(f, b)
    BY <2>1, PrefixSumGrows
  <2>3. QED
    BY <1>1, <2>1, <2>2
<1>4. PrefixSum(f, 1) = f[1]
  <2>1. PrefixSum(f, 0 + 1) = PrefixSum(f, 0) + f[0 + 1]
    BY <1>2
  <2>2. f[1] \in Nat
    BY <1>1
  <2>3. QED
    BY <1>2, <2>1, <2>2
<1>5. \A c \in 0..n : c < n => PrefixSum(f, c + 1) = PrefixSum(f, c) + f[c + 1]
  BY <1>1, <1>2
<1>6. \A a, b \in 0..n : a <= b => PrefixSum(f, a) <= PrefixSum(f, b)
  BY <1>3
<1>7. \A c \in 0..n : PrefixSum(f, c) \in Nat
  BY <1>3
<1>8. QED
  BY <1>2, <1>4, <1>5, <1>6, <1>7 DEF f, n

(* The row that is being decoded.                                          *)
LEMMA CurrentRow ==
  ASSUME PRInv, apc \in {"row", "scan", "tail"}
  PROVE  /\ RowsInv /\ r \in 1..Height /\ Width \in Nat \ {0}
         /\ tile[r] \in [1..Width -> 0..(Samples - 1)] /\ input[r] \in [1..Width -> 0..(Samples - 1)]
         /\ \A c \in 0..Width : PrefixSum(input[r], c) \in Nat
         /\ \A c \in 0..Width :
              c < Width => PrefixSum(input[r], c + 1) = PrefixSum(input[r], c) + input[r][c + 1]
         /\ \A a, b \in 0..Width : a <= b => PrefixSum(input[r], a) <= PrefixSum(input[r], b)
         /\ PrefixSum(input[r], 0) = 0 /\ PrefixSum(input[r], 1) = input[r][1]
         /\ \A c : RunningSum(r, c) = PrefixSum(input[r], c) % Samples
<1>1. RowsInv /\ r \in 1..Height
  BY DEF PRInv, RowsInv
<1>2. QED
  BY <1>1, TileFacts, RowSums DEF Width, RunningSum

(* The accumulator is the sum of what is decoded, up to Samples.           *)
LEMMA AccIsSum ==
  ASSUME PRInv, apc \in {"scan", "tail"}
  PROVE  /\ ScanInv /\ i \in 0..Width /\ acc \in Nat
         /\ acc % Samples = PrefixSum(input[r], i) % Samples
<1>1. ScanInv /\ acc \in Nat
  BY DEF PRInv
<1>2. i \in 0..Width /\ acc % Samples = (IF i = 0 THEN 0 ELSE tile[r][i])
      /\ \A c \in 1..Width : c <= i => tile[r][c] = RunningSum(r, c)
  BY <1>1 DEF ScanInv
<1>3. CASE i = 0
  <2>1. PrefixSum(input[r], i) = 0
    BY <1>3, CurrentRow
  <2>2. 0 % Samples = 0
    BY PredictorAssumption, RemainderTwice
  <2>3. QED
    BY <1>1, <1>2, <1>3, <2>1, <2>2
<1>4. CASE i # 0
  <2>1. i \in 1..Width
    BY <1>2, <1>4, CurrentRow
  <2>2. tile[r][i] = PrefixSum(input[r], i) % Samples
    BY <1>2, <2>1, CurrentRow
  <2>3. QED
    BY <1>1, <1>2, <1>4, <2>2
<1>5. QED
  BY <1>3, <1>4

(* What the steps that leave the tile alone keep.                          *)
LEMMA TileKept ==
  ASSUME PRInv, apc # "idle", UNCHANGED <<input, tile>>
  PROVE  /\ input' \in Tiles /\ tile' \in Seq(Seq(0..(Samples - 1)))
         /\ Height' = Len(input') /\ \A w \in 1..Height' : Len(tile'[w]) = Len(input'[w])
         /\ UNCHANGED r /\ RowsInv => RowsInv' /\ Width' = Width
         /\ Height' = Height
         /\ \A w : RowDecoded(w)' <=> RowDecoded(w)
         /\ \A w, c : RunningSum(w, c)' = RunningSum(w, c)
<1>1. input' = input /\ tile' = tile
  OBVIOUS
<1>2. \A w, c : RunningSum(w, c)' = RunningSum(w, c)
  BY <1>1 DEF RunningSum
<1>3. \A w : RowDecoded(w)' <=> RowDecoded(w)
  BY <1>1, <1>2 DEF RowDecoded
<1>4. Height' = Height
  BY <1>1 DEF Height
<1>5. UNCHANGED r /\ RowsInv => RowsInv' /\ Width' = Width
  BY <1>1, <1>3, <1>4 DEF RowsInv, Width
<1>6. QED
  BY <1>1, <1>2, <1>3, <1>4, <1>5 DEF PRInv

-----------------------------------------------------------------------------
(* The steps.                                                              *)

LEMMA PredictBeginInv ==
  ASSUME PRInv, NEW t \in Tiles, PredictBegin(t), apc = "idle"
  PROVE  PRInv'
<1>1. /\ input' = t /\ tile' = t /\ apc' = (IF t # <<>> /\ Len(t[1]) > 1 THEN "row" ELSE "done")
      /\ UNCHANGED <<r, i, x, shift, acc>>
  BY DEF PredictBegin
<1>2. /\ r = 1 /\ acc \in Nat /\ shift \in Nat \ {0} /\ x = <<>>
  BY DEF PRInv
<1>3. /\ t \in Seq(Seq(0..(Samples - 1))) /\ Samples \in Nat \ {0}
      /\ \A k \in 1..Len(t) : Len(t[k]) = Len(t[1]) /\ Len(t[k]) > 0
  BY PredictorAssumption
<1>4. Len(t) \in Nat /\ (t # <<>> => 1 \in 1..Len(t)) /\ Height' = Len(t)
  BY <1>1, <1>3 DEF Height
<1>5. apc' = "row" => RowsInv'
  BY <1>1, <1>2, <1>4 DEF RowsInv
<1>6. TileDecoded'
  <2> SUFFICES ASSUME apc' = "done", NEW w \in 1..Len(t)
               PROVE  \A c \in 1..Len(t[w]) : t[w][c] = PrefixSum(t[w], c) % Samples
    BY <1>1, <1>4 DEF TileDecoded, RowDecoded, RunningSum
  <2>1. t # <<>> /\ ~(Len(t[1]) > 1)
    BY <1>1, <1>4
  <2>2. t[w] \in Seq(0..(Samples - 1))
    BY <1>3
  <2>3. Len(t[w]) = 1
    <3> DEFINE n == Len(t[w])
    <3>1. n = Len(t[1])
      BY <1>3
    <3>2. n > 0 /\ n \in Nat /\ ~(n > 1)
      BY <1>3, <2>1, <2>2, <3>1, SeqIsFunction
    <3> HIDE DEF n
    <3>3. n = 1
      BY <3>2
    <3>4. QED
      BY <3>3 DEF n
  <2>4. t[w][1] \in 0..(Samples - 1)
    <3>1. t[w] \in [1..Len(t[w]) -> 0..(Samples - 1)]
      BY <2>2, SeqIsFunction
    <3>2. 1 \in 1..Len(t[w])
      BY <2>3
    <3>3. QED
      BY <3>1, <3>2
  <2>5. PrefixSum(t[w], 1) = t[w][1]
    <3>1. PrefixSum(t[w], 0) = 0 /\ PrefixSum(t[w], 0 + 1) = PrefixSum(t[w], 0) + t[w][0 + 1]
      BY PrefixSumUnfold
    <3>2. QED
      BY <2>4, <3>1
  <2>6. t[w][1] % Samples = t[w][1]
    BY <1>3, <2>4, SmallRemainder
  <2>7. QED
    BY <2>3, <2>5, <2>6
<1>7. QED
  BY <1>1, <1>2, <1>3, <1>4, <1>5, <1>6 DEF PRInv

LEMMA BeginSimdRowInv ==
  ASSUME PRInv, BeginSimdRow
  PROVE  PRInv'
<1>1. /\ apc = "row" /\ apc' = "scan" /\ i' = 0 /\ x' = <<>> /\ acc' = 0
      /\ UNCHANGED <<input, tile, r, shift>>
  BY DEF BeginSimdRow
<1>2. tile[r] = input[r] /\ shift \in Nat \ {0}
  BY <1>1 DEF PRInv
<1>3. ScanInv'
  <2>1. 0 % Samples = 0
    BY PredictorAssumption, RemainderTwice
  <2>2. Width' = Width /\ Width \in Nat
    BY <1>1, TileKept, CurrentRow
  <2>3. \A c \in 1..Width : ~(c <= 0)
    BY <2>2
  <2>4. QED
    BY <1>1, <1>2, <2>1, <2>2, <2>3 DEF ScanInv
<1>4. RowsInv'
  BY <1>1, TileKept, CurrentRow
<1>5. TileDecoded'
  BY <1>1 DEF TileDecoded
<1>6. QED
  BY <1>1, <1>2, <1>3, <1>4, <1>5, TileKept DEF PRInv

LEMMA BeginScalarRowInv ==
  ASSUME PRInv, BeginScalarRow
  PROVE  PRInv'
<1>1. /\ apc = "row" /\ apc' = "tail" /\ i' = 1 /\ acc' = tile[r][1]
      /\ UNCHANGED <<input, tile, r, x, shift>>
  BY DEF BeginScalarRow
<1>2. tile[r] = input[r] /\ shift \in Nat \ {0} /\ x = <<>>
  BY <1>1 DEF PRInv
<1>3. Width' = Width /\ Width \in Nat \ {0} /\ tile[r] \in [1..Width -> 0..(Samples - 1)]
  BY <1>1, TileKept, CurrentRow
<1>4. tile[r][1] \in 0..(Samples - 1) /\ Samples \in Nat \ {0}
  BY <1>3, PredictorAssumption
<1>5. tile[r][1] % Samples = tile[r][1]
  BY <1>4, SmallRemainder
<1>6. RunningSum(r, 1) = tile[r][1]
  BY <1>1, <1>2, <1>5, CurrentRow
<1>7. ScanInv'
  <2>1. \A c \in 1..Width : (c <= 1) => c = 1
    BY <1>3
  <2>2. RunningSum(r, 1)' = RunningSum(r, 1)
    BY <1>1, TileKept
  <2>3. \A c \in 1..Width' : tile'[r'][c] = IF c <= i' THEN RunningSum(r, c)' ELSE input'[r'][c]
    BY <1>1, <1>2, <1>3, <1>6, <2>1, <2>2
  <2>4. i' \in 0..Width' /\ acc' % Samples = tile'[r'][i'] /\ i' # 0 /\ x' = <<>>
    BY <1>1, <1>2, <1>3, <1>5
  <2>5. QED
    BY <1>1, <2>3, <2>4 DEF ScanInv
<1>8. RowsInv'
  BY <1>1, TileKept, CurrentRow
<1>9. TileDecoded'
  BY <1>1 DEF TileDecoded
<1>10. acc' \in Nat
  BY <1>1, <1>4
<1>11. QED
  BY <1>1, <1>2, <1>7, <1>8, <1>9, <1>10, TileKept DEF PRInv

(* The sum of the lanes from a to b, as the register holds it.             *)
LaneSum(a, b) == (PrefixSum(input[r], b) - PrefixSum(input[r], a)) % Samples

LEMMA LaneSums ==
  ASSUME PRInv, apc = "scan"
  PROVE  /\ \A a, b \in 0..Width : a <= b => LaneSum(a, b) \in 0..(Samples - 1)
         /\ \A a, b, c \in 0..Width :
              a <= b /\ b <= c => (LaneSum(b, c) + LaneSum(a, b)) % Samples = LaneSum(a, c)
         /\ \A c \in 1..Width : LaneSum(c - 1, c) = input[r][c]
<1> DEFINE f(c) == PrefixSum(input[r], c)
<1>1. /\ Width \in Nat \ {0} /\ \A c \in 0..Width : f(c) \in Nat
      /\ \A c \in 0..Width : c < Width => f(c + 1) = f(c) + input[r][c + 1]
      /\ \A a, b \in 0..Width : a <= b => f(a) <= f(b)
      /\ input[r] \in [1..Width -> 0..(Samples - 1)]
  BY CurrentRow
<1>2. \A a, b : LaneSum(a, b) = (f(b) - f(a)) % Samples
  BY DEF LaneSum
<1> HIDE DEF f
<1>3. Samples \in Nat \ {0}
  BY PredictorAssumption
<1>4. ASSUME NEW a \in 0..Width, NEW b \in 0..Width, a <= b PROVE LaneSum(a, b) \in 0..(Samples - 1)
  <2>1. f(b) - f(a) \in Nat
    BY <1>1, <1>4
  <2>2. QED
    BY <1>2, <1>3, <2>1, RemainderTwice
<1>5. ASSUME NEW a \in 0..Width, NEW b \in 0..Width, NEW c \in 0..Width, a <= b, b <= c
      PROVE  (LaneSum(b, c) + LaneSum(a, b)) % Samples = LaneSum(a, c)
  <2> DEFINE u == f(c) - f(b)
             v == f(b) - f(a)
  <2>1. u \in Nat /\ v \in Nat /\ u + v = f(c) - f(a)
    BY <1>1, <1>5, SMTT(30)
  <2>2. LaneSum(b, c) = u % Samples /\ LaneSum(a, b) = v % Samples
    BY <1>2
  <2> HIDE DEF u, v
  <2>3. ((u % Samples) + (v % Samples)) % Samples = (u + v) % Samples
    BY <1>3, <2>1, RemainderOfSums
  <2>4. QED
    BY <1>2, <2>1, <2>2, <2>3
<1>6. ASSUME NEW c \in 1..Width PROVE LaneSum(c - 1, c) = input[r][c]
  <2>1. c - 1 \in 0..Width /\ c - 1 < Width /\ (c - 1) + 1 = c
    BY <1>1
  <2>2. f(c) = f(c - 1) + input[r][c] /\ f(c - 1) \in Nat /\ input[r][c] \in 0..(Samples - 1)
    BY <1>1, <2>1
  <2>3. f(c) - f(c - 1) = input[r][c]
    BY <2>2
  <2>4. input[r][c] % Samples = input[r][c]
    BY <1>3, <2>2, SmallRemainder
  <2>5. QED
    BY <1>2, <2>3, <2>4
<1>7. QED
  BY <1>4, <1>5, <1>6

(* What lane l of the register holds when shift lanes have been summed.    *)
Start(l) == IF l > shift THEN l - shift ELSE 0

LEMMA LaneInv ==
  ASSUME PRInv, apc = "scan", x # <<>>
  PROVE  /\ i \in 0..Width /\ i + Lanes <= Width /\ shift \in Nat \ {0} /\ Lanes \in Nat \ {0, 1}
         /\ x \in [1..Lanes -> 0..(Samples - 1)] /\ Width \in Nat \ {0}
         /\ \A l \in 1..Lanes : x[l] = LaneSum(i + Start(l), i + l)
         /\ \A l \in 0..Lanes : i + l \in 0..Width
<1>1. ScanInv /\ shift \in Nat \ {0} /\ x \in [1..Lanes -> 0..(Samples - 1)]
  BY DEF PRInv
<1>2. i \in 0..Width /\ i + Lanes <= Width
  BY <1>1 DEF ScanInv
<1>3. \A l \in 1..Lanes : x[l] = LaneSum(i + Start(l), i + l)
  BY <1>1 DEF ScanInv, LaneSum, Start
<1>4. Width \in Nat \ {0} /\ Lanes \in Nat \ {0, 1}
  BY CurrentRow, PredictorAssumption
<1>5. \A l \in 0..Lanes : i + l \in 0..Width
  BY <1>2, <1>4
<1>6. QED
  BY <1>1, <1>2, <1>3, <1>4, <1>5

(* The parts of the scan's invariant that a step inside the register       *)
(* leaves as they are.                                                     *)
LEMMA ScanKept ==
  ASSUME PRInv, apc = "scan", UNCHANGED <<apc, input, tile, r, i, acc>>,
         shift' \in Nat \ {0}, x' \in [1..Lanes -> 0..(Samples - 1)], i + Lanes <= Width,
         \A l \in 1..Lanes : x'[l] = LaneSum(i + Start(l)', i + l)
  PROVE  PRInv'
<1>0. UNCHANGED <<input, tile>> /\ UNCHANGED r /\ apc # "idle" /\ apc' = "scan"
  OBVIOUS
<1>1. ScanInv /\ acc \in Nat
  BY DEF PRInv
<1>2. ScanInv'
  <2>1. Width' = Width
    BY <1>0, TileKept, CurrentRow
  <2>2. i' = i /\ acc' = acc /\ tile' = tile /\ input' = input /\ r' = r
    OBVIOUS
  <2>3. \A c : RunningSum(r, c)' = RunningSum(r, c)
    BY <1>0, TileKept
  <2>4. \A l \in 1..Lanes :
          x'[l] = (PrefixSum(input[r], i + l)
                   - PrefixSum(input[r], i + (IF l > shift' THEN l - shift' ELSE 0))) % Samples
    BY DEF LaneSum, Start
  <2>5. i \in 0..Width /\ acc % Samples = (IF i = 0 THEN 0 ELSE tile[r][i])
        /\ \A c \in 1..Width : tile[r][c] = IF c <= i THEN RunningSum(r, c) ELSE input[r][c]
    BY <1>1 DEF ScanInv
  <2>6. QED
    BY <2>1, <2>2, <2>3, <2>4, <2>5 DEF ScanInv
<1>3. RowsInv'
  BY <1>0, TileKept, CurrentRow
<1>4. TileDecoded'
  BY <1>0 DEF TileDecoded
<1>5. QED
  BY <1>0, <1>1, <1>2, <1>3, <1>4, TileKept DEF PRInv

LEMMA LoadBlockInv ==
  ASSUME PRInv, LoadBlock
  PROVE  PRInv'
<1>1. /\ apc = "scan" /\ x = <<>> /\ i + Lanes <= Width /\ UNCHANGED <<apc, input, tile, r, i, acc>>
      /\ x' = [l \in 1..Lanes |-> tile[r][i + l]] /\ shift' = 1
  BY DEF LoadBlock
<1>2. ScanInv /\ i \in 0..Width /\ Width \in Nat \ {0} /\ Lanes \in Nat \ {0, 1}
      /\ input[r] \in [1..Width -> 0..(Samples - 1)]
  BY <1>1, AccIsSum, CurrentRow, PredictorAssumption
<1>3. ASSUME NEW l \in 1..Lanes
      PROVE  /\ tile[r][i + l] \in 0..(Samples - 1)
             /\ tile[r][i + l] = LaneSum(i + Start(l)', i + l)
  <2>0. i \in Nat /\ Width \in Nat /\ Lanes \in Nat /\ i + Lanes <= Width
    BY <1>1, <1>2
  <2>1. i + l \in 1..Width /\ ~(i + l <= i) /\ (i + l) - 1 = i + (l - 1)
    BY <2>0
  <2>2. tile[r][i + l] = input[r][i + l]
    BY <1>2, <2>1 DEF ScanInv
  <2>3. input[r][i + l] = LaneSum((i + l) - 1, i + l)
    BY <1>1, <2>1, LaneSums
  <2>4. Start(l)' = l - 1
    BY <1>1, <1>2 DEF Start
  <2>5. QED
    BY <1>2, <2>1, <2>2, <2>3, <2>4
<1>4. x' \in [1..Lanes -> 0..(Samples - 1)] /\ \A l \in 1..Lanes : x'[l] = LaneSum(i + Start(l)', i + l)
  BY <1>1, <1>3
<1>5. QED
  BY <1>1, <1>4, ScanKept

LEMMA ShiftAddInv ==
  ASSUME PRInv, ShiftAdd
  PROVE  PRInv'
<1>1. /\ apc = "scan" /\ x # <<>> /\ shift < Lanes /\ shift' = 2 * shift
      /\ x' = [l \in 1..Lanes |-> (x[l] + IF l > shift THEN x[l - shift] ELSE 0) % Samples]
      /\ UNCHANGED <<apc, input, tile, r, i, acc>>
  BY DEF ShiftAdd, NextShift
<1>2. /\ i \in 0..Width /\ i + Lanes <= Width /\ shift \in Nat \ {0} /\ Lanes \in Nat \ {0, 1}
      /\ x \in [1..Lanes -> 0..(Samples - 1)] /\ Samples \in Nat \ {0}
      /\ \A l \in 1..Lanes : x[l] = LaneSum(i + Start(l), i + l)
      /\ \A l \in 0..Lanes : i + l \in 0..Width
      /\ Width \in Nat
  BY <1>1, LaneInv, PredictorAssumption
<1>3. ASSUME NEW l \in 1..Lanes
      PROVE  /\ x'[l] = LaneSum(i + Start(l)', i + l) /\ x'[l] \in 0..(Samples - 1)
  <2>1. CASE l > shift
    <3> DEFINE m == l - shift
               e == Start(m)
    <3>1. m \in 1..Lanes /\ e \in 0..m /\ e = Start(l)' /\ Start(l) = m
      BY <1>1, <1>2, <2>1 DEF Start
    <3>2. x'[l] = (x[l] + x[m]) % Samples
      BY <1>1, <2>1
    <3>3. x[l] = LaneSum(i + m, i + l) /\ x[m] = LaneSum(i + e, i + m)
      BY <1>2, <3>1
    <3> HIDE DEF m, e
    <3>4. /\ i + e \in 0..Width /\ i + m \in 0..Width /\ i + l \in 0..Width
          /\ i + e <= i + m /\ i + m <= i + l
      <4>1. e \in 0..Lanes /\ m \in 0..Lanes /\ l \in 0..Lanes /\ e <= m
        BY <1>2, <3>1
      <4>2. m <= l
        BY <1>2, <2>1 DEF m
      <4>3. QED
        BY <1>2, <4>1, <4>2
    <3>5. (LaneSum(i + m, i + l) + LaneSum(i + e, i + m)) % Samples = LaneSum(i + e, i + l)
      BY <1>1, <3>4, LaneSums
    <3>6. LaneSum(i + e, i + l) \in 0..(Samples - 1)
      <4>1. i + e <= i + l
        BY <1>2, <3>4
      <4>2. QED
        BY <1>1, <3>4, <4>1, LaneSums
    <3>7. QED
      BY <3>1, <3>2, <3>3, <3>5, <3>6
  <2>2. CASE ~(l > shift)
    <3>1. Start(l) = 0 /\ Start(l)' = 0
      BY <1>1, <1>2, <2>2 DEF Start
    <3>2. x[l] \in 0..(Samples - 1)
      BY <1>2
    <3>3. x'[l] = (x[l] + 0) % Samples /\ x[l] + 0 = x[l]
      BY <1>1, <1>2, <2>2, <3>2
    <3>4. x[l] % Samples = x[l]
      BY <1>2, <3>2, SmallRemainder
    <3>5. QED
      BY <1>2, <3>1, <3>2, <3>3, <3>4
  <2>3. QED
    BY <2>1, <2>2
<1>4. x' \in [1..Lanes -> 0..(Samples - 1)]
  <2>1. x' = [l \in 1..Lanes |-> x'[l]]
    BY <1>1
  <2>2. QED
    BY <1>3, <2>1
<1>5. shift' \in Nat \ {0}
  BY <1>1, <1>2
<1>6. QED
  BY <1>1, <1>2, <1>3, <1>4, <1>5, ScanKept

(* What a step that rewrites the current row keeps.                        *)
LEMMA RowRewritten ==
  ASSUME PRInv, apc \in {"scan", "tail"}, UNCHANGED <<input, r>>,
         NEW row \in [1..Width -> 0..(Samples - 1)], tile' = [tile EXCEPT ![r] = row]
  PROVE  /\ input' \in Tiles /\ tile' \in Seq(Seq(0..(Samples - 1)))
         /\ Height' = Len(input') /\ \A w \in 1..Height' : Len(tile'[w]) = Len(input'[w])
         /\ tile'[r] = row /\ Width' = Width /\ RowsInv'
         /\ \A c : RunningSum(r, c)' = RunningSum(r, c)
<1>1. /\ RowsInv /\ r \in 1..Height /\ input \in Tiles /\ tile \in Seq(Seq(0..(Samples - 1)))
      /\ Height = Len(input) /\ Height \in Nat /\ \A w \in 1..Height : Len(tile[w]) = Len(input[w])
  BY CurrentRow, TileFacts
<1>2. /\ tile' \in Seq(Seq(0..(Samples - 1))) /\ Len(tile') = Len(tile) /\ tile'[r] = row
      /\ \A w \in 1..Len(tile) : Len(tile'[w]) = Len(tile[w]) /\ (w # r => tile'[w] = tile[w])
  <2>1. r \in 1..Len(tile) /\ row \in [1..Len(tile[r]) -> 0..(Samples - 1)]
    BY <1>1 DEF Height, Width
  <2> DEFINE V == 0..(Samples - 1)
  <2>2. tile \in Seq(Seq(V)) /\ row \in [1..Len(tile[r]) -> V]
    BY <1>1, <2>1
  <2> HIDE DEF V
  <2>3. LET u == [tile EXCEPT ![r] = row]
        IN  /\ u \in Seq(Seq(V)) /\ Len(u) = Len(tile) /\ u[r] = row
            /\ \A w \in 1..Len(tile) : Len(u[w]) = Len(tile[w]) /\ (w # r => u[w] = tile[w])
    <3>1. tile \in Seq(Seq(V)) /\ r \in 1..Len(tile) /\ row \in [1..Len(tile[r]) -> V]
      BY <2>1, <2>2
    <3>2. QED
      BY <3>1, RowReplaced
  <2>4. QED
    BY <2>3 DEF V
<1>3. Height' = Height /\ input' = input /\ r' = r
  BY <1>2 DEF Height
<1>4. Width' = Width
  BY <1>1, <1>2, <1>3 DEF Width, Height
<1>5. \A w, c : RunningSum(w, c)' = RunningSum(w, c)
  BY <1>3 DEF RunningSum
<1>6. RowsInv'
  <2>1. \A w \in 1..Height : w # r => tile'[w] = tile[w]
    BY <1>2 DEF Height
  <2>2. ASSUME NEW w \in 1..Height, w < r PROVE RowDecoded(w)'
    <3>1. RowDecoded(w)
      BY <1>1, <2>2 DEF RowsInv
    <3>2. tile'[w] = tile[w]
      BY <1>1, <2>1, <2>2
    <3>3. QED
      BY <1>5, <3>1, <3>2 DEF RowDecoded
  <2>3. ASSUME NEW w \in 1..Height, w > r PROVE tile'[w] = input'[w]
    <3>1. tile[w] = input[w]
      BY <1>1, <2>3 DEF RowsInv
    <3>2. tile'[w] = tile[w]
      BY <1>1, <2>1, <2>3
    <3>3. QED
      BY <1>3, <3>1, <3>2
  <2>4. QED
    BY <1>1, <1>3, <2>2, <2>3 DEF RowsInv
<1>7. QED
  BY <1>1, <1>2, <1>3, <1>4, <1>5, <1>6 DEF Height

LEMMA StoreBlockInv ==
  ASSUME PRInv, StoreBlock
  PROVE  PRInv'
<1> DEFINE row == [c \in 1..Width |-> IF c \in (i + 1)..(i + Lanes)
                                      THEN (x[c - i] + acc) % Samples ELSE tile[r][c]]
<1>1. /\ apc = "scan" /\ x # <<>> /\ shift >= Lanes /\ acc' = (x[Lanes] + acc) % Samples
      /\ i' = i + Lanes /\ x' = <<>> /\ apc' = "scan" /\ input' = input /\ r' = r /\ shift' = shift
  BY DEF StoreBlock, CarryOut
<1>2. /\ i \in 0..Width /\ i + Lanes <= Width /\ shift \in Nat \ {0} /\ Lanes \in Nat \ {0, 1}
      /\ Samples \in Nat \ {0} /\ Width \in Nat \ {0}
      /\ \A l \in 1..Lanes : x[l] = LaneSum(i + Start(l), i + l)
      /\ \A l \in 0..Lanes : i + l \in 0..Width
  BY <1>1, LaneInv, PredictorAssumption
<1>3. ScanInv /\ acc \in Nat /\ acc % Samples = PrefixSum(input[r], i) % Samples
  BY <1>1, AccIsSum
<1>4. /\ r \in 1..Height /\ tile[r] \in [1..Width -> 0..(Samples - 1)]
      /\ \A c \in 0..Width : PrefixSum(input[r], c) \in Nat
      /\ \A a, b \in 0..Width : a <= b => PrefixSum(input[r], a) <= PrefixSum(input[r], b)
      /\ \A c : RunningSum(r, c) = PrefixSum(input[r], c) % Samples
  BY <1>1, CurrentRow
<1>5. tile' = [tile EXCEPT ![r] = row]
  <2>1. DOMAIN tile[r] = 1..Width
    BY <1>4
  <2>2. QED
    BY <2>1 DEF StoreBlock
<1>6. ASSUME NEW l \in 1..Lanes
      PROVE  /\ (x[l] + acc) % Samples = RunningSum(r, i + l)
             /\ RunningSum(r, i + l) \in 0..(Samples - 1)
  <2> DEFINE u == PrefixSum(input[r], i)
             v == PrefixSum(input[r], i + l)
             d == v - u
  <2>1. i + l \in 0..Width /\ i <= i + l
    BY <1>2
  <2>2. u \in Nat /\ v \in Nat /\ u <= v
    BY <1>2, <1>4, <2>1
  <2>3. Start(l) = 0 /\ i + 0 = i
    BY <1>1, <1>2 DEF Start
  <2>4. x[l] = d % Samples
    BY <1>2, <2>3 DEF LaneSum
  <2>5. acc % Samples = u % Samples /\ RunningSum(r, i + l) = v % Samples
    BY <1>3, <1>4
  <2> HIDE DEF u, v
  <2>6. d \in Nat /\ d + u = v
    BY <2>2
  <2> HIDE DEF d
  <2>7. ((d % Samples) + acc) % Samples = (d + u) % Samples
    <3>1. /\ Samples \in Nat \ {0} /\ d \in Nat /\ acc \in Nat /\ u \in Nat
          /\ acc % Samples = u % Samples
      BY <1>2, <1>3, <2>2, <2>5, <2>6
    <3>2. ((d % Samples) + acc) % Samples = (d + acc) % Samples
      BY <3>1, RemainderOfSum
    <3>3. (acc + d) % Samples = (u + d) % Samples
      BY <3>1, CongruentSum
    <3>4. d + acc = acc + d /\ d + u = u + d
      BY <3>1
    <3>5. QED
      BY <3>2, <3>3, <3>4
  <2>8. v % Samples \in 0..(Samples - 1)
    BY <1>2, <2>2, RemainderTwice
  <2>9. QED
    BY <2>4, <2>5, <2>6, <2>7, <2>8
<1>7. ASSUME NEW c \in 1..Width
      PROVE  /\ row[c] \in 0..(Samples - 1)
             /\ row[c] = IF c <= i + Lanes THEN RunningSum(r, c) ELSE input[r][c]
  <2>1. CASE c \in (i + 1)..(i + Lanes)
    <3> DEFINE l == c - i
    <3>1. l \in 1..Lanes /\ i + l = c /\ c <= i + Lanes
      BY <1>2, <2>1
    <3>2. row[c] = (x[l] + acc) % Samples
      BY <2>1
    <3> HIDE DEF l, row
    <3>3. QED
      BY <1>6, <3>1, <3>2
  <2>2. CASE c \notin (i + 1)..(i + Lanes)
    <3>1. row[c] = tile[r][c] /\ tile[r][c] \in 0..(Samples - 1)
      BY <1>4, <2>2
    <3>2. tile[r][c] = IF c <= i THEN RunningSum(r, c) ELSE input[r][c]
      BY <1>3 DEF ScanInv
    <3>3. c <= i <=> c <= i + Lanes
      BY <1>2, <2>2
    <3> HIDE DEF row
    <3>4. QED
      BY <3>1, <3>2, <3>3
  <2>3. QED
    BY <2>1, <2>2
<1>8. row \in [1..Width -> 0..(Samples - 1)]
  BY <1>7
<1> HIDE DEF row
<1>9. /\ input' \in Tiles /\ tile' \in Seq(Seq(0..(Samples - 1)))
      /\ Height' = Len(input') /\ \A w \in 1..Height' : Len(tile'[w]) = Len(input'[w])
      /\ tile'[r] = row /\ Width' = Width /\ RowsInv'
      /\ \A c : RunningSum(r, c)' = RunningSum(r, c)
  BY <1>1, <1>5, <1>8, RowRewritten
<1>10. acc' = RunningSum(r, i + Lanes) /\ acc' \in 0..(Samples - 1)
  BY <1>1, <1>2, <1>6
<1>11. ScanInv'
  <2>1. i + Lanes \in 1..Width
    BY <1>2
  <2>2. acc' % Samples = tile'[r][i + Lanes]
    <3>1. acc' % Samples = acc'
      BY <1>2, <1>10, SmallRemainder
    <3>2. row[i + Lanes] = RunningSum(r, i + Lanes)
      BY <1>2, <1>7, <2>1
    <3>3. QED
      BY <1>9, <1>10, <3>1, <3>2
  <2>3. \A c \in 1..Width' : tile'[r'][c] = IF c <= i' THEN RunningSum(r, c)' ELSE input'[r'][c]
    BY <1>1, <1>7, <1>9
  <2>4. i' \in 0..Width' /\ i' # 0
    BY <1>1, <1>2, <1>9, <2>1
  <2>5. QED
    BY <1>1, <2>2, <2>3, <2>4 DEF ScanInv
<1>12. acc' \in Nat
  BY <1>2, <1>10
<1>13. TileDecoded'
  BY <1>1 DEF TileDecoded
<1>14. QED
  BY <1>1, <1>2, <1>9, <1>11, <1>12, <1>13 DEF PRInv

LEMMA EndBlocksInv ==
  ASSUME PRInv, EndBlocks
  PROVE  PRInv'
<1>1. /\ apc = "scan" /\ apc' = "tail" /\ x = <<>> /\ UNCHANGED <<input, tile>> /\ UNCHANGED r
      /\ UNCHANGED <<i, x, shift, acc>>
  BY DEF EndBlocks
<1>2. ScanInv /\ acc \in Nat /\ shift \in Nat \ {0}
  BY <1>1 DEF PRInv
<1>3. RowsInv' /\ Width' = Width /\ \A c : RunningSum(r, c)' = RunningSum(r, c)
  BY <1>1, TileKept, CurrentRow
<1>4. ScanInv'
  <2>1. i \in 0..Width /\ acc % Samples = (IF i = 0 THEN 0 ELSE tile[r][i])
        /\ \A c \in 1..Width : tile[r][c] = IF c <= i THEN RunningSum(r, c) ELSE input[r][c]
    BY <1>2 DEF ScanInv
  <2>2. QED
    BY <1>1, <1>3, <2>1 DEF ScanInv
<1>5. TileDecoded'
  BY <1>1 DEF TileDecoded
<1>6. QED
  BY <1>1, <1>2, <1>3, <1>4, <1>5, TileKept DEF PRInv

LEMMA TailSampleInv ==
  ASSUME PRInv, TailSample
  PROVE  PRInv'
<1> DEFINE row == [tile[r] EXCEPT ![i + 1] = acc' % Samples]
           d == tile[r][i + 1]
<1>1. /\ apc = "tail" /\ apc' = "tail" /\ i < Width /\ acc' = (acc + d) % Sums /\ i' = i + 1
      /\ tile' = [tile EXCEPT ![r] = row] /\ input' = input /\ r' = r /\ x' = x /\ shift' = shift
  BY DEF TailSample
<1>2. ScanInv /\ i \in 0..Width /\ acc \in Nat /\ acc % Samples = PrefixSum(input[r], i) % Samples
  BY <1>1, AccIsSum
<1>3. /\ x = <<>> /\ shift \in Nat \ {0} /\ Samples \in Nat \ {0}
  BY <1>1, PredictorAssumption DEF PRInv
<1>4. /\ r \in 1..Height /\ tile[r] \in [1..Width -> 0..(Samples - 1)] /\ Width \in Nat \ {0}
      /\ \A c \in 0..Width : PrefixSum(input[r], c) \in Nat
      /\ \A c \in 0..Width :
           c < Width => PrefixSum(input[r], c + 1) = PrefixSum(input[r], c) + input[r][c + 1]
      /\ \A c : RunningSum(r, c) = PrefixSum(input[r], c) % Samples
  BY <1>1, CurrentRow
<1>5. i + 1 \in 1..Width /\ ~(i + 1 <= i) /\ d \in 0..(Samples - 1) /\ d \in Nat
  BY <1>1, <1>2, <1>3, <1>4
<1>6. d = input[r][i + 1]
  BY <1>2, <1>5 DEF ScanInv
<1>7. acc' \in Nat /\ acc' % Samples = RunningSum(r, i + 1) /\ acc' % Samples \in 0..(Samples - 1)
  <2> DEFINE u == PrefixSum(input[r], i)
             v == PrefixSum(input[r], i + 1)
             s == acc + d
  <2>1. u \in Nat /\ v = u + d /\ v \in Nat /\ acc % Samples = u % Samples
        /\ RunningSum(r, i + 1) = v % Samples
    BY <1>1, <1>2, <1>4, <1>5, <1>6
  <2> HIDE DEF u, v, d
  <2>2. (acc + d) % Samples = (u + d) % Samples
    <3>1. /\ Samples \in Nat \ {0} /\ d \in Nat /\ acc \in Nat /\ u \in Nat
          /\ acc % Samples = u % Samples
      BY <1>2, <1>3, <1>5, <2>1
    <3>2. QED
      BY <3>1, CongruentSum
  <2>3. s \in Nat
    BY <1>2, <1>5
  <2>4. s % Samples = v % Samples /\ acc' = s % Sums
    BY <1>1, <2>1, <2>2
  <2> HIDE DEF s
  <2>5. PICK m \in 1..Sums : Sums = Samples * m
    BY PredictorAssumption
  <2>6. m \in Nat \ {0}
    BY <2>5
  <2>7. (s % (Samples * m)) % Samples = s % Samples
    BY <1>3, <2>3, <2>6, RemainderOfWider, Zenon
  <2>8. Sums \in Nat \ {0} /\ s % Sums \in Nat
    <3>1. Sums \in Nat \ {0}
      BY <2>5, PredictorAssumption
    <3>2. QED
      BY <2>3, <3>1, RemainderParts
  <2>9. acc' % Samples = v % Samples
    BY <2>4, <2>5, <2>7
  <2>10. v % Samples \in 0..(Samples - 1)
    BY <1>3, <2>1, RemainderTwice
  <2>11. QED
    BY <2>1, <2>4, <2>8, <2>9, <2>10
<1>8. row \in [1..Width -> 0..(Samples - 1)]
  BY <1>4, <1>7
<1>9. ASSUME NEW c \in 1..Width
      PROVE  row[c] = IF c <= i + 1 THEN RunningSum(r, c) ELSE input[r][c]
  <2>1. CASE c = i + 1
    BY <1>4, <1>5, <1>7, <2>1
  <2>2. CASE c # i + 1
    <3>1. row[c] = tile[r][c]
      BY <1>4, <2>2
    <3>2. tile[r][c] = IF c <= i THEN RunningSum(r, c) ELSE input[r][c]
      BY <1>2 DEF ScanInv
    <3>3. c <= i <=> c <= i + 1
      BY <1>2, <1>4, <2>2
    <3> HIDE DEF row
    <3>4. QED
      BY <3>1, <3>2, <3>3
  <2>3. QED
    BY <2>1, <2>2
<1> HIDE DEF row
<1>10. /\ input' \in Tiles /\ tile' \in Seq(Seq(0..(Samples - 1)))
       /\ Height' = Len(input') /\ \A w \in 1..Height' : Len(tile'[w]) = Len(input'[w])
       /\ tile'[r] = row /\ Width' = Width /\ RowsInv'
       /\ \A c : RunningSum(r, c)' = RunningSum(r, c)
  BY <1>1, <1>8, RowRewritten
<1>11. ScanInv'
  <2>1. acc' % Samples = tile'[r][i + 1]
    <3>1. row[i + 1] = RunningSum(r, i + 1)
      BY <1>2, <1>4, <1>5, <1>9
    <3>2. QED
      BY <1>7, <1>10, <3>1
  <2>2. \A c \in 1..Width' : tile'[r'][c] = IF c <= i' THEN RunningSum(r, c)' ELSE input'[r'][c]
    BY <1>1, <1>9, <1>10
  <2>3. i' \in 0..Width' /\ i' # 0
    BY <1>1, <1>2, <1>4, <1>5, <1>10
  <2>4. QED
    BY <1>1, <1>3, <2>1, <2>2, <2>3 DEF ScanInv
<1>12. TileDecoded'
  BY <1>1 DEF TileDecoded
<1>13. QED
  BY <1>1, <1>3, <1>7, <1>10, <1>11, <1>12 DEF PRInv

LEMMA EndRowInv ==
  ASSUME PRInv, EndRow
  PROVE  PRInv'
<1>1. /\ apc = "tail" /\ i = Width /\ UNCHANGED <<input, tile>> /\ UNCHANGED <<i, x, shift, acc>>
      /\ IF r < Height THEN apc' = "row" /\ r' = r + 1 ELSE apc' = "done" /\ r' = r
  BY DEF EndRow
<1>2. /\ ScanInv /\ RowsInv /\ acc \in Nat /\ shift \in Nat \ {0} /\ x = <<>>
  BY <1>1 DEF PRInv
<1>3. r \in 1..Height /\ Height \in Nat /\ Width \in Nat
  BY <1>1, CurrentRow, TileFacts
<1>4. RowDecoded(r)
  <2>1. \A c \in 1..Width : tile[r][c] = RunningSum(r, c)
    BY <1>1, <1>2, <1>3 DEF ScanInv
  <2>2. QED
    BY <2>1 DEF RowDecoded, Width
<1>5. \A w \in 1..Height : w <= r => RowDecoded(w)
  BY <1>2, <1>3, <1>4 DEF RowsInv
<1>6. Height' = Height /\ \A w : RowDecoded(w)' <=> RowDecoded(w)
  BY <1>1, TileKept
<1>7. CASE r < Height
  <2>1. apc' = "row" /\ r' = r + 1
    BY <1>1, <1>7
  <2>2. \A w \in 1..Height : w > r => tile[w] = input[w]
    BY <1>2 DEF RowsInv
  <2>3. \A w \in 1..Height : (w < r + 1 => w <= r) /\ (w > r + 1 => w > r)
    BY <1>3
  <2>4. RowsInv'
    BY <1>1, <1>3, <1>5, <1>6, <1>7, <2>1, <2>2, <2>3 DEF RowsInv
  <2>5. tile'[r'] = input'[r']
    BY <1>1, <1>3, <1>7, <2>1, <2>2
  <2>6. TileDecoded'
    BY <2>1 DEF TileDecoded
  <2>7. QED
    BY <1>1, <1>2, <2>1, <2>4, <2>5, <2>6, TileKept DEF PRInv
<1>8. CASE ~(r < Height)
  <2>1. apc' = "done" /\ \A w \in 1..Height : w <= r
    BY <1>1, <1>3, <1>8
  <2>2. TileDecoded'
    BY <1>5, <1>6, <2>1 DEF TileDecoded
  <2>3. QED
    BY <1>1, <1>2, <2>1, <2>2, TileKept DEF PRInv
<1>9. QED
  BY <1>7, <1>8

LEMMA PredictReturnInv ==
  ASSUME PRInv, PredictReturn
  PROVE  PRInv'
BY DEF PredictReturn, PRInv, TileDecoded

LEMMA PRStepInv == PRInv /\ [PRNext]_prVars => PRInv'
<1> SUFFICES ASSUME PRInv, [PRNext]_prVars PROVE PRInv'
  OBVIOUS
<1>1. CASE PRNext
  BY <1>1, PredictBeginInv, BeginSimdRowInv, BeginScalarRowInv, LoadBlockInv, ShiftAddInv,
     StoreBlockInv, EndBlocksInv, TailSampleInv, EndRowInv, PredictReturnInv DEF PRNext
<1>2. CASE UNCHANGED prVars
  <2>1. /\ apc' = apc /\ input' = input /\ tile' = tile /\ r' = r /\ i' = i /\ x' = x
        /\ shift' = shift /\ acc' = acc
    BY <1>2 DEF prVars
  <2>2. /\ Height' = Height /\ Width' = Width
        /\ \A w, c : RunningSum(w, c)' = RunningSum(w, c)
    BY <2>1 DEF Height, Width, RunningSum
  <2>3. \A w : RowDecoded(w)' <=> RowDecoded(w)
    BY <2>1, <2>2 DEF RowDecoded
  <2>4. (RowsInv => RowsInv') /\ (TileDecoded => TileDecoded')
    BY <2>1, <2>2, <2>3 DEF RowsInv, TileDecoded
  <2>5. ScanInv => ScanInv'
    BY <2>1, <2>2 DEF ScanInv
  <2>6. QED
    BY <2>1, <2>2, <2>4, <2>5 DEF PRInv
<1>3. QED
  BY <1>1, <1>2

(* The rows that are decoded, the differences that are still to come, the  *)
(* lanes of the register and the accumulator agree at every step of        *)
(* apply_horizontal_predictor, and every value is one of the sample type.  *)
THEOREM PRInvariant == PRSpec => []PRInv
<1>1. PRInit => PRInv
  BY DEF PRInit, PRInv, TileDecoded
<1>2. QED
  BY <1>1, PRStepInv, PTL DEF PRSpec

(* apply_horizontal_predictor: a tile that is handed back holds, row by    *)
(* row, the running sums of its differences in the arithmetic of its       *)
(* sample type, for every width of register and of accumulator.            *)
THEOREM PRTileDecoded == PRSpec => []TileDecoded
<1>1. PRInv => TileDecoded
  BY DEF PRInv
<1>2. QED
  BY <1>1, PRInvariant, PTL
=============================================================================
