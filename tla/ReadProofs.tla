----------------------------- MODULE ReadProofs -----------------------------
(***************************************************************************)
(* What a plan delivers and where a pattern puts it, for images, windows,  *)
(* patterns and numbers of workers of every size: no two tasks of a read   *)
(* meet, nothing is written outside the caller's buffer, and a read that   *)
(* reports success is complete.                                            *)
(***************************************************************************)
EXTENDS FrontEndsProofs, FiniteSetTheorems, FunctionTheorems

-----------------------------------------------------------------------------
(* The pixels of a plan.                                                   *)

(* Where a plan puts position (y, x) of the window, in its i-th band.      *)
PlaceAt(i, y, x) == job.data + (i - 1) * job.band + y * job.line + x * job.pixel

InWindow(i, y, x) ==
  i \in DOMAIN job.bands /\ y \in 0..(job.y_size - 1) /\ x \in 0..(job.x_size - 1)

(* No two positions are put in one place.                                  *)
Apart ==
  \A i, j, y, v, x, u :
    InWindow(i, y, x) /\ InWindow(j, v, u) /\ PlaceAt(i, y, x) = PlaceAt(j, v, u)
      => i = j /\ y = v /\ x = u

Spaced == job.data \in Int /\ job.pixel \in Int /\ job.line \in Int /\ job.band \in Int

(* A task puts pixel p, of tile (r, c) in the i-th band, where it belongs. *)
Goes(t, p, i, r, c) ==
  LET s == Source(t, p)
      y == r * job.h.tl + s[1] - job.y_off
      x == c * job.h.tw + s[2] - job.x_off
  IN  /\ s = <<s[1], s[2]>> /\ s[1] \in 0..(job.h.tl - 1) /\ s[2] \in 0..(job.h.tw - 1)
      /\ InWindow(i, y, x)
      /\ At(t, p) = PlaceAt(i, y, x)

(* Position (y, x) of the window is in tile (r, c), and t delivers it.     *)
TileRow(y) == (job.y_off + y) \div job.h.tl
TileColumn(x) == (job.x_off + x) \div job.h.tw
InTile(y, x, r, c) == TileRow(y) = r /\ TileColumn(x) = c

Brings(t, y, x) ==
  \E p \in Rect(t) : Source(t, p) = <<(job.y_off + y) % job.h.tl, (job.x_off + x) % job.h.tw>>

(* t is the task for tile (r, c) of the i-th band: its pixels go where     *)
(* they belong, and none of the window's is left out.                      *)
Holds(t, i, r, c) ==
  /\ i \in DOMAIN job.bands /\ r \in Nat /\ c \in Nat
  /\ t.idx = TileIndex(TilesOver(job.h.width, job.h.tw), job.h.spp, r, c, job.bands[i] - 1)
  /\ \A p \in Rect(t) : Goes(t, p, i, r, c)
  /\ \A y \in 0..(job.y_size - 1), x \in 0..(job.x_size - 1) :
       InTile(y, x, r, c) => Brings(t, y, x)

(* One axis of a task that is not empty: the edge of its tile is the true  *)
(* one, and it has exactly the positions of the window in the tile.        *)
Clipped(t, tile, off, size, edge, b, e) ==
  /\ edge = t * tile + tile
  /\ b \in Nat /\ off <= b /\ t * tile <= b
  /\ e \in Nat /\ e <= off + size /\ e <= t * tile + tile
  /\ \A v \in 0..(size - 1) : (off + v) \div tile = t => b <= off + v /\ off + v < e

(* Where a task is not empty, nothing has overflowed, and the clip is exact. *)
LEMMA ClipIsExact ==
  ASSUME NEW t \in Nat, NEW tile \in 1..U16Max, NEW off \in Nat, NEW size \in Nat \ {0},
         NEW extent \in Nat, off + size <= extent,
         NEW edge \in IntSum(t * tile, tile),
         ClipEnd(edge, off + size, extent) > Max({t * tile, off})
  PROVE  Clipped(t, tile, off, size, edge, Max({t * tile, off}), ClipEnd(edge, off + size, extent))
<1> DEFINE p == t * tile
           b == Max({p, off})
           e == ClipEnd(edge, off + size, extent)
<1>1. p \in Nat /\ tile \in Nat \ {0} /\ tile <= U16Max /\ U16Max \in Nat /\ IntMax \in Nat /\ U16Max <= IntMax
  BY WidthAssumption
<1>2. edge = p + tile \/ edge = p + tile - 2 * (IntMax + 1)
  BY DEF IntSum
<1>3. ASSUME NEW v \in 0..(size - 1), (off + v) \div tile = t PROVE p <= off + v /\ off + v < p + tile
  <2>1. off + v \in Nat
    OBVIOUS
  <2>2. ((off + v) \div tile) * tile <= off + v /\ off + v < ((off + v) \div tile) * tile + tile
    BY <1>1, <2>1, RoundDown
  <2>3. QED
    BY <1>3, <2>2
<1>4. e > b
  OBVIOUS
<1> HIDE DEF p
<1>5. b \in {p, off} /\ p <= b /\ off <= b
  <2>1. p \in Int /\ off \in Int
    BY <1>1
  <2>2. Max({p, off}) \in {p, off} /\ p <= Max({p, off}) /\ off <= Max({p, off})
    BY <2>1, MaxOfTwo
  <2>3. QED
    BY <2>2
<1>6. edge \in Int
  BY <1>1, <1>2
<1>7. e \in Int /\ e <= edge /\ e <= off + size /\ e <= extent
  <2> DEFINE q == off + size
  <2>1. edge \in Int /\ q \in Int /\ extent \in Int
    BY <1>6
  <2> HIDE DEF q
  <2>2. /\ Min({edge, q, extent}) \in Int /\ Min({edge, q, extent}) <= edge
        /\ Min({edge, q, extent}) <= q /\ Min({edge, q, extent}) <= extent
    BY <2>1, MinOfThree
  <2>3. QED
    BY <2>2 DEF ClipEnd, q
<1>8. e \in {edge, off + size, extent}
  <2>1. \E x \in {edge, off + size, extent} : \A y \in {edge, off + size, extent} : x <= y
    BY <1>6
  <2>2. QED
    BY <2>1 DEF ClipEnd, Min
<1> HIDE DEF b, e
<1>9. edge = p + tile
  BY <1>1, <1>2, <1>4, <1>5, <1>7
<1>10. b \in Nat /\ e \in Nat
  BY <1>1, <1>4, <1>5, <1>7
<1>11. \A v \in 0..(size - 1) : (off + v) \div tile = t => b <= off + v /\ off + v < e
  <2> SUFFICES ASSUME NEW v \in 0..(size - 1), (off + v) \div tile = t PROVE b <= off + v /\ off + v < e
    OBVIOUS
  <2>1. p <= off + v /\ off + v < p + tile
    BY <1>3
  <2>2. QED
    BY <1>1, <1>5, <1>8, <1>9, <2>1
<1>12. QED
  BY <1>5, <1>7, <1>9, <1>10, <1>11 DEF Clipped, p, b, e

RestIs(off, v, n, q) == (off + v) \div n = q => (off + v) % n = off + v - q * n

(* The position inside the tile q is the rest.                             *)
LEMMA RestInTile ==
  ASSUME NEW off \in Nat, NEW v \in Nat, NEW n \in Nat \ {0}, NEW q
  PROVE  RestIs(off, v, n, q)
<1> SUFFICES ASSUME (off + v) \div n = q PROVE (off + v) % n = off + v - q * n
  BY DEF RestIs
<1> DEFINE a == off + v
           d == a \div n
           r == a % n
<1>1. a \in Nat
  OBVIOUS
<1> HIDE DEF a
<1>2. r \in 0..(n - 1) /\ d \in Nat /\ a = d * n + r
  BY <1>1, RemainderParts
<1>3. d = q
  BY DEF a
<1> HIDE DEF d, r
<1>4. r = a - q * n
  BY <1>1, <1>2, <1>3
<1>5. QED
  BY <1>4 DEF r, a

(* Factors of one spacing.                                                 *)
LEMMA Spread == ASSUME NEW a \in Int, NEW b \in Int, NEW n \in Int PROVE a * n + b * n = (a + b) * n
OBVIOUS

(* A task that build_plan makes delivers what the window wants of its tile. *)
LEMMA TaskHolds ==
  ASSUME Planning, Spaced,
         NEW right \in IntSum(tx * job.h.tw, job.h.tw), NEW bottom \in IntSum(ty * job.h.tl, job.h.tl),
         NEW i \in DOMAIN TasksOf(right, bottom)
  PROVE  i \in DOMAIN job.bands /\ Holds(TasksOf(right, bottom)[i], i, ty, tx)
<1> DEFINE h == job.h
           px == tx * h.tw
           py == ty * h.tl
           ix0 == Max({px, job.x_off})
           iy0 == Max({py, job.y_off})
           ix1 == ClipEnd(right, job.x_off + job.x_size, h.width)
           iy1 == ClipEnd(bottom, job.y_off + job.y_size, h.length)
           t == TasksOf(right, bottom)[i]
           D == Direct(px, py, ix0, iy0, ix1, iy1, right, bottom)
           L == job.line
           P == job.pixel
           X == job.x_off
           Y == job.y_off
<1>1. /\ h.tw \in 1..U16Max /\ h.tl \in 1..U16Max /\ h.width \in Nat /\ h.length \in Nat /\ h.bps \in Nat
      /\ X \in Nat /\ job.x_size \in Nat \ {0} /\ X + job.x_size <= h.width
      /\ Y \in Nat /\ job.y_size \in Nat \ {0} /\ Y + job.y_size <= h.length
      /\ tx \in Nat /\ ty \in Nat /\ U16Max \in Nat
  BY WidthAssumption DEF Planning, JobOk, HeaderShape
<1>2. ix1 > ix0 /\ iy1 > iy0 /\ DOMAIN TasksOf(right, bottom) = DOMAIN job.bands
  <2>1. ix0 \in Int /\ ix1 \in Int /\ iy0 \in Int /\ iy1 \in Int
    <3>1. X \in Int /\ Y \in Int /\ X + job.x_size \in Int /\ Y + job.y_size \in Int
          /\ h.width \in Int /\ h.length \in Int /\ h.tw \in Nat /\ h.tl \in Nat
      BY <1>1
    <3>2. QED
      BY <1>1, <3>1, ClipInTile
  <2>2. CASE ix1 <= ix0 \/ iy1 <= iy0
    <3>1. TasksOf(right, bottom) = <<>>
      BY <2>2 DEF TasksOf
    <3>2. QED
      BY <3>1
  <2>3. CASE ~(ix1 <= ix0 \/ iy1 <= iy0)
    <3>1. DOMAIN TasksOf(right, bottom) = DOMAIN job.bands
      BY <2>3 DEF TasksOf
    <3> HIDE DEF ix0, ix1, iy0, iy1
    <3>2. QED
      BY <2>1, <2>3, <3>1
  <2>4. QED
    BY <2>2, <2>3
<1>3. /\ right = px + h.tw
      /\ ix0 \in Nat /\ X <= ix0 /\ px <= ix0
      /\ ix1 \in Nat /\ ix1 <= X + job.x_size /\ ix1 <= px + h.tw
      /\ \A v \in 0..(job.x_size - 1) : (X + v) \div h.tw = tx => ix0 <= X + v /\ X + v < ix1
  <2>1. Clipped(tx, h.tw, X, job.x_size, right, ix0, ix1)
    BY <1>1, <1>2, ClipIsExact
  <2> HIDE DEF ix0, ix1
  <2>2. QED
    BY <2>1 DEF Clipped
<1>4. /\ bottom = py + h.tl
      /\ iy0 \in Nat /\ Y <= iy0 /\ py <= iy0
      /\ iy1 \in Nat /\ iy1 <= Y + job.y_size /\ iy1 <= py + h.tl
      /\ \A v \in 0..(job.y_size - 1) : (Y + v) \div h.tl = ty => iy0 <= Y + v /\ Y + v < iy1
  <2>1. Clipped(ty, h.tl, Y, job.y_size, bottom, iy0, iy1)
    BY <1>1, <1>2, ClipIsExact
  <2> HIDE DEF iy0, iy1
  <2>2. QED
    BY <2>1 DEF Clipped
<1>5. /\ t.idx = TileIndex(TilesOver(h.width, h.tw), h.spp, ty, tx, job.bands[i] - 1)
      /\ t.direct = D
      /\ t.at = job.data + (iy0 - Y) * L + (ix0 - X) * P + (i - 1) * job.band
      /\ t.src_x = ix0 - px /\ t.src_y = iy0 - py /\ t.w = ix1 - ix0 /\ t.h = iy1 - iy0
  <2>1. ~(ix1 <= ix0 \/ iy1 <= iy0)
    <3> HIDE DEF ix0, ix1, iy0, iy1
    <3>1. QED
      BY <1>2, <1>3, <1>4
  <2>2. QED
    BY <1>2, <2>1 DEF TasksOf
<1>6. px \in Nat /\ py \in Nat
  BY <1>1
<1>7. L \in Int /\ P \in Int /\ job.data \in Int /\ job.band \in Int
  BY DEF Spaced
<1>8. i \in DOMAIN job.bands /\ i \in Nat
  <2>1. PICK S : job.bands \in Seq(S)
    BY DEF Planning, JobOk, IsSeq
  <2>2. QED
    BY <1>2, <2>1
<1>9. (D <=> /\ P = h.bps /\ L = h.tw * h.bps
             /\ ix0 = px /\ iy0 = py /\ ix1 = right /\ iy1 = bottom) /\ D \in BOOLEAN
  BY DEF Direct, Contiguous
<1> HIDE DEF t, D, ix0, ix1, iy0, iy1
<1>10. \A y \in 0..(job.y_size - 1) : (Y + y) \div h.tl = ty => (Y + y) % h.tl = Y + y - py
  <2> SUFFICES ASSUME NEW y \in 0..(job.y_size - 1)
               PROVE  (Y + y) \div h.tl = ty => (Y + y) % h.tl = Y + y - py
    OBVIOUS
  <2>1. Y \in Nat /\ y \in Nat /\ h.tl \in Nat \ {0}
    BY <1>1
  <2>2. RestIs(Y, y, h.tl, ty)
    BY <2>1, RestInTile
  <2>3. QED
    BY <2>2 DEF RestIs
<1>11. \A x \in 0..(job.x_size - 1) : (X + x) \div h.tw = tx => (X + x) % h.tw = X + x - px
  <2> SUFFICES ASSUME NEW x \in 0..(job.x_size - 1)
               PROVE  (X + x) \div h.tw = tx => (X + x) % h.tw = X + x - px
    OBVIOUS
  <2>1. X \in Nat /\ x \in Nat /\ h.tw \in Nat \ {0}
    BY <1>1
  <2>2. RestIs(X, x, h.tw, tx)
    BY <2>1, RestInTile
  <2>3. QED
    BY <2>2 DEF RestIs
<1>12. ASSUME ~D PROVE Holds(t, i, ty, tx)
  <2>1. Rect(t) = (0..(t.h - 1)) \X (0..(t.w - 1))
    BY <1>5, <1>9, <1>12 DEF Rect
  <2>2. ASSUME NEW p \in Rect(t) PROVE Goes(t, p, i, ty, tx)
    <3>1. p[1] \in 0..(iy1 - iy0 - 1) /\ p[2] \in 0..(ix1 - ix0 - 1)
      BY <1>5, <2>1
    <3> DEFINE u == p[1]
               v == p[2]
    <3>2. Source(t, p) = <<iy0 - py + u, ix0 - px + v>>
      BY <1>5, <1>9, <1>12 DEF Source
    <3>3. At(t, p) = job.data + (iy0 - Y) * L + (ix0 - X) * P + (i - 1) * job.band + (u * L + v * P)
      BY <1>5, <1>9, <1>12 DEF At
    <3> DEFINE y == iy0 - Y + u
               x == ix0 - X + v
    <3>4. u \in Int /\ v \in Int
      BY <1>3, <1>4, <3>1
    <3> HIDE DEF u, v
    <3>5. (iy0 - Y) * L + u * L = y * L /\ (ix0 - X) * P + v * P = x * P
      BY <1>1, <1>3, <1>4, <1>7, <3>4, Spread
    <3>6. At(t, p) = job.data + (i - 1) * job.band + y * L + x * P
      <4> DEFINE a == (iy0 - Y) * L
                 b == u * L
                 c == (ix0 - X) * P
                 d == v * P
                 e == (i - 1) * job.band
                 f == y * L
                 g == x * P
      <4>1. a \in Int /\ b \in Int /\ c \in Int /\ d \in Int /\ e \in Int /\ f \in Int /\ g \in Int
        BY <1>1, <1>3, <1>4, <1>7, <1>8, <3>4
      <4>2. At(t, p) = job.data + a + c + e + (b + d) /\ a + b = f /\ c + d = g
        BY <3>3, <3>5
      <4> HIDE DEF a, b, c, d, e, f, g
      <4>3. At(t, p) = job.data + e + f + g
        BY <1>7, <4>1, <4>2
      <4>4. QED
        BY <4>3 DEF e, f, g
    <3>7. y \in 0..(job.y_size - 1) /\ x \in 0..(job.x_size - 1)
      BY <1>1, <1>3, <1>4, <3>1, <3>4 DEF u, v
    <3>8. /\ iy0 - py + u \in 0..(h.tl - 1) /\ ix0 - px + v \in 0..(h.tw - 1)
      <4> HIDE DEF px, py
      <4>1. QED
        BY <1>1, <1>3, <1>4, <1>6, <3>1, <3>4 DEF u, v
    <3>9. py + (iy0 - py + u) - Y = y /\ px + (ix0 - px + v) - X = x
      <4> HIDE DEF px, py
      <4>1. QED
        BY <1>1, <1>3, <1>4, <1>6, <3>4
    <3>10. InWindow(i, y, x) /\ At(t, p) = PlaceAt(i, y, x)
      BY <1>8, <3>6, <3>7 DEF InWindow, PlaceAt
    <3> HIDE DEF y, x
    <3>11. Source(t, p)[1] = iy0 - py + u /\ Source(t, p)[2] = ix0 - px + v
           /\ Source(t, p) = <<Source(t, p)[1], Source(t, p)[2]>>
      BY <3>2
    <3>12. py + Source(t, p)[1] - Y = y /\ px + Source(t, p)[2] - X = x
      BY <3>9, <3>11
    <3>13. QED
      BY <3>8, <3>10, <3>11, <3>12 DEF Goes
  <2>3. ASSUME NEW y \in 0..(job.y_size - 1), NEW x \in 0..(job.x_size - 1),
               InTile(y, x, ty, tx)
        PROVE  Brings(t, y, x)
    <3> DEFINE mine == (Y + y) \div h.tl = ty /\ (X + x) \div h.tw = tx
    <3>0. mine
      BY <2>3 DEF InTile, TileRow, TileColumn
    <3> DEFINE p == <<Y + y - iy0, X + x - ix0>>
    <3>1. iy0 <= Y + y /\ Y + y < iy1 /\ ix0 <= X + x /\ X + x < ix1
      BY <1>3, <1>4, <3>0
    <3>2. p \in Rect(t)
      BY <1>1, <1>3, <1>4, <1>5, <2>1, <3>1
    <3>3. Source(t, p) = <<(iy0 - py) + (Y + y - iy0), (ix0 - px) + (X + x - ix0)>>
      BY <1>5, <1>9, <1>12 DEF Source
    <3>4. (iy0 - py) + (Y + y - iy0) = Y + y - py /\ (ix0 - px) + (X + x - ix0) = X + x - px
      <4> HIDE DEF px, py
      <4>1. QED
        BY <1>1, <1>3, <1>4, <1>6
    <3>5. Source(t, p) = <<(Y + y) % h.tl, (X + x) % h.tw>>
      BY <1>10, <1>11, <3>0, <3>3, <3>4
    <3>6. QED
      BY <3>2, <3>5 DEF Brings
  <2>4. QED
    BY <1>1, <1>5, <1>8, <2>2, <2>3 DEF Holds
<1>13. ASSUME D PROVE Holds(t, i, ty, tx)
  <2>1. Rect(t) = (0..(h.tl - 1)) \X (0..(h.tw - 1))
    BY <1>5, <1>13 DEF Rect
  <2>2. P = h.bps /\ L = h.tw * h.bps /\ ix0 = px /\ iy0 = py /\ ix1 = px + h.tw /\ iy1 = py + h.tl
    BY <1>3, <1>4, <1>9, <1>13
  <2>3. ASSUME NEW p \in Rect(t) PROVE Goes(t, p, i, ty, tx)
    <3> DEFINE u == p[1]
               v == p[2]
    <3>1. u \in 0..(h.tl - 1) /\ v \in 0..(h.tw - 1)
      BY <2>1
    <3>2. Source(t, p) = <<u, v>>
      BY <1>5, <1>13 DEF Source
    <3>3. At(t, p) = job.data + (iy0 - Y) * L + (ix0 - X) * P + (i - 1) * job.band + (u * h.tw + v) * h.bps
      BY <1>5, <1>13 DEF At
    <3>4. u \in Int /\ v \in Int
      BY <3>1
    <3> HIDE DEF u, v
    <3>5. (u * h.tw + v) * h.bps = u * L + v * P
      <4> DEFINE a == h.tw
                 b == h.bps
      <4>1. a \in Int /\ b \in Int /\ L = a * b /\ P = b
        BY <1>1, <2>2
      <4> HIDE DEF a, b
      <4>2. (u * a + v) * b = u * (a * b) + v * b
        BY <3>4, <4>1
      <4>3. QED
        BY <4>1, <4>2 DEF a, b
    <3> DEFINE y == iy0 - Y + u
               x == ix0 - X + v
    <3>6. (iy0 - Y) * L + u * L = y * L /\ (ix0 - X) * P + v * P = x * P
      BY <1>1, <1>3, <1>4, <1>7, <3>4, Spread
    <3>7. At(t, p) = job.data + (i - 1) * job.band + y * L + x * P
      <4> DEFINE a == (iy0 - Y) * L
                 b == u * L
                 c == (ix0 - X) * P
                 d == v * P
                 e == (i - 1) * job.band
                 f == y * L
                 g == x * P
      <4>1. a \in Int /\ b \in Int /\ c \in Int /\ d \in Int /\ e \in Int /\ f \in Int /\ g \in Int
        BY <1>1, <1>3, <1>4, <1>7, <1>8, <3>4
      <4>2. At(t, p) = job.data + a + c + e + (b + d) /\ a + b = f /\ c + d = g
        BY <3>3, <3>5, <3>6
      <4> HIDE DEF a, b, c, d, e, f, g
      <4>3. At(t, p) = job.data + e + f + g
        BY <1>7, <4>1, <4>2
      <4>4. QED
        BY <4>3 DEF e, f, g
    <3>8. y \in 0..(job.y_size - 1) /\ x \in 0..(job.x_size - 1)
      <4> HIDE DEF px, py
      <4>1. QED
        BY <1>1, <1>3, <1>4, <1>6, <2>2, <3>1, <3>4
    <3>9. py + u - Y = y /\ px + v - X = x
      <4> HIDE DEF px, py
      <4>1. QED
        BY <1>1, <1>6, <2>2, <3>4
    <3>10. InWindow(i, y, x) /\ At(t, p) = PlaceAt(i, y, x)
      BY <1>8, <3>7, <3>8 DEF InWindow, PlaceAt
    <3> HIDE DEF y, x
    <3>11. Source(t, p)[1] = u /\ Source(t, p)[2] = v /\ Source(t, p) = <<Source(t, p)[1], Source(t, p)[2]>>
      BY <3>2
    <3>12. py + Source(t, p)[1] - Y = y /\ px + Source(t, p)[2] - X = x
      BY <3>9, <3>11
    <3>13. QED
      BY <3>1, <3>10, <3>11, <3>12 DEF Goes
  <2>4. ASSUME NEW y \in 0..(job.y_size - 1), NEW x \in 0..(job.x_size - 1)
        PROVE  Brings(t, y, x)
    <3> DEFINE p == <<(Y + y) % h.tl, (X + x) % h.tw>>
    <3>1. Y + y \in Nat /\ X + x \in Nat /\ h.tl \in Nat \ {0} /\ h.tw \in Nat \ {0}
      BY <1>1
    <3>2. p \in Rect(t)
      BY <2>1, <3>1, RemainderParts
    <3>3. Source(t, p) = p
      BY <1>5, <1>13 DEF Source
    <3>4. QED
      BY <3>2, <3>3 DEF Brings
  <2>5. QED
    BY <1>1, <1>5, <1>8, <2>3, <2>4 DEF Holds
<1>14. QED
  BY <1>8, <1>9, <1>12, <1>13 DEF t

(* Tasks for different tiles or bands have no place in common, and a task  *)
(* puts its pixels in different places.                                    *)
LEMMA HoldsApart ==
  ASSUME JobOk(job), Apart, NEW t, NEW u, NEW i, NEW j, NEW r, NEW c, NEW v, NEW d,
         Holds(t, i, r, c), Holds(u, j, v, d),
         NEW p \in Rect(t), NEW q \in Rect(u), At(t, p) = At(u, q)
  PROVE  i = j /\ r = v /\ c = d /\ Source(t, p) = Source(u, q)
<1> DEFINE s == Source(t, p)
           z == Source(u, q)
           l == job.h.tl
           w == job.h.tw
<1>1. /\ s = <<s[1], s[2]>> /\ s[1] \in 0..(l - 1) /\ s[2] \in 0..(w - 1)
      /\ InWindow(i, r * l + s[1] - job.y_off, c * w + s[2] - job.x_off)
      /\ At(t, p) = PlaceAt(i, r * l + s[1] - job.y_off, c * w + s[2] - job.x_off)
      /\ r \in Nat /\ c \in Nat
  BY DEF Holds, Goes
<1>2. /\ z = <<z[1], z[2]>> /\ z[1] \in 0..(l - 1) /\ z[2] \in 0..(w - 1)
      /\ InWindow(j, v * l + z[1] - job.y_off, d * w + z[2] - job.x_off)
      /\ At(u, q) = PlaceAt(j, v * l + z[1] - job.y_off, d * w + z[2] - job.x_off)
      /\ v \in Nat /\ d \in Nat
  BY DEF Holds, Goes
<1>3. l \in Nat /\ w \in Nat /\ job.y_off \in Nat /\ job.x_off \in Nat
  BY WidthAssumption DEF JobOk, HeaderShape
<1> HIDE DEF s, z, l, w
<1>4. /\ i = j
      /\ r * l + s[1] - job.y_off = v * l + z[1] - job.y_off
      /\ c * w + s[2] - job.x_off = d * w + z[2] - job.x_off
  <2> DEFINE y1 == r * l + s[1] - job.y_off
             x1 == c * w + s[2] - job.x_off
             y2 == v * l + z[1] - job.y_off
             x2 == d * w + z[2] - job.x_off
  <2>1. /\ InWindow(i, y1, x1) /\ At(t, p) = PlaceAt(i, y1, x1)
        /\ InWindow(j, y2, x2) /\ At(u, q) = PlaceAt(j, y2, x2)
    BY <1>1, <1>2
  <2> HIDE DEF y1, x1, y2, x2
  <2>2. i = j /\ y1 = y2 /\ x1 = x2
    BY <2>1 DEF Apart
  <2>3. QED
    BY <2>2 DEF y1, x1, y2, x2
<1>5. r * l + s[1] = v * l + z[1] /\ c * w + s[2] = d * w + z[2]
  <2> DEFINE a == r * l
             b == v * l
             e == c * w
             f == d * w
  <2>1. a \in Int /\ b \in Int /\ e \in Int /\ f \in Int
    BY <1>1, <1>2, <1>3
  <2>2. s[1] \in Int /\ s[2] \in Int /\ z[1] \in Int /\ z[2] \in Int
    BY <1>1, <1>2, <1>3
  <2> HIDE DEF a, b, e, f
  <2>3. a + s[1] - job.y_off = b + z[1] - job.y_off /\ e + s[2] - job.x_off = f + z[2] - job.x_off
    BY <1>4 DEF a, b, e, f
  <2>4. a + s[1] = b + z[1] /\ e + s[2] = f + z[2]
    BY <1>3, <2>1, <2>2, <2>3
  <2>5. QED
    BY <2>4 DEF a, b, e, f
<1>6. r = v /\ s[1] = z[1]
  <2> DEFINE a == s[1]
             b == z[1]
  <2>1. a \in 0..(l - 1) /\ b \in 0..(l - 1) /\ r \in Int /\ v \in Int /\ r * l + a = v * l + b
    BY <1>1, <1>2, <1>5
  <2> HIDE DEF a, b
  <2>2. r = v /\ a = b
    BY <1>3, <2>1, DigitsUnique
  <2>3. QED
    BY <2>2 DEF a, b
<1>7. c = d /\ s[2] = z[2]
  <2> DEFINE a == s[2]
             b == z[2]
  <2>1. a \in 0..(w - 1) /\ b \in 0..(w - 1) /\ c \in Int /\ d \in Int /\ c * w + a = d * w + b
    BY <1>1, <1>2, <1>5
  <2> HIDE DEF a, b
  <2>2. c = d /\ a = b
    BY <1>3, <2>1, DigitsUnique
  <2>3. QED
    BY <2>2 DEF a, b
<1>8. s = z
  BY <1>1, <1>2, <1>6, <1>7
<1>9. QED
  BY <1>4, <1>6, <1>7, <1>8 DEF s, z

(* A task puts its pixels in different places.                             *)
Injective(t) == \A p, q \in Rect(t) : At(t, p) = At(t, q) => Source(t, p) = Source(t, q)

(* So a task puts its pixels in different places.                          *)
LEMMA HoldsInjective ==
  ASSUME JobOk(job), Apart, NEW t, NEW i, NEW r, NEW c, Holds(t, i, r, c)
  PROVE  Injective(t)
BY HoldsApart DEF Injective

-----------------------------------------------------------------------------
(* What the tasks planned so far are, together.                            *)

(* The edges of the tiles that an image is covered with fit in int.        *)
EdgesFit(h) ==
  TilesOver(h.width, h.tw) * h.tw <= IntMax /\ TilesOver(h.length, h.tl) * h.tl <= IntMax

Before(r, c) == r < ty \/ (r = ty /\ c < tx)

Labeled == \A a \in 1..Len(tasks) : \E i, r, c : Holds(tasks[a], i, r, c) /\ Before(r, c)

Separate == \A a, b \in 1..Len(tasks) : a < b => Footprint(tasks[a]) \cap Footprint(tasks[b]) = {}

Covered(i, y, x) == \E a \in 1..Len(tasks) : Holds(tasks[a], i, TileRow(y), TileColumn(x))

Covering ==
  \A i, y, x : InWindow(i, y, x) /\ Before(TileRow(y), TileColumn(x)) => Covered(i, y, x)

GeoInv ==
  phase # "none" =>
    /\ JobOk(job) /\ Spaced
    /\ IsSeq(tasks) /\ ty \in Nat /\ tx \in Nat
    /\ phase = "plan" => Planning
    /\ phase = "run" => ~MoreTiles
    /\ Labeled
    /\ Apart => Separate
    /\ EdgesFit(job.h) => Covering

(* What a task is, and where it writes, hangs on the job alone.            *)
LEMMA HoldsSame ==
  ASSUME job' = job, NEW t, NEW i, NEW r, NEW c
  PROVE  Holds(t, i, r, c)' <=> Holds(t, i, r, c)
BY DEF Holds, Goes, Brings, InTile, TileRow, TileColumn, InWindow, PlaceAt, Rect, Source, At

LEMMA FootprintSame ==
  ASSUME job' = job, NEW t
  PROVE  Footprint(t)' = Footprint(t)
BY DEF Footprint, Rect, At

(* The tile of a position of the window, along one axis.                   *)
LEMMA AxisTiles ==
  ASSUME NEW off \in Nat, NEW v \in Nat, NEW size \in Nat, v + 1 <= size, NEW n \in Nat \ {0}
  PROVE  /\ (off + v) \div n \in Nat /\ off \div n <= (off + v) \div n
         /\ (off + v) \div n < TileEnd(off, size, n)
<1> DEFINE a == off + v
           b == off + size
<1>1. a \in Nat /\ b \in Nat /\ a + 1 <= b /\ off <= a
  OBVIOUS
<1>2. TileEnd(off, size, n) = (b + n - 1) \div n
  BY DEF TileEnd
<1> HIDE DEF a, b
<1>3. a \div n \in Nat
  BY <1>1, RoundDown
<1>4. off \div n <= a \div n
  BY <1>1, QuotientMonotone
<1>5. a \div n < (b + n - 1) \div n
  BY <1>1, QuotientBelow
<1>6. QED
  BY <1>2, <1>3, <1>4, <1>5 DEF a

(* The tiles of the window's positions.                                    *)
LEMMA WindowTiles ==
  ASSUME JobOk(job), NEW i, NEW y, NEW x, InWindow(i, y, x)
  PROVE  /\ TileRow(y) \in Nat /\ job.y_off \div job.h.tl <= TileRow(y)
         /\ TileRow(y) < TileEnd(job.y_off, job.y_size, job.h.tl)
         /\ TileColumn(x) \in Nat /\ job.x_off \div job.h.tw <= TileColumn(x)
         /\ TileColumn(x) < TileEnd(job.x_off, job.x_size, job.h.tw)
<1>1. /\ job.y_off \in Nat /\ y \in Nat /\ y + 1 <= job.y_size /\ job.y_size \in Nat
      /\ job.x_off \in Nat /\ x \in Nat /\ x + 1 <= job.x_size /\ job.x_size \in Nat
      /\ job.h.tl \in Nat \ {0} /\ job.h.tw \in Nat \ {0}
  BY WidthAssumption DEF JobOk, InWindow, HeaderShape
<1>2. QED
  BY <1>1, AxisTiles DEF TileRow, TileColumn

(* One axis of a tile that has a position of the window, its edge in int:  *)
(* the task is not empty there.                                            *)
LEMMA ClipNotEmpty ==
  ASSUME NEW t \in Nat, NEW tile \in 1..U16Max, NEW off \in Nat, NEW size \in Nat \ {0},
         NEW extent \in 1..IntMax, off + size <= extent,
         TilesOver(extent, tile) * tile <= IntMax,
         NEW edge \in IntSum(t * tile, tile),
         NEW v \in 0..(size - 1), (off + v) \div tile = t
  PROVE  ~(ClipEnd(edge, off + size, extent) <= Max({t * tile, off}))
<1> DEFINE n == TilesOver(extent, tile)
           p == t * tile
           b == off + size
           a == off + v
<1>1. tile \in Nat \ {0} /\ a \in Nat /\ b \in Nat /\ a + 1 <= b /\ b <= extent /\ off <= a
  BY WidthAssumption
<1>2. a \div tile = t
  OBVIOUS
<1>3. t < TileEnd(off, size, tile)
  <2>1. TileEnd(off, size, tile) = (b + tile - 1) \div tile
    BY DEF TileEnd
  <2> HIDE DEF a, b
  <2>2. a \div tile < (b + tile - 1) \div tile
    BY <1>1, QuotientBelow
  <2>3. QED
    BY <1>2, <2>1, <2>2
<1>4. t \in 0..(n - 1) /\ n \in Nat
  BY <1>3, TileInGrid
<1>5. p <= a /\ a < p + tile /\ p \in Nat
  <2> HIDE DEF a
  <2>1. (a \div tile) * tile <= a /\ a < (a \div tile) * tile + tile /\ (a \div tile) * tile \in Nat
    BY <1>1, RoundDown
  <2>2. QED
    BY <1>2, <2>1
<1>6. p + tile <= IntMax
  <2>1. (t + 1) * tile <= n * tile
    <3> HIDE DEF n
    <3>1. t + 1 \in Int /\ n \in Int /\ tile \in Nat /\ t + 1 <= n
      BY <1>1, <1>4
    <3>2. QED
      BY <3>1, ProductMonotone
  <2>2. (t + 1) * tile = p + tile
    BY <1>1
  <2>3. n * tile \in Int /\ IntMax \in Nat
    BY <1>1, <1>4, WidthAssumption
  <2> HIDE DEF n, p
  <2>4. n * tile <= IntMax
    BY DEF n
  <2>5. QED
    BY <1>1, <1>5, <2>1, <2>2, <2>3, <2>4
<1> HIDE DEF n, p, a, b
<1>7. edge = p + tile
  <2>1. edge \in IntSum(p, tile)
    BY DEF p
  <2>2. QED
    BY <1>6, <2>1 DEF IntSum
<1>8. Max({p, off}) \in {p, off}
  <2>1. p \in Int /\ off \in Int
    BY <1>5
  <2>2. QED
    BY <2>1, MaxOfTwo
<1>9. ClipEnd(edge, b, extent) \in {edge, b, extent}
  <2>1. \E x \in {edge, b, extent} : \A y \in {edge, b, extent} : x <= y
    BY <1>1, <1>5, <1>7
  <2>2. QED
    BY <2>1 DEF ClipEnd, Min
<1>10. ~(ClipEnd(edge, b, extent) <= Max({p, off}))
  BY <1>1, <1>5, <1>7, <1>8, <1>9
<1>11. QED
  BY <1>10 DEF b, p

(* The tile of a position of the window has a task.                        *)
LEMMA TileNotEmpty ==
  ASSUME Planning, EdgesFit(job.h),
         NEW right \in IntSum(tx * job.h.tw, job.h.tw), NEW bottom \in IntSum(ty * job.h.tl, job.h.tl),
         NEW i, NEW y, NEW x, InWindow(i, y, x), InTile(y, x, ty, tx)
  PROVE  i \in DOMAIN TasksOf(right, bottom)
<1> DEFINE ix0 == Max({tx * job.h.tw, job.x_off})
           iy0 == Max({ty * job.h.tl, job.y_off})
           ix1 == ClipEnd(right, job.x_off + job.x_size, job.h.width)
           iy1 == ClipEnd(bottom, job.y_off + job.y_size, job.h.length)
<1>1. /\ job.h.tw \in 1..U16Max /\ job.h.tl \in 1..U16Max
      /\ job.h.width \in 1..IntMax /\ job.h.length \in 1..IntMax
      /\ job.x_off \in Nat /\ job.x_size \in Nat \ {0} /\ job.x_off + job.x_size <= job.h.width
      /\ job.y_off \in Nat /\ job.y_size \in Nat \ {0} /\ job.y_off + job.y_size <= job.h.length
      /\ tx \in Nat /\ ty \in Nat
      /\ y \in 0..(job.y_size - 1) /\ x \in 0..(job.x_size - 1) /\ i \in DOMAIN job.bands
  BY DEF Planning, JobOk, HeaderShape, InWindow
<1>2. (job.y_off + y) \div job.h.tl = ty /\ (job.x_off + x) \div job.h.tw = tx
  BY DEF InTile, TileRow, TileColumn
<1>3. ~(ix1 <= ix0)
  BY <1>1, <1>2, ClipNotEmpty DEF EdgesFit
<1>4. ~(iy1 <= iy0)
  BY <1>1, <1>2, ClipNotEmpty DEF EdgesFit
<1>5. DOMAIN TasksOf(right, bottom) = DOMAIN job.bands
  BY <1>3, <1>4 DEF TasksOf
<1>6. QED
  BY <1>1, <1>5

(* A plan begins with no task.                                             *)
LEMMA BuildPlanGeo ==
  ASSUME PlanInv, NEW j, JobOk(j), BuildPlan(j), Spaced' PROVE GeoInv'
<1>1. /\ phase' = "plan" /\ job' = j /\ tasks' = <<>>
      /\ ty' = j.y_off \div j.h.tl /\ tx' = j.x_off \div j.h.tw
  BY DEF BuildPlan, PlanInv
<1>2. PlanInv'
  BY BuildPlanPreserves
<1>3. JobOk(job)' /\ Planning' /\ ty' \in Nat /\ tx' \in Nat
  BY <1>1, <1>2 DEF PlanInv, Planning
<1>4. IsSeq(tasks)' /\ Len(tasks') = 0
  BY <1>1, <1>2 DEF PlanInv
<1>5. Labeled' /\ Separate'
  BY <1>4 DEF Labeled, Separate
<1>6. Covering'
  <2> SUFFICES ASSUME NEW i, NEW y, NEW x, InWindow(i, y, x)' PROVE ~Before(TileRow(y), TileColumn(x))'
    BY DEF Covering
  <2>1. /\ TileRow(y)' \in Nat /\ job'.y_off \div job'.h.tl <= TileRow(y)'
        /\ TileColumn(x)' \in Nat /\ job'.x_off \div job'.h.tw <= TileColumn(x)'
    <3>1. y \in 0..(j.y_size - 1) /\ x \in 0..(j.x_size - 1)
      BY <1>1 DEF InWindow
    <3>2. /\ j.y_off \in Nat /\ y \in Nat /\ y + 1 <= j.y_size /\ j.y_size \in Nat
          /\ j.x_off \in Nat /\ x \in Nat /\ x + 1 <= j.x_size /\ j.x_size \in Nat
          /\ j.h.tl \in Nat \ {0} /\ j.h.tw \in Nat \ {0}
      BY <3>1, WidthAssumption DEF JobOk, HeaderShape
    <3>3. /\ (j.y_off + y) \div j.h.tl \in Nat /\ j.y_off \div j.h.tl <= (j.y_off + y) \div j.h.tl
          /\ (j.x_off + x) \div j.h.tw \in Nat /\ j.x_off \div j.h.tw <= (j.x_off + x) \div j.h.tw
      BY <3>2, AxisTiles
    <3>4. QED
      BY <1>1, <3>3 DEF TileRow, TileColumn
  <2>2. ty' <= TileRow(y)' /\ tx' <= TileColumn(x)'
    BY <1>1, <2>1
  <2>3. QED
    BY <1>3, <2>1, <2>2 DEF Before
<1>7. QED
  BY <1>1, <1>3, <1>4, <1>5, <1>6 DEF GeoInv

(* The tasks for one more tile join those that there are.                  *)
LEMMA PlanTileGeo == ASSUME PlanInv, GeoInv, PlanTile PROVE GeoInv'
<1>1. /\ phase = "plan" /\ phase' = "plan" /\ MoreTiles /\ job' = job
      /\ Planning /\ Spaced /\ JobOk(job) /\ IsSeq(tasks) /\ Labeled
      /\ Apart => Separate
      /\ EdgesFit(job.h) => Covering
  BY DEF PlanTile, GeoInv
<1>2. PICK right \in IntSum(tx * job.h.tw, job.h.tw), bottom \in IntSum(ty * job.h.tl, job.h.tl) :
        tasks' = tasks \o TasksOf(right, bottom)
  BY DEF PlanTile
<1> DEFINE T == TasksOf(right, bottom)
           n == Len(tasks)
<1>3. \A i \in DOMAIN T : Holds(T[i], i, ty, tx)
  BY <1>1, TaskHolds
<1>4. \A i, y, x : InWindow(i, y, x) /\ InTile(y, x, ty, tx) /\ EdgesFit(job.h) => i \in DOMAIN T
  BY <1>1, TileNotEmpty
<1>5. IsSeq(T)
  BY <1>1, TasksOfOk
<1>6. tasks' = tasks \o T
  BY <1>2
<1>7. PlanInv' /\ Planning' /\ IsSeq(tasks)' /\ ty' \in Nat /\ tx' \in Nat
  <2>1. PlanInv'
    BY PlanTilePreserves
  <2>2. QED
    BY <1>1, <2>1 DEF PlanInv, Planning
<1>8. \A r, c : (r \in Nat /\ c \in Nat /\ Before(r, c)) \/ (r = ty /\ c = tx) => Before(r, c)'
  <2>1. ty \in Nat /\ tx \in Nat
    BY <1>1 DEF Planning
  <2>2. (tx' = tx + 1 /\ ty' = ty) \/ ty' = ty + 1
    BY DEF PlanTile
  <2>3. QED
    BY <1>7, <2>1, <2>2 DEF Before
<1>9. \A i, y, x : InWindow(i, y, x) /\ Before(TileRow(y), TileColumn(x))' =>
         Before(TileRow(y), TileColumn(x)) \/ InTile(y, x, ty, tx)
  <2> SUFFICES ASSUME NEW i, NEW y, NEW x, InWindow(i, y, x), Before(TileRow(y), TileColumn(x))'
               PROVE  Before(TileRow(y), TileColumn(x)) \/ InTile(y, x, ty, tx)
    OBVIOUS
  <2> DEFINE r == TileRow(y)
             c == TileColumn(x)
             e == TileEnd(job.x_off, job.x_size, job.h.tw)
             o == job.x_off \div job.h.tw
  <2>1. r \in Nat /\ c \in Nat /\ o <= c /\ c < e
    BY <1>1, WindowTiles
  <2>2. TileRow(y)' = r /\ TileColumn(x)' = c
    BY <1>1 DEF TileRow, TileColumn
  <2>3. r < ty' \/ (r = ty' /\ c < tx')
    BY <2>2 DEF Before
  <2>4. \/ tx + 1 < e /\ tx' = tx + 1 /\ ty' = ty
        \/ ~(tx + 1 < e) /\ tx' = o /\ ty' = ty + 1
    BY DEF PlanTile
  <2>5. ty \in Nat /\ tx \in Nat /\ e \in Int /\ o \in Int
    <3>1. /\ job.x_off \in Nat /\ job.x_size \in Nat \ {0} /\ job.h.tw \in Nat \ {0}
          /\ job.x_off + job.x_size + job.h.tw - 1 \in Nat
      BY <1>1, WidthAssumption DEF JobOk, HeaderShape
    <3>2. QED
      BY <1>1, <3>1, RoundDown DEF Planning, TileEnd
  <2> HIDE DEF r, c, e, o
  <2>6. (r < ty \/ (r = ty /\ c < tx)) \/ (r = ty /\ c = tx)
    BY <2>1, <2>3, <2>4, <2>5
  <2>7. QED
    BY <2>6 DEF Before, InTile, r, c
<1> HIDE DEF T, n
<1>10. PICK S, U : tasks \in Seq(S) /\ T \in Seq(U)
  BY <1>1, <1>5 DEF IsSeq
<1>11. /\ n \in Nat /\ Len(T) \in Nat /\ DOMAIN T = 1..Len(T) /\ Len(tasks') = n + Len(T)
       /\ \A a \in 1..n : tasks'[a] = tasks[a]
       /\ \A b \in 1..Len(T) : tasks'[n + b] = T[b]
       /\ \A a \in 1..Len(tasks') : a \in 1..n \/ \E b \in 1..Len(T) : a = n + b
  <2>1. n = Len(tasks) /\ tasks \in Seq(S \cup U) /\ T \in Seq(S \cup U) /\ tasks' = tasks \o T
    BY <1>6, <1>10 DEF n
  <2>2. n \in Nat /\ Len(T) \in Nat /\ DOMAIN T = 1..Len(T) /\ Len(tasks') = n + Len(T)
    BY <2>1
  <2>3. \A a \in 1..n : tasks'[a] = tasks[a]
    BY <2>1, <2>2
  <2>4. \A b \in 1..Len(T) : tasks'[n + b] = T[b]
    BY <2>1, <2>2
  <2>5. ASSUME NEW a \in 1..Len(tasks'), a \notin 1..n PROVE \E b \in 1..Len(T) : a = n + b
    <3>1. a - n \in 1..Len(T) /\ a = n + (a - n)
      BY <2>2, <2>5
    <3>2. QED
      BY <3>1
  <2>6. QED
    BY <2>2, <2>3, <2>4, <2>5
<1>12. Labeled'
  <2> SUFFICES ASSUME NEW a \in 1..Len(tasks')
               PROVE  \E i, r, c : Holds(tasks[a], i, r, c)' /\ Before(r, c)'
    BY DEF Labeled
  <2>1. CASE a \in 1..n
    <3>1. PICK i, r, c : Holds(tasks[a], i, r, c) /\ Before(r, c)
      BY <1>1, <2>1 DEF Labeled, n
    <3>2. r \in Nat /\ c \in Nat
      BY <3>1 DEF Holds
    <3>3. Holds(tasks[a], i, r, c)'
      BY <1>1, <1>11, <2>1, <3>1, HoldsSame
    <3>4. QED
      BY <1>8, <3>1, <3>2, <3>3
  <2>2. ASSUME NEW b \in 1..Len(T), a = n + b PROVE \E i, r, c : Holds(tasks[a], i, r, c)' /\ Before(r, c)'
    <3>1. PICK r, c : r = ty /\ c = tx
      OBVIOUS
    <3>2. Holds(tasks[a], b, r, c)'
      BY <1>1, <1>3, <1>11, <2>2, <3>1, HoldsSame
    <3>3. QED
      BY <1>8, <3>1, <3>2
  <2>3. QED
    BY <1>11, <2>1, <2>2
<1>13. ASSUME Apart PROVE Separate'
  <2> SUFFICES ASSUME NEW a \in 1..Len(tasks'), NEW b \in 1..Len(tasks'), a < b
               PROVE  Footprint(tasks'[a]) \cap Footprint(tasks'[b]) = {}
    BY <1>1, FootprintSame DEF Separate
  <2>1. ASSUME NEW t, NEW u, NEW i, NEW j, NEW r, NEW c, NEW v, NEW d,
               Holds(t, i, r, c), Holds(u, j, v, d), i # j \/ r # v \/ c # d
        PROVE  Footprint(t) \cap Footprint(u) = {}
    BY <1>1, <1>13, <2>1, HoldsApart DEF Footprint
  <2>2. CASE b \in 1..n
    <3>1. a \in 1..n
      BY <1>11, <2>2
    <3>2. QED
      BY <1>1, <1>11, <1>13, <2>2, <3>1 DEF Separate, n
  <2>3. ASSUME NEW e \in 1..Len(T), b = n + e PROVE Footprint(tasks'[a]) \cap Footprint(tasks'[b]) = {}
    <3>1. Holds(tasks'[b], e, ty, tx)
      BY <1>3, <1>11, <2>3
    <3>2. CASE a \in 1..n
      <4>1. PICK i, r, c : Holds(tasks'[a], i, r, c) /\ Before(r, c)
        BY <1>1, <1>11, <3>2 DEF Labeled, n
      <4>2. r # ty \/ c # tx
        <5>1. r \in Nat /\ c \in Nat /\ ty \in Nat /\ tx \in Nat
          BY <1>1, <4>1 DEF Holds, Planning
        <5>2. QED
          BY <4>1, <5>1 DEF Before
      <4>3. QED
        BY <2>1, <3>1, <4>1, <4>2
    <3>3. ASSUME NEW f \in 1..Len(T), a = n + f PROVE Footprint(tasks'[a]) \cap Footprint(tasks'[b]) = {}
      <4>1. f # e
        BY <2>3, <3>3
      <4>2. Holds(tasks'[a], f, ty, tx)
        BY <1>3, <1>11, <3>3
      <4>3. QED
        BY <2>1, <3>1, <4>1, <4>2
    <3>4. QED
      BY <1>11, <3>2, <3>3
  <2>4. QED
    BY <1>11, <2>2, <2>3
<1>14. ASSUME EdgesFit(job.h) PROVE Covering'
  <2>1. \A i, y, x : InWindow(i, y, x)' <=> InWindow(i, y, x)
    BY <1>1 DEF InWindow
  <2>2. \A y : TileRow(y)' = TileRow(y) /\ TileColumn(y)' = TileColumn(y)
    BY <1>1 DEF TileRow, TileColumn
  <2> SUFFICES ASSUME NEW i, NEW y, NEW x, InWindow(i, y, x), Before(TileRow(y), TileColumn(x))'
               PROVE  Covered(i, y, x)'
    BY <2>1 DEF Covering
  <2>3. CASE Before(TileRow(y), TileColumn(x))
    <3>1. PICK a \in 1..n : Holds(tasks[a], i, TileRow(y), TileColumn(x))
      BY <1>1, <1>14, <2>3 DEF Covering, Covered, n
    <3>2. a \in 1..Len(tasks') /\ tasks'[a] = tasks[a]
      BY <1>11
    <3>3. PICK r, c : r = TileRow(y) /\ c = TileColumn(x)
      OBVIOUS
    <3>4. Holds(tasks[a], i, r, c)'
      BY <1>1, <3>1, <3>2, <3>3, HoldsSame
    <3>5. QED
      BY <2>2, <3>2, <3>3, <3>4 DEF Covered
  <2>4. CASE InTile(y, x, ty, tx)
    <3>1. i \in 1..Len(T) /\ TileRow(y) = ty /\ TileColumn(x) = tx
      BY <1>4, <1>11, <1>14, <2>4 DEF InTile
    <3>2. n + i \in 1..Len(tasks') /\ tasks'[n + i] = T[i]
      BY <1>11, <3>1
    <3>3. PICK r, c, a : r = TileRow(y) /\ c = TileColumn(x) /\ a = n + i
      OBVIOUS
    <3>4. Holds(tasks[a], i, r, c)'
      BY <1>1, <1>3, <1>11, <3>1, <3>2, <3>3, HoldsSame
    <3>5. QED
      BY <2>2, <3>2, <3>3, <3>4 DEF Covered
  <2>5. QED
    BY <1>9, <2>3, <2>4
<1>15. QED
  <2>1. \A i, y, x : InWindow(i, y, x)' = InWindow(i, y, x) /\ PlaceAt(i, y, x)' = PlaceAt(i, y, x)
    BY <1>1 DEF InWindow, PlaceAt
  <2>2. Apart' = Apart
    BY <2>1 DEF Apart
  <2>3. Spaced'
    BY <1>1 DEF Spaced
  <2>4. QED
    BY <1>1, <1>7, <1>12, <1>13, <1>14, <2>2, <2>3 DEF GeoInv

(* Where positions are put hangs on the job alone.                         *)
LEMMA ApartSame == ASSUME job' = job PROVE Apart' <=> Apart
<1>1. \A i, y, x : InWindow(i, y, x)' = InWindow(i, y, x) /\ PlaceAt(i, y, x)' = PlaceAt(i, y, x)
  BY DEF InWindow, PlaceAt
<1>2. QED
  BY <1>1 DEF Apart

(* What was planned hangs on the job, the tile that is next and the tasks. *)
LEMMA PlannedSame ==
  ASSUME UNCHANGED <<job, ty, tx, tasks>>
  PROVE  /\ Spaced' = Spaced /\ Apart' = Apart /\ Labeled' = Labeled
         /\ Separate' = Separate /\ Covering' = Covering
         /\ Planning' = Planning /\ MoreTiles' = MoreTiles
<1>1. job' = job /\ ty' = ty /\ tx' = tx /\ tasks' = tasks
  OBVIOUS
<1>2. \A i, y, x : InWindow(i, y, x)' = InWindow(i, y, x) /\ PlaceAt(i, y, x)' = PlaceAt(i, y, x)
  BY <1>1 DEF InWindow, PlaceAt
<1>3. \A r, c : Before(r, c)' = Before(r, c) /\ TileRow(r)' = TileRow(r) /\ TileColumn(c)' = TileColumn(c)
  BY <1>1 DEF Before, TileRow, TileColumn
<1>4. \A t, i, r, c : Holds(t, i, r, c)' <=> Holds(t, i, r, c)
  BY <1>1, HoldsSame
<1>5. Spaced' = Spaced /\ Planning' = Planning /\ MoreTiles' = MoreTiles
  BY <1>1 DEF Spaced, Planning, MoreTiles
<1>6. Apart' = Apart
  BY <1>1, <1>2 DEF Apart
<1>7. Labeled' = Labeled
  BY <1>1, <1>3, <1>4 DEF Labeled
<1>8. Separate' = Separate
  BY <1>1, FootprintSame DEF Separate
<1>9. \A i, y, x : Covered(i, y, x)' = Covered(i, y, x)
  BY <1>1, <1>3, <1>4 DEF Covered
<1>10. Covering' = Covering
  BY <1>1, <1>2, <1>3, <1>9 DEF Covering
<1>11. QED
  BY <1>5, <1>6, <1>7, <1>8, <1>10

LEMMA GeoSame == ASSUME GeoInv, UNCHANGED planVars PROVE GeoInv'
<1>1. UNCHANGED <<job, ty, tx, tasks>> /\ phase' = phase /\ job' = job /\ tasks' = tasks
      /\ ty' = ty /\ tx' = tx
  BY DEF planVars
<1>2. QED
  BY <1>1, PlannedSame DEF GeoInv

(* Every step of a plan keeps the geometry of its tasks.                   *)
LEMMA PlanStepGeo == ASSUME PlanInv, GeoInv, PlanStep PROVE GeoInv'
<1>1. CASE PlanTile
  BY <1>1, PlanTileGeo
<1>2. CASE PlanEnd
  <2>1. UNCHANGED <<job, ty, tx, tasks>> /\ phase = "plan" /\ phase' = "run" /\ job' = job
        /\ tasks' = tasks /\ ty' = ty /\ tx' = tx /\ ~MoreTiles
    BY <1>2 DEF PlanEnd, tileVars
  <2>2. QED
    BY <2>1, PlannedSame DEF GeoInv
<1>3. CASE UNCHANGED planVars
  BY <1>3, GeoSame
<1>4. CASE PlanOverrun
  <2>1. UNCHANGED <<job, ty, tx, tasks>> /\ phase = "plan" /\ phase' = "overrun" /\ job' = job
        /\ tasks' = tasks /\ ty' = ty /\ tx' = tx
    BY <1>4 DEF PlanOverrun
  <2>2. QED
    BY <2>1, PlannedSame DEF GeoInv
<1>5. QED
  BY <1>1, <1>2, <1>3, <1>4 DEF PlanStep, AfterPlanOverrun, plVars, Fetch, FetchFails, Inflate, Deliver

-----------------------------------------------------------------------------
(* The delivery.  What a run has put in the buffer by the time a task is   *)
(* done with, and what it leaves alone.                                    *)

(* The pixels of t are in the buffer, in the given state.                  *)
Delivered(t, state) ==
  \A p \in Rect(t) : /\ At(t, p) \in DOMAIN dst
                     /\ dst[At(t, p)] = [tile |-> TileOf(t), pos |-> Source(t, p), state |-> state]

(* What the decompression leaves.                                          *)
Fresh == IF job.h.predictor = 2 THEN "raw" ELSE "sample"

(* The step writes the places of t and no other.                           *)
Touches(t) ==
  /\ DOMAIN dst \subseteq DOMAIN dst' /\ DOMAIN dst' \subseteq DOMAIN dst \cup Footprint(t)
  /\ \A o \in DOMAIN dst : o \notin Footprint(t) => dst'[o] = dst[o]

(* What is delivered hangs on the job and the buffer.                      *)
LEMMA DeliveredSame ==
  ASSUME job' = job, dst' = dst, NEW t, NEW state
  PROVE  Delivered(t, state)' <=> Delivered(t, state)
BY DEF Delivered, Rect, At, TileOf, Source

(* Copying writes the pixels of the task, all of them.                     *)
LEMMA WrittenTouches ==
  ASSUME NEW t, NEW b, dst' = Written(t, b)
  PROVE  Touches(t)
BY DEF Written, Touches

(* A task writes all its pixels.                                           *)
LEMMA WrittenDelivers ==
  ASSUME job' = job, NEW t, Injective(t), NEW b, dst' = Written(t, b), b.tile = TileOf(t)
  PROVE  Delivered(t, b.state)' /\ Touches(t)
<1> DEFINE Cell(o) == [tile |-> b.tile, pos |-> Source(t, CHOOSE q \in Rect(t) : At(t, q) = o), state |-> b.state]
<1>1. dst' = [o \in Footprint(t) \cup DOMAIN dst |-> IF o \in Footprint(t) THEN Cell(o) ELSE dst[o]]
  BY DEF Written
<1>4. /\ DOMAIN dst' = Footprint(t) \cup DOMAIN dst
      /\ \A o \in Footprint(t) : dst'[o] = Cell(o)
      /\ \A o \in DOMAIN dst : o \notin Footprint(t) => dst'[o] = dst[o]
  BY <1>1
<1>5. ASSUME NEW p \in Rect(t)
      PROVE  /\ At(t, p) \in DOMAIN dst'
             /\ dst'[At(t, p)] = [tile |-> TileOf(t), pos |-> Source(t, p), state |-> b.state]
  <2>1. At(t, p) \in Footprint(t)
    BY DEF Footprint
  <2> DEFINE q == CHOOSE z \in Rect(t) : At(t, z) = At(t, p)
  <2>2. q \in Rect(t) /\ At(t, q) = At(t, p)
    OBVIOUS
  <2>3. Source(t, q) = Source(t, p)
    BY <2>2 DEF Injective
  <2>4. QED
    BY <1>4, <2>1, <2>3
<1>6. Delivered(t, b.state)'
  <2>1. /\ Rect(t)' = Rect(t) /\ TileOf(t)' = TileOf(t)
        /\ \A p : At(t, p)' = At(t, p) /\ Source(t, p)' = Source(t, p)
    BY DEF Rect, TileOf, At, Source
  <2>2. QED
    BY <1>5, <2>1 DEF Delivered
<1>7. QED
  BY <1>4, <1>6 DEF Touches

(* A worker that has decompressed a tile holds it.                         *)
Ready(w) ==
  LET t == tasks[cur[w]]
  IN  IF t.direct THEN Delivered(t, Fresh) ELSE scratch[w] = [tile |-> TileOf(t), state |-> Fresh]

Exclusive == \A w, v \in Workers : w # v /\ cur[w] # 0 => cur[w] # cur[v]

(* As long as nothing failed, the tasks nobody is working on any more are  *)
(* delivered.                                                              *)
Finished == \A a \in 1..(next - 1) : (\A w \in Workers : cur[w] # a) => Delivered(tasks[a], "sample")

DelInv ==
  /\ \E S : scratch \in [Workers -> S]
  /\ phase # "run" => next = 1
  /\ Exclusive
  /\ \A w \in Workers : stage[w] = "inflated" => Ready(w)
  /\ ~bad => Finished

Laid == Separate /\ \A a \in 1..Len(tasks) : Injective(tasks[a])

(* The tasks of a plan are laid out for delivery.                          *)
LEMMA GeoLaid == ASSUME GeoInv, Apart, phase # "none" PROVE Laid
<1>1. Separate /\ Labeled /\ JobOk(job) /\ Apart
  BY DEF GeoInv
<1>2. QED
  BY <1>1, HoldsInjective DEF Laid, Labeled

(* What one task writes leaves what a task apart from it has delivered.    *)
LEMMA TouchStands ==
  ASSUME job' = job, NEW t, Touches(t), NEW u, Footprint(t) \cap Footprint(u) = {},
         NEW state, Delivered(u, state)
  PROVE  Delivered(u, state)'
<1>1. /\ Rect(u)' = Rect(u) /\ TileOf(u)' = TileOf(u)
      /\ \A p : At(u, p)' = At(u, p) /\ Source(u, p)' = Source(u, p)
  BY DEF Rect, TileOf, At, Source
<1>2. ASSUME NEW p \in Rect(u)
      PROVE  /\ At(u, p) \in DOMAIN dst'
             /\ dst'[At(u, p)] = [tile |-> TileOf(u), pos |-> Source(u, p), state |-> state]
  <2>1. At(u, p) \notin Footprint(t)
    BY DEF Footprint
  <2>2. /\ At(u, p) \in DOMAIN dst
        /\ dst[At(u, p)] = [tile |-> TileOf(u), pos |-> Source(u, p), state |-> state]
    BY DEF Delivered
  <2>3. QED
    BY <2>1, <2>2 DEF Touches
<1>3. QED
  BY <1>1, <1>2 DEF Delivered

(* Tasks have no place in common, so what one worker writes is nothing to  *)
(* the others, nor to the tasks that are done with.                        *)
LEMMA OthersStand ==
  ASSUME PlanInv, DelInv, Laid, NEW w \in Workers, cur[w] # 0,
         job' = job, tasks' = tasks, next' = next, Touches(tasks[cur[w]]),
         \A v \in Workers : v # w => cur'[v] = cur[v] /\ scratch'[v] = scratch[v]
  PROVE  /\ \A v \in Workers : v # w /\ stage[v] = "inflated" => Ready(v)'
         /\ \A a \in 1..(next - 1) : a # cur[w] /\ Delivered(tasks[a], "sample") => Delivered(tasks[a], "sample")'
<1>1. Len(tasks) \in Nat /\ next \in 1..(Len(tasks) + 1) /\ cur \in [Workers -> 0..(next - 1)]
  BY DEF PlanInv, IsSeq
<1>2. cur[w] \in 1..Len(tasks)
  BY <1>1
<1>3. ASSUME NEW a \in 1..Len(tasks), a # cur[w]
      PROVE  Footprint(tasks[cur[w]]) \cap Footprint(tasks[a]) = {}
  <2>1. cur[w] < a \/ a < cur[w]
    BY <1>2, <1>3
  <2>2. QED
    BY <1>2, <2>1 DEF Laid, Separate
<1>4. ASSUME NEW v \in Workers, v # w, stage[v] = "inflated" PROVE Ready(v)'
  <2>1. cur[v] \in 1..Len(tasks) /\ cur[v] # cur[w] /\ cur'[v] = cur[v] /\ scratch'[v] = scratch[v]
    <3>1. stage[v] # "idle"
      BY <1>4
    <3>2. cur[v] # 0
      BY <3>1 DEF PlanInv
    <3>3. cur[v] # cur[w]
      BY <1>4, <3>2 DEF DelInv, Exclusive
    <3>4. QED
      BY <1>1, <1>4, <3>2, <3>3
  <2>2. Ready(v)
    BY <1>4 DEF DelInv
  <2>3. PICK u : u = tasks[cur[v]]
    OBVIOUS
  <2>4. CASE u.direct
    <3>1. PICK f : f = Fresh
      OBVIOUS
    <3>2. Delivered(u, f)
      BY <2>2, <2>3, <2>4, <3>1 DEF Ready
    <3>3. Footprint(tasks[cur[w]]) \cap Footprint(u) = {}
      BY <1>3, <2>1, <2>3
    <3>4. PICK t : t = tasks[cur[w]]
      OBVIOUS
    <3>5. Delivered(u, f)'
      BY <3>2, <3>3, <3>4, TouchStands
    <3>6. Fresh' = f
      BY <3>1 DEF Fresh
    <3>7. QED
      BY <2>1, <2>3, <2>4, <3>5, <3>6 DEF Ready
  <2>5. CASE ~u.direct
    BY <2>1, <2>2, <2>3, <2>5 DEF Ready, TileOf, Fresh
  <2>6. QED
    BY <2>4, <2>5
<1>5. ASSUME NEW a \in 1..(next - 1), a # cur[w], Delivered(tasks[a], "sample")
      PROVE  Delivered(tasks[a], "sample")'
  <2>1. a \in 1..Len(tasks)
    BY <1>1
  <2>2. PICK u, t : u = tasks[a] /\ t = tasks[cur[w]]
    OBVIOUS
  <2>3. Delivered(u, "sample")'
    BY <1>3, <1>5, <2>1, <2>2, TouchStands
  <2>4. QED
    BY <2>2, <2>3
<1>6. QED
  BY <1>4, <1>5

(* What a worker holds hangs on the job, its task and its tile.            *)
LEMMA ReadySame ==
  ASSUME NEW w, Ready(w), job' = job, tasks' = tasks, dst' = dst,
         cur'[w] = cur[w], scratch'[w] = scratch[w]
  PROVE  Ready(w)'
<1>1. PICK u, f : u = tasks[cur[w]] /\ f = Fresh
  OBVIOUS
<1>2. Fresh' = f
  BY <1>1 DEF Fresh
<1>3. Delivered(u, f)' <=> Delivered(u, f)
  BY DeliveredSame
<1>4. CASE u.direct
  BY <1>1, <1>2, <1>3, <1>4 DEF Ready
<1>5. CASE ~u.direct
  BY <1>1, <1>2, <1>5 DEF Ready, TileOf
<1>6. QED
  BY <1>4, <1>5

(* A task is taken, or given up at once.                                   *)
LEMMA FetchDelivery ==
  ASSUME PlanInv, DelInv, NEW w \in Workers, Fetch(w) \/ FetchFails(w) PROVE DelInv'
<1>1. /\ phase = "run" /\ phase' = "run" /\ cur[w] = 0 /\ next' = next + 1
      /\ job' = job /\ tasks' = tasks /\ dst' = dst /\ scratch' = scratch
      /\ next \in Nat \ {0} /\ Len(tasks) \in Nat
      /\ cur \in [Workers -> 0..(next - 1)] /\ stage \in [Workers -> {"idle", "fetched", "inflated"}]
  BY DEF Fetch, FetchFails, planVars, PlanInv, IsSeq
<1>2. \/ cur' = [cur EXCEPT ![w] = next] /\ stage' = [stage EXCEPT ![w] = "fetched"] /\ bad' = bad
      \/ cur' = cur /\ stage' = stage /\ bad' = TRUE
  BY DEF Fetch, FetchFails
<1>3. \A v \in Workers : v # w => cur'[v] = cur[v] /\ stage'[v] = stage[v]
  BY <1>1, <1>2
<1>4. Exclusive'
  <2> SUFFICES ASSUME NEW v \in Workers, NEW z \in Workers, v # z, cur'[v] # 0 PROVE cur'[v] # cur'[z]
    BY DEF Exclusive
  <2>1. CASE cur' = cur
    BY <2>1 DEF DelInv, Exclusive
  <2>2. CASE cur' = [cur EXCEPT ![w] = next]
    <3>1. cur[v] < next /\ cur[z] < next
      BY <1>1
    <3>2. cur'[w] = next
      BY <1>1, <2>2
    <3>3. CASE v = w
      BY <1>1, <1>3, <3>1, <3>2, <3>3
    <3>4. CASE z = w
      BY <1>1, <1>3, <3>1, <3>2, <3>4
    <3>5. CASE v # w /\ z # w
      BY <1>3, <3>5 DEF DelInv, Exclusive
    <3>6. QED
      BY <3>3, <3>4, <3>5
  <2>3. QED
    BY <1>2, <2>1, <2>2
<1>5. ASSUME NEW v \in Workers, stage'[v] = "inflated" PROVE Ready(v)'
  <2>1. v # w
    <3>1. stage[w] = "idle"
      BY <1>1 DEF PlanInv
    <3>2. stage'[w] # "inflated"
      BY <1>1, <1>2, <3>1
    <3>3. QED
      BY <1>5, <3>2
  <2>2. stage[v] = "inflated" /\ cur'[v] = cur[v]
    BY <1>3, <1>5, <2>1
  <2>3. Ready(v)
    BY <2>2 DEF DelInv
  <2>4. QED
    BY <1>1, <2>2, <2>3, ReadySame
<1>6. ASSUME ~bad' PROVE Finished'
  <2>1. cur' = [cur EXCEPT ![w] = next] /\ ~bad
    BY <1>2, <1>6
  <2> SUFFICES ASSUME NEW a \in 1..(next' - 1), \A v \in Workers : cur'[v] # a
               PROVE  Delivered(tasks[a], "sample")'
    BY DEF Finished
  <2>2. a \in 1..(next - 1)
    <3>1. a # next
      BY <1>1, <2>1
    <3>2. QED
      BY <1>1, <3>1
  <2>3. \A v \in Workers : cur[v] # a
    BY <1>1, <1>3, <2>2
  <2>4. Delivered(tasks[a], "sample")
    BY <2>1, <2>2, <2>3 DEF DelInv, Finished
  <2>5. PICK u : u = tasks[a]
    OBVIOUS
  <2>6. Delivered(u, "sample")'
    BY <1>1, <2>4, <2>5, DeliveredSame
  <2>7. QED
    BY <1>1, <2>5, <2>6
<1>7. \E S : scratch' \in [Workers -> S]
  BY <1>1 DEF DelInv
<1>8. QED
  BY <1>1, <1>4, <1>5, <1>6, <1>7 DEF DelInv

(* What is left of the work of w when it has written what its task writes. *)
LEMMA DropDelivery ==
  ASSUME PlanInv, DelInv, Laid, NEW w \in Workers, cur[w] # 0, phase = "run",
         NEW t, t = tasks[cur[w]],
         phase' = "run", job' = job, tasks' = tasks, next' = next, Touches(t),
         \A v \in Workers : v # w => scratch'[v] = scratch[v],
         \E S : scratch' \in [Workers -> S],
         cur' = [cur EXCEPT ![w] = 0], stage' = [stage EXCEPT ![w] = "idle"],
         bad' \/ (bad' = bad /\ Delivered(t, "sample")')
  PROVE  DelInv'
<1>1. /\ cur \in [Workers -> 0..(next - 1)] /\ stage \in [Workers -> {"idle", "fetched", "inflated"}]
  BY DEF PlanInv
<1>2. \A v \in Workers : v # w => cur'[v] = cur[v] /\ stage'[v] = stage[v]
  BY <1>1
<1>3. cur'[w] = 0 /\ stage'[w] = "idle"
  BY <1>1
<1>4. Exclusive'
  BY <1>2, <1>3 DEF DelInv, Exclusive
<1>5. /\ \A v \in Workers : v # w /\ stage[v] = "inflated" => Ready(v)'
      /\ \A a \in 1..(next - 1) : a # cur[w] /\ Delivered(tasks[a], "sample") => Delivered(tasks[a], "sample")'
  BY <1>2, OthersStand
<1>6. \A v \in Workers : stage'[v] = "inflated" => Ready(v)'
  BY <1>2, <1>3, <1>5
<1>7. ASSUME ~bad' PROVE Finished'
  <2>1. ~bad /\ Delivered(t, "sample")'
    BY <1>7
  <2> SUFFICES ASSUME NEW a \in 1..(next' - 1), \A v \in Workers : cur'[v] # a
               PROVE  Delivered(tasks[a], "sample")'
    BY DEF Finished
  <2>2. CASE a = cur[w]
    BY <2>1, <2>2
  <2>3. CASE a # cur[w]
    <3>1. \A v \in Workers : cur[v] # a
      BY <1>2, <2>3
    <3>2. Delivered(tasks[a], "sample")
      BY <2>1, <3>1 DEF DelInv, Finished
    <3>3. QED
      BY <1>5, <2>3, <3>2
  <2>4. QED
    BY <2>2, <2>3
<1>8. QED
  BY <1>4, <1>6, <1>7 DEF DelInv

(* The decompressed tile, and the tile after the predictor.                *)
LEMMA InflateDelivery ==
  ASSUME PlanInv, DelInv, Laid, NEW w \in Workers, Inflate(w) PROVE DelInv'
<1>1. PICK t : t = tasks[cur[w]]
  OBVIOUS
<1>2. PICK produced, b :
        /\ b = IF produced = "whole" THEN [tile |-> TileOf(t), state |-> Fresh] ELSE Stale
        /\ \/ t.direct /\ dst' = Written(t, b) /\ scratch' = scratch
           \/ ~t.direct /\ scratch' = [scratch EXCEPT ![w] = b] /\ dst' = dst
        /\ \/ produced = "whole" /\ stage' = [stage EXCEPT ![w] = "inflated"] /\ cur' = cur /\ bad' = bad
           \/ Fail(w)
  BY <1>1 DEF Inflate, Accepted, Fresh
<1>3. /\ phase = "run" /\ phase' = "run" /\ stage[w] = "fetched"
      /\ job' = job /\ tasks' = tasks /\ next' = next
  BY DEF Inflate, planVars
<1>4. /\ cur[w] # 0 /\ cur[w] \in 1..Len(tasks)
      /\ cur \in [Workers -> 0..(next - 1)] /\ stage \in [Workers -> {"idle", "fetched", "inflated"}]
  <2>1. cur[w] # 0
    BY <1>3 DEF PlanInv
  <2>2. Len(tasks) \in Nat /\ next \in 1..(Len(tasks) + 1) /\ cur[w] \in 0..(next - 1)
    BY DEF PlanInv, IsSeq
  <2>3. QED
    BY <2>1, <2>2 DEF PlanInv
<1>5. Injective(t)
  BY <1>1, <1>4 DEF Laid
<1>6. Touches(t)
  <2>1. CASE dst' = Written(t, b)
    BY <2>1, WrittenTouches
  <2>2. CASE dst' = dst
    BY <2>2 DEF Touches
  <2>3. QED
    BY <1>2, <2>1, <2>2
<1>7. /\ \A v \in Workers : v # w => scratch'[v] = scratch[v]
      /\ \E S : scratch' \in [Workers -> S]
      /\ ~t.direct => scratch'[w] = b
  <2>1. PICK S : scratch \in [Workers -> S]
    BY DEF DelInv
  <2>2. CASE scratch' = scratch /\ t.direct
    BY <2>1, <2>2
  <2>3. CASE scratch' = [scratch EXCEPT ![w] = b]
    <3>1. scratch' \in [Workers -> S \cup {b}]
      BY <2>1, <2>3
    <3>2. QED
      BY <2>1, <2>3, <3>1
  <2>4. QED
    BY <1>2, <2>2, <2>3
<1>8. CASE Fail(w)
  BY <1>1, <1>3, <1>4, <1>6, <1>7, <1>8, DropDelivery DEF Fail
<1>9. CASE produced = "whole" /\ stage' = [stage EXCEPT ![w] = "inflated"] /\ cur' = cur /\ bad' = bad
  <2>1. b = [tile |-> TileOf(t), state |-> Fresh]
    BY <1>2, <1>9
  <2>2. /\ \A v \in Workers : v # w /\ stage[v] = "inflated" => Ready(v)'
        /\ \A a \in 1..(next - 1) : a # cur[w] /\ Delivered(tasks[a], "sample") => Delivered(tasks[a], "sample")'
    BY <1>1, <1>3, <1>4, <1>6, <1>7, <1>9, OthersStand
  <2>3. Ready(w)'
    <3>1. PICK f : f = Fresh
      OBVIOUS
    <3>2. Fresh' = f /\ TileOf(t)' = TileOf(t)
      BY <1>3, <3>1 DEF Fresh, TileOf
    <3>3. CASE t.direct
      <4>1. dst' = Written(t, b) /\ b.tile = TileOf(t) /\ b.state = f
        BY <1>2, <2>1, <3>1, <3>3
      <4>2. Delivered(t, f)'
        BY <1>3, <1>5, <4>1, WrittenDelivers
      <4>3. QED
        BY <1>1, <1>3, <1>9, <3>2, <3>3, <4>2 DEF Ready
    <3>4. CASE ~t.direct
      BY <1>1, <1>3, <1>7, <1>9, <2>1, <3>1, <3>2, <3>4 DEF Ready
    <3>5. QED
      BY <3>3, <3>4
  <2>4. \A v \in Workers : stage'[v] = "inflated" => Ready(v)'
    BY <1>4, <1>9, <2>2, <2>3
  <2>5. ASSUME ~bad' PROVE Finished'
    <3> SUFFICES ASSUME NEW a \in 1..(next' - 1), \A v \in Workers : cur'[v] # a
                 PROVE  Delivered(tasks[a], "sample")'
      BY DEF Finished
    <3>1. a # cur[w] /\ \A v \in Workers : cur[v] # a
      BY <1>9
    <3>2. Delivered(tasks[a], "sample")
      BY <1>3, <1>9, <2>5, <3>1 DEF DelInv, Finished
    <3>3. QED
      BY <1>3, <2>2, <3>1, <3>2
  <2>6. Exclusive'
    BY <1>9 DEF DelInv, Exclusive
  <2>7. QED
    BY <1>3, <1>7, <2>4, <2>5, <2>6 DEF DelInv
<1>10. QED
  BY <1>2, <1>8, <1>9

(* The predictor, and the copy out of scratch.                             *)
LEMMA DeliverDelivery ==
  ASSUME PlanInv, DelInv, Laid, job.h.predictor \in {1, 2}, NEW w \in Workers, Deliver(w) PROVE DelInv'
<1> DEFINE Summed(b) == IF b.state = "raw" THEN [b EXCEPT !.state = "sample"] ELSE b
<1>1. PICK t : t = tasks[cur[w]]
  OBVIOUS
<1>2. /\ phase = "run" /\ phase' = "run" /\ stage[w] = "inflated"
      /\ job' = job /\ tasks' = tasks /\ next' = next /\ bad' = bad
      /\ cur' = [cur EXCEPT ![w] = 0] /\ stage' = [stage EXCEPT ![w] = "idle"]
  BY DEF Deliver, planVars
<1>3. \/ /\ t.direct /\ scratch' = scratch
         /\ dst' = [o \in DOMAIN dst |-> IF o \in Footprint(t) THEN Summed(dst[o]) ELSE dst[o]]
      \/ ~t.direct /\ scratch' = [scratch EXCEPT ![w] = Summed(scratch[w])] /\ dst' = Written(t, Summed(scratch[w]))
  BY <1>1 DEF Deliver
<1>4. /\ cur[w] # 0 /\ cur[w] \in 1..Len(tasks)
  <2>1. cur[w] # 0
    BY <1>2 DEF PlanInv
  <2>2. Len(tasks) \in Nat /\ next \in 1..(Len(tasks) + 1) /\ cur[w] \in 0..(next - 1)
    BY DEF PlanInv, IsSeq
  <2>3. QED
    BY <2>1, <2>2
<1>5. Injective(t)
  BY <1>1, <1>4 DEF Laid
<1>6. Ready(w) /\ Fresh \in {"raw", "sample"}
  BY <1>2 DEF DelInv, Fresh
<1>7. /\ \A v \in Workers : v # w => scratch'[v] = scratch[v]
      /\ \E S : scratch' \in [Workers -> S]
  <2>1. PICK S : scratch \in [Workers -> S]
    BY DEF DelInv
  <2>2. CASE scratch' = scratch
    BY <2>1, <2>2
  <2>3. CASE scratch' = [scratch EXCEPT ![w] = Summed(scratch[w])]
    <3>1. scratch' \in [Workers -> S \cup {Summed(scratch[w])}]
      <4> HIDE DEF Summed
      <4>1. QED
        BY <2>1, <2>3
    <3>2. \A v \in Workers : v # w => scratch'[v] = scratch[v]
      <4> HIDE DEF Summed
      <4>1. QED
        BY <2>1, <2>3
    <3>3. QED
      BY <3>1, <3>2
  <2>4. QED
    BY <1>3, <2>2, <2>3
<1>8. Delivered(t, "sample")' /\ Touches(t)
  <2>1. CASE t.direct
    <3>1. PICK f : f = Fresh
      OBVIOUS
    <3>2. Delivered(t, f) /\ f \in {"raw", "sample"}
      BY <1>1, <1>6, <2>1, <3>1 DEF Ready
    <3>3. dst' = [o \in DOMAIN dst |-> IF o \in Footprint(t) THEN Summed(dst[o]) ELSE dst[o]]
      BY <1>3, <2>1
    <3>4. ASSUME NEW p \in Rect(t)
          PROVE  /\ At(t, p) \in DOMAIN dst'
                 /\ dst'[At(t, p)] = [tile |-> TileOf(t), pos |-> Source(t, p), state |-> "sample"]
      <4>1. At(t, p) \in Footprint(t)
        BY DEF Footprint
      <4>2. /\ At(t, p) \in DOMAIN dst
            /\ dst[At(t, p)] = [tile |-> TileOf(t), pos |-> Source(t, p), state |-> f]
        BY <3>2 DEF Delivered
      <4>3. Summed(dst[At(t, p)]) = [tile |-> TileOf(t), pos |-> Source(t, p), state |-> "sample"]
        BY <3>2, <4>2
      <4> HIDE DEF Summed
      <4>4. QED
        BY <3>3, <4>1, <4>2, <4>3
    <3>5. /\ Rect(t)' = Rect(t) /\ TileOf(t)' = TileOf(t)
          /\ \A p : At(t, p)' = At(t, p) /\ Source(t, p)' = Source(t, p)
      BY <1>2 DEF Rect, TileOf, At, Source
    <3>6. Delivered(t, "sample")'
      BY <3>4, <3>5 DEF Delivered
    <3>7. Touches(t)
      <4> HIDE DEF Summed
      <4>1. QED
        BY <3>3 DEF Touches
    <3>8. QED
      BY <3>6, <3>7
  <2>2. CASE ~t.direct
    <3>1. PICK b : b = Summed(scratch[w])
      OBVIOUS
    <3>2. scratch[w] = [tile |-> TileOf(t), state |-> Fresh]
      BY <1>1, <1>6, <2>2 DEF Ready
    <3>3. b.tile = TileOf(t) /\ b.state = "sample"
      BY <1>6, <3>1, <3>2
    <3>4. dst' = Written(t, b)
      BY <1>3, <2>2, <3>1
    <3> HIDE DEF Summed
    <3>5. Delivered(t, b.state)' /\ Touches(t)
      BY <1>2, <1>5, <3>3, <3>4, WrittenDelivers
    <3>6. QED
      BY <3>3, <3>5
  <2>3. QED
    BY <2>1, <2>2
<1> HIDE DEF Summed
<1>9. QED
  BY <1>1, <1>2, <1>4, <1>7, <1>8, DropDelivery

-----------------------------------------------------------------------------
(* A run as a whole.                                                       *)

(* Nothing has been taken before the run, and nothing is left to say.      *)
LEMMA PlanningDelivery ==
  ASSUME PlanInv, next = 1, \E S : scratch \in [Workers -> S], UNCHANGED tileVars
  PROVE  DelInv'
<1>1. /\ next' = next /\ cur' = cur /\ stage' = stage /\ scratch' = scratch /\ next = 1
  BY DEF tileVars
<1>2. \A w \in Workers : cur[w] = 0 /\ stage[w] = "idle"
  BY <1>1 DEF PlanInv
<1>3. Exclusive'
  BY <1>1, <1>2 DEF Exclusive
<1>4. Finished'
  BY <1>1 DEF Finished
<1>5. QED
  BY <1>1, <1>2, <1>3, <1>4 DEF DelInv

(* A step that leaves the plan alone leaves its delivery.                  *)
LEMMA DeliverySame == ASSUME DelInv, UNCHANGED plVars PROVE DelInv'
<1>1. /\ job' = job /\ tasks' = tasks /\ phase' = phase /\ next' = next /\ cur' = cur
      /\ stage' = stage /\ scratch' = scratch /\ dst' = dst /\ bad' = bad
  BY DEF plVars, planVars, tileVars
<1>2. \A w \in Workers : Ready(w) => Ready(w)'
  BY <1>1, ReadySame
<1>3. \A t : Delivered(t, "sample")' <=> Delivered(t, "sample")
  BY <1>1, DeliveredSame
<1>4. Finished' <=> Finished
  BY <1>1, <1>3 DEF Finished
<1>5. Exclusive' <=> Exclusive
  BY <1>1 DEF Exclusive
<1>6. QED
  BY <1>1, <1>2, <1>4, <1>5 DEF DelInv

(* Every step of a plan keeps what it has delivered.                       *)
LEMMA PlanStepDelivery ==
  ASSUME PlanInv, DelInv, Laid, job.h.predictor \in {1, 2}, PlanStep PROVE DelInv'
<1>1. CASE PlanTile \/ PlanOverrun \/ PlanEnd
  <2>1. phase = "plan" /\ UNCHANGED tileVars
    BY <1>1 DEF PlanTile, PlanOverrun, PlanEnd
  <2>2. next = 1 /\ \E S : scratch \in [Workers -> S]
    BY <2>1 DEF DelInv
  <2>3. QED
    BY <2>1, <2>2, PlanningDelivery
<1>2. CASE \E w \in Workers : Fetch(w) \/ FetchFails(w) \/ Inflate(w) \/ Deliver(w)
  BY <1>2, FetchDelivery, InflateDelivery, DeliverDelivery
<1>3. CASE AfterPlanOverrun
  BY <1>3, DeliverySame DEF AfterPlanOverrun
<1>4. QED
  BY <1>1, <1>2, <1>3 DEF PlanStep

(* A step of a plan writes the places of one task at most.                 *)
LEMMA PlanStepTouches ==
  ASSUME PlanInv, PlanStep
  PROVE  dst' = dst \/ \E a \in 1..Len(tasks) : Touches(tasks[a])
<1>1. CASE dst' = dst
  BY <1>1
<1>2. ASSUME NEW w \in Workers, stage[w] # "idle", Touches(tasks[cur[w]])
      PROVE  \E a \in 1..Len(tasks) : Touches(tasks[a])
  <2>1. cur[w] # 0
    BY <1>2 DEF PlanInv
  <2>2. Len(tasks) \in Nat /\ next \in 1..(Len(tasks) + 1) /\ cur[w] \in 0..(next - 1)
    BY DEF PlanInv, IsSeq
  <2>3. cur[w] \in 1..Len(tasks)
    BY <2>1, <2>2
  <2>4. QED
    BY <1>2, <2>3
<1>3. ASSUME NEW w \in Workers, Inflate(w) PROVE dst' = dst \/ Touches(tasks[cur[w]])
  <2>1. dst' = dst \/ \E b : dst' = Written(tasks[cur[w]], b)
    BY <1>3 DEF Inflate
  <2>2. QED
    BY <2>1, WrittenTouches
<1>4. ASSUME NEW w \in Workers, Deliver(w) PROVE Touches(tasks[cur[w]])
  <2> DEFINE t == tasks[cur[w]]
             Summed(b) == IF b.state = "raw" THEN [b EXCEPT !.state = "sample"] ELSE b
  <2>1. \/ dst' = [o \in DOMAIN dst |-> IF o \in Footprint(t) THEN Summed(dst[o]) ELSE dst[o]]
        \/ \E b : dst' = Written(t, b)
    BY <1>4 DEF Deliver
  <2> HIDE DEF t, Summed
  <2>2. Touches(t)
    <3>1. CASE dst' = [o \in DOMAIN dst |-> IF o \in Footprint(t) THEN Summed(dst[o]) ELSE dst[o]]
      BY <3>1 DEF Touches
    <3>2. QED
      BY <2>1, <3>1, WrittenTouches
  <2>3. QED
    BY <2>2 DEF t
<1>5. CASE PlanTile \/ PlanOverrun \/ AfterPlanOverrun \/ PlanEnd
  BY <1>5 DEF PlanTile, PlanOverrun, AfterPlanOverrun, PlanEnd, plVars, tileVars
<1>6. ASSUME NEW w \in Workers, Fetch(w) \/ FetchFails(w) PROVE dst' = dst
  BY <1>6 DEF Fetch, FetchFails
<1>7. ASSUME NEW w \in Workers, Inflate(w) \/ Deliver(w) PROVE stage[w] # "idle"
  BY <1>7 DEF Inflate, Deliver
<1>8. QED
  BY <1>2, <1>3, <1>4, <1>5, <1>6, <1>7 DEF PlanStep

(* The places of a task are places of its window.                          *)
LEMMA TaskPlaces ==
  ASSUME GeoInv, phase # "none", NEW a \in 1..Len(tasks), NEW o \in Footprint(tasks[a])
  PROVE  \E i, y, x : InWindow(i, y, x) /\ o = PlaceAt(i, y, x)
<1>1. PICK i, r, c : Holds(tasks[a], i, r, c)
  BY DEF GeoInv, Labeled
<1>2. PICK p \in Rect(tasks[a]) : o = At(tasks[a], p)
  BY DEF Footprint
<1>3. Goes(tasks[a], p, i, r, c)
  BY <1>1, <1>2 DEF Holds
<1>4. QED
  BY <1>2, <1>3 DEF Goes

(* A run that ends without failure has delivered the window, every sample  *)
(* of it, where the plan puts it.                                          *)
LEMMA RunDelivers ==
  ASSUME PlanInv, GeoInv, DelInv, phase = "run", ~bad, next > Len(tasks),
         \A w \in Workers : cur[w] = 0, EdgesFit(job.h),
         NEW i, NEW y, NEW x, InWindow(i, y, x)
  PROVE  /\ PlaceAt(i, y, x) \in DOMAIN dst
         /\ dst[PlaceAt(i, y, x)]
              = SampleAt(job.file, job.h, job.bands[i], job.y_off + y, job.x_off + x)
<1>1. /\ JobOk(job) /\ Covering /\ ~MoreTiles /\ ty \in Nat /\ Finished
  BY DEF GeoInv, DelInv
<1>2. /\ TileRow(y) \in Nat /\ TileRow(y) < TileEnd(job.y_off, job.y_size, job.h.tl)
      /\ TileColumn(x) \in Nat
  BY <1>1, WindowTiles
<1>3. TileRow(y) < ty
  <2> DEFINE e == TileEnd(job.y_off, job.y_size, job.h.tl)
             r == TileRow(y)
  <2>1. e \in Nat
    <3>1. job.y_off \in Nat /\ job.y_size \in Nat /\ job.h.tl \in Nat \ {0}
      BY <1>1, WidthAssumption, SMTT(30) DEF JobOk, HeaderShape
    <3> DEFINE n == job.h.tl
               b == job.y_off + job.y_size + n - 1
    <3>2. b \in Nat /\ n \in Nat \ {0}
      BY <3>1, SMTT(30)
    <3>3. e = b \div n
      BY DEF TileEnd
    <3> HIDE DEF e, b, n
    <3>4. b \div n \in Nat
      BY <3>2, RoundDown
    <3>5. QED
      BY <3>3, <3>4
  <2>2. r \in Nat /\ r < e /\ ~(ty < e) /\ ty \in Nat
    BY <1>1, <1>2 DEF MoreTiles
  <2> HIDE DEF e, r
  <2>3. r < ty
    BY <2>1, <2>2
  <2>4. QED
    BY <2>3 DEF r
<1>4. PICK a \in 1..Len(tasks) : Holds(tasks[a], i, TileRow(y), TileColumn(x))
  BY <1>1, <1>3 DEF Covering, Covered, Before
<1>5. PICK t : t = tasks[a]
  OBVIOUS
<1>6. Delivered(t, "sample")
  <2>1. Len(tasks) \in Nat /\ next \in 1..(Len(tasks) + 1)
    BY DEF PlanInv, IsSeq
  <2>2. a \in 1..(next - 1) /\ a # 0
    BY <2>1
  <2>3. QED
    BY <1>1, <1>5, <2>2 DEF Finished
<1>7. /\ y \in 0..(job.y_size - 1) /\ x \in 0..(job.x_size - 1)
  BY DEF InWindow
<1>8. PICK p \in Rect(t) : Source(t, p) = <<(job.y_off + y) % job.h.tl, (job.x_off + x) % job.h.tw>>
  BY <1>4, <1>5, <1>7 DEF Holds, InTile, Brings
<1>9. At(t, p) = PlaceAt(i, y, x)
  <2> DEFINE s == Source(t, p)
             u == TileRow(y) * job.h.tl + s[1] - job.y_off
             v == TileColumn(x) * job.h.tw + s[2] - job.x_off
  <2>1. At(t, p) = PlaceAt(i, u, v)
    BY <1>4, <1>5 DEF Holds, Goes
  <2>2. /\ job.y_off \in Nat /\ job.x_off \in Nat /\ y \in Nat /\ x \in Nat
        /\ job.h.tl \in Nat \ {0} /\ job.h.tw \in Nat \ {0}
    <3>1. job.h.tl \in Nat \ {0} /\ job.h.tw \in Nat \ {0}
      <4>1. job.h \in HeaderShape
        BY <1>1 DEF JobOk
      <4>2. job.h.tl \in 1..U16Max /\ job.h.tw \in 1..U16Max
        BY <4>1 DEF HeaderShape
      <4>3. QED
        BY <4>2, WidthAssumption
    <3>2. job.y_off \in Nat /\ job.x_off \in Nat /\ job.y_size \in Nat /\ job.x_size \in Nat
      BY <1>1 DEF JobOk
    <3>3. QED
      BY <1>7, <3>1, <3>2
  <2>3. u = y
    <3> DEFINE q == job.y_off + y
               n == job.h.tl
    <3>1. q \in Nat /\ n \in Nat \ {0} /\ u = (q \div n) * n + (q % n) - job.y_off
      BY <1>8, <2>2 DEF TileRow
    <3> HIDE DEF q, n, u
    <3>2. (q % n) \in 0..(n - 1) /\ (q \div n) \in Nat /\ q = (q \div n) * n + (q % n)
      BY <3>1, RemainderParts
    <3> DEFINE most == (q \div n) * n
               rest == q % n
    <3>3. u = q - job.y_off
      <4>1. most \in Nat /\ rest \in Nat /\ q = most + rest /\ u = most + rest - job.y_off
        BY <3>1, <3>2
      <4> HIDE DEF most, rest
      <4>2. QED
        BY <2>2, <4>1
    <3>4. QED
      BY <2>2, <3>3 DEF q
  <2>4. v = x
    <3> DEFINE q == job.x_off + x
               n == job.h.tw
    <3>1. q \in Nat /\ n \in Nat \ {0} /\ v = (q \div n) * n + (q % n) - job.x_off
      BY <1>8, <2>2 DEF TileColumn
    <3> HIDE DEF q, n, v
    <3>2. (q % n) \in 0..(n - 1) /\ (q \div n) \in Nat /\ q = (q \div n) * n + (q % n)
      BY <3>1, RemainderParts
    <3> DEFINE most == (q \div n) * n
               rest == q % n
    <3>3. v = q - job.x_off
      <4>1. most \in Nat /\ rest \in Nat /\ q = most + rest /\ v = most + rest - job.x_off
        BY <3>1, <3>2
      <4> HIDE DEF most, rest
      <4>2. QED
        BY <2>2, <4>1
    <3>4. QED
      BY <2>2, <3>3 DEF q
  <2> HIDE DEF u, v
  <2>5. QED
    BY <2>1, <2>3, <2>4
<1>10. t.idx = TileIndex(TilesOver(job.h.width, job.h.tw), job.h.spp, TileRow(y), TileColumn(x), job.bands[i] - 1)
  BY <1>4, <1>5 DEF Holds
<1>11. At(t, p) \in DOMAIN dst
       /\ dst[At(t, p)] = [tile |-> TileOf(t), pos |-> Source(t, p), state |-> "sample"]
  BY <1>6 DEF Delivered
<1>12. QED
  BY <1>8, <1>9, <1>10, <1>11 DEF SampleAt, TileOf, TileRow, TileColumn

-----------------------------------------------------------------------------
(* Layouts: the place of an element is its rank in the order of the axes.  *)

LEMMA AxesAreFour == FourAxes(Axes)
BY DEF FourAxes, Axes

(* A layout that is accepted orders three axes or four.                    *)
Layouted(c) == c \in CallShape /\ IsInjective(c.order) /\ LayoutOk(c)

OrderedBy(c, a1, a2, a3, a4) ==
  /\ IsOrder(Axes, a1, a2, a3, a4)
  /\ \/ c.order = <<a1, a2, a3, a4>>
     \/ c.order = <<a2, a3, a4>> /\ a1 = "n" /\ Len(c.picks) = 1

(* The order of an accepted layout, with an absent n in front.             *)
LEMMA LayoutOrders ==
  ASSUME NEW c, Layouted(c)
  PROVE  \E a1, a2, a3, a4 : OrderedBy(c, a1, a2, a3, a4)
<1> DEFINE o == c.order
<1>1. o \in Seq(Axes) /\ DOMAIN o = 1..Len(o)
  BY DEF Layouted, CallShape
<1>2. \A p, q \in 1..Len(o) : o[p] = o[q] => p = q
  BY <1>1 DEF Layouted, IsInjective
<1>3. {"b", "y", "x"} \subseteq ToSet(o) /\ ("n" \in ToSet(o) \/ Len(c.picks) = 1)
  BY DEF Layouted, LayoutOk
<1> HIDE DEF o
<1>4. PICK pb \in 1..Len(o), py \in 1..Len(o), px \in 1..Len(o) : o[pb] = "b" /\ o[py] = "y" /\ o[px] = "x"
  BY <1>1, <1>3 DEF ToSet
<1>5. PICK a1, a2, a3, a4 :
        /\ IsOrder(Axes, a1, a2, a3, a4)
        /\ \/ o = <<a1, a2, a3, a4>>
           \/ o = <<a2, a3, a4>> /\ a1 = "n" /\ \A p \in 1..Len(o) : o[p] # "n"
  <2>1. HasOrder(Axes, o)
    BY <1>1, <1>2, <1>4, AxesAreFour, OrderOf
  <2>2. QED
    BY <2>1 DEF HasOrder
<1>6. (\A p \in 1..Len(o) : o[p] # "n") => Len(c.picks) = 1
  BY <1>1, <1>3 DEF ToSet
<1>7. OrderedBy(c, a1, a2, a3, a4)
  BY <1>5, <1>6 DEF OrderedBy, o
<1>8. QED
  BY <1>7

(* The element's position on every axis, from 0, and its place.            *)
Digit(e) == [n |-> e.n - 1, b |-> e.b - 1, y |-> e.y, x |-> e.x]

Spot(c, e) == Digit(e)["n"] * Stride(c, "n") + Digit(e)["b"] * Stride(c, "b")
              + Digit(e)["y"] * Stride(c, "y") + Digit(e)["x"] * Stride(c, "x")

(* Extents are positive, and positions on an axis below its extent.        *)
LEMMA SizesOf ==
  ASSUME NEW c, Layouted(c)
  PROVE  /\ Size(c) \in [Axes -> Nat \ {0}]
         /\ \A e \in Requested(c) : /\ Digit(e) \in [Axes -> Nat]
                                    /\ \A z \in Axes : Digit(e)[z] \in 0..(Size(c)[z] - 1)
<1>1. /\ c.picks \in Seq(Int) /\ c.bands \in Seq(Int) /\ c.y_size \in Int /\ c.x_size \in Int
      /\ \A z \in Axes : Size(c)[z] > 0
  BY DEF Layouted, CallShape, LayoutOk
<1>2. Len(c.picks) \in Nat /\ Len(c.bands) \in Nat
  BY <1>1
<1>3. /\ Size(c)["n"] = Len(c.picks) /\ Size(c)["b"] = Len(c.bands)
      /\ Size(c)["y"] = c.y_size /\ Size(c)["x"] = c.x_size
      /\ Size(c) = [z \in Axes |-> Size(c)[z]]
  BY DEF Size, Axes
<1>4. \A z \in Axes : Size(c)[z] \in Nat \ {0}
  BY <1>1, <1>2, <1>3 DEF Axes
<1>5. ASSUME NEW e \in Requested(c)
      PROVE  /\ Digit(e) \in [Axes -> Nat]
             /\ \A z \in Axes : Digit(e)[z] \in 0..(Size(c)[z] - 1)
  <2>1. e.n \in 1..Len(c.picks) /\ e.b \in 1..Len(c.bands) /\ e.y \in 0..(c.y_size - 1) /\ e.x \in 0..(c.x_size - 1)
    BY DEF Requested
  <2>2. /\ Digit(e)["n"] = e.n - 1 /\ Digit(e)["b"] = e.b - 1
        /\ Digit(e)["y"] = e.y /\ Digit(e)["x"] = e.x
        /\ Digit(e) = [z \in Axes |-> Digit(e)[z]]
    BY DEF Digit, Axes
  <2>3. \A z \in Axes : Digit(e)[z] \in 0..(Size(c)[z] - 1) /\ Digit(e)[z] \in Nat
    <3>1. Digit(e)["n"] \in 0..(Size(c)["n"] - 1) /\ Digit(e)["b"] \in 0..(Size(c)["b"] - 1)
      <4>1. /\ \A m \in Nat : \A u \in 1..m : u - 1 \in 0..(m - 1)
            /\ e.n - 1 \in 0..(Len(c.picks) - 1) /\ e.b - 1 \in 0..(Len(c.bands) - 1)
        BY <1>2, <2>1, SMTT(30)
      <4>2. QED
        BY <1>3, <2>2, <4>1
    <3>2. Digit(e)["y"] \in 0..(Size(c)["y"] - 1) /\ Digit(e)["x"] \in 0..(Size(c)["x"] - 1)
      BY <1>3, <2>1, <2>2
    <3>3. \A z \in Axes : Digit(e)[z] \in 0..(Size(c)[z] - 1)
      BY <3>1, <3>2 DEF Axes
    <3>4. QED
      BY <1>4, <3>3
  <2>4. QED
    BY <2>2, <2>3
<1>6. QED
  BY <1>3, <1>4, <1>5

(* Which axis runs faster than which.                                      *)
LEMMA InsideInOrder ==
  ASSUME NEW c, NEW a1, NEW a2, NEW a3, NEW a4, OrderedBy(c, a1, a2, a3, a4)
  PROVE  /\ Inside(c, a2, a3) /\ Inside(c, a2, a4) /\ Inside(c, a3, a4)
         /\ ~Inside(c, a2, a1) /\ ~Inside(c, a2, a2) /\ ~Inside(c, a3, a1) /\ ~Inside(c, a3, a2)
         /\ ~Inside(c, a3, a3) /\ ~Inside(c, a4, a1) /\ ~Inside(c, a4, a2) /\ ~Inside(c, a4, a3)
         /\ ~Inside(c, a4, a4) /\ ~Inside(c, a1, a1)
         /\ {a2, a3, a4} \subseteq ToSet(c.order)
         /\ a1 \in ToSet(c.order) => Inside(c, a1, a2) /\ Inside(c, a1, a3) /\ Inside(c, a1, a4)
<1>1. CASE c.order = <<a1, a2, a3, a4>>
  <2>1. DOMAIN c.order = 1..4 /\ c.order[1] = a1 /\ c.order[2] = a2 /\ c.order[3] = a3 /\ c.order[4] = a4
    BY <1>1
  <2>2. \A p \in 1..4 : p = 1 \/ p = 2 \/ p = 3 \/ p = 4
    OBVIOUS
  <2>3. QED
    BY <2>1, <2>2 DEF Inside, ToSet, OrderedBy, IsOrder
<1>2. CASE c.order = <<a2, a3, a4>>
  <2>1. DOMAIN c.order = 1..3 /\ c.order[1] = a2 /\ c.order[2] = a3 /\ c.order[3] = a4
    BY <1>2
  <2>2. \A p \in 1..3 : p = 1 \/ p = 2 \/ p = 3
    OBVIOUS
  <2>3. QED
    BY <2>1, <2>2 DEF Inside, ToSet, OrderedBy, IsOrder
<1>3. QED
  BY <1>1, <1>2 DEF OrderedBy

(* Each stride is the product of the extents that run faster.              *)
LEMMA StridesInOrder ==
  ASSUME NEW c, Layouted(c), NEW a1, NEW a2, NEW a3, NEW a4, OrderedBy(c, a1, a2, a3, a4)
  PROVE  LET s == Size(c)
         IN  /\ Stride(c, a4) = 1 /\ Stride(c, a3) = s[a4] /\ Stride(c, a2) = s[a3] * s[a4]
             /\ \/ Stride(c, a1) = s[a2] * (s[a3] * s[a4])
                \/ Stride(c, a1) = 0 /\ a1 = "n" /\ s[a1] = 1
<1> DEFINE s == Size(c)
           F(a) == [z \in Axes |-> IF Inside(c, a, z) THEN s[z] ELSE 1]
<1>1. s \in [Axes -> Nat \ {0}] /\ IsOrder(Axes, a1, a2, a3, a4)
  BY SizesOf DEF OrderedBy
<1>2. ASSUME NEW a
      PROVE  Stride(c, a) = IF a \in ToSet(c.order)
                            THEN F(a)[a1] * F(a)[a2] * F(a)[a3] * F(a)[a4] ELSE 0
  <2>1. F(a) \in [Axes -> Int]
    BY <1>1
  <2>2. Stride(c, a) = IF a \in ToSet(c.order)
                       THEN F(a)["n"] * F(a)["b"] * F(a)["y"] * F(a)["x"] ELSE 0
    BY DEF Stride, Axes
  <2> HIDE DEF F
  <2>3. QED
    BY <1>1, <2>1, <2>2, AxesAreFour, ProductInOrder
<1>3. \A a, z : z \in Axes => F(a)[z] = IF Inside(c, a, z) THEN s[z] ELSE 1
  OBVIOUS
<1>4. s[a1] \in Nat /\ s[a2] \in Nat /\ s[a3] \in Nat /\ s[a4] \in Nat
  BY <1>1 DEF IsOrder
<1>5. a1 \notin ToSet(c.order) => a1 = "n" /\ s[a1] = 1
  <2>1. CASE c.order = <<a1, a2, a3, a4>>
    BY <2>1 DEF ToSet
  <2>2. CASE a1 = "n" /\ Len(c.picks) = 1
    BY <2>2 DEF Size
  <2>3. QED
    BY <2>1, <2>2 DEF OrderedBy
<1> HIDE DEF F, s
<1>6. Stride(c, a4) = 1
  BY <1>1, <1>2, <1>3, InsideInOrder DEF IsOrder
<1>7. Stride(c, a3) = s[a4]
  <2>1. Stride(c, a3) = F(a3)[a1] * F(a3)[a2] * F(a3)[a3] * F(a3)[a4]
    BY <1>2, InsideInOrder
  <2>2. F(a3)[a1] = 1 /\ F(a3)[a2] = 1 /\ F(a3)[a3] = 1 /\ F(a3)[a4] = s[a4]
    BY <1>1, <1>3, InsideInOrder DEF IsOrder
  <2>3. QED
    BY <1>4, <2>1, <2>2
<1>8. Stride(c, a2) = s[a3] * s[a4]
  <2>1. Stride(c, a2) = F(a2)[a1] * F(a2)[a2] * F(a2)[a3] * F(a2)[a4]
    BY <1>2, InsideInOrder
  <2>2. F(a2)[a1] = 1 /\ F(a2)[a2] = 1 /\ F(a2)[a3] = s[a3] /\ F(a2)[a4] = s[a4]
    BY <1>1, <1>3, InsideInOrder DEF IsOrder
  <2>3. QED
    BY <1>4, <2>1, <2>2
<1>9. \/ Stride(c, a1) = s[a2] * (s[a3] * s[a4])
      \/ Stride(c, a1) = 0 /\ a1 = "n" /\ s[a1] = 1
  <2>1. CASE a1 \in ToSet(c.order)
    <3>1. Stride(c, a1) = F(a1)[a1] * F(a1)[a2] * F(a1)[a3] * F(a1)[a4]
      BY <1>2, <2>1
    <3>2. F(a1)[a1] = 1 /\ F(a1)[a2] = s[a2] /\ F(a1)[a3] = s[a3] /\ F(a1)[a4] = s[a4]
      BY <1>1, <1>3, <2>1, InsideInOrder DEF IsOrder
    <3>3. QED
      BY <1>4, <3>1, <3>2
  <2>2. CASE a1 \notin ToSet(c.order)
    BY <1>2, <1>5, <2>2
  <2>3. QED
    BY <2>1, <2>2
<1>10. QED
  BY <1>6, <1>7, <1>8, <1>9 DEF s

(* The place of an element is a number in the radix of the sizes.          *)
LEMMA SpotIsRank ==
  ASSUME NEW c, Layouted(c), NEW a1, NEW a2, NEW a3, NEW a4, OrderedBy(c, a1, a2, a3, a4),
         NEW e \in Requested(c)
  PROVE  Spot(c, e) = Rank(Size(c)[a2], Size(c)[a3], Size(c)[a4],
                           Digit(e)[a1], Digit(e)[a2], Digit(e)[a3], Digit(e)[a4])
<1> DEFINE d == Digit(e)
           s == Size(c)
           t == [z \in Axes |-> d[z] * Stride(c, z)]
<1>1. /\ IsOrder(Axes, a1, a2, a3, a4) /\ s \in [Axes -> Nat \ {0}] /\ d \in [Axes -> Nat]
      /\ \A z \in Axes : d[z] \in 0..(s[z] - 1)
  BY SizesOf DEF OrderedBy
<1>2. /\ Stride(c, a4) = 1 /\ Stride(c, a3) = s[a4] /\ Stride(c, a2) = s[a3] * s[a4]
      /\ \/ Stride(c, a1) = s[a2] * (s[a3] * s[a4])
         \/ Stride(c, a1) = 0 /\ a1 = "n" /\ s[a1] = 1
  BY StridesInOrder
<1>3. Spot(c, e) = t["n"] + t["b"] + t["y"] + t["x"]
  BY DEF Spot, Axes
<1>4. /\ t[a1] = d[a1] * Stride(c, a1) /\ t[a2] = d[a2] * Stride(c, a2)
      /\ t[a3] = d[a3] * Stride(c, a3) /\ t[a4] = d[a4] * Stride(c, a4)
  BY <1>1 DEF IsOrder
<1>5. /\ s[a1] \in Nat /\ s[a2] \in Nat /\ s[a3] \in Nat /\ s[a4] \in Nat
      /\ d[a1] \in Nat /\ d[a2] \in Nat /\ d[a3] \in Nat /\ d[a4] \in Nat
      /\ d[a1] \in 0..(s[a1] - 1)
  BY <1>1 DEF IsOrder
<1> HIDE DEF s, d
<1>6. t \in [Axes -> Int]
  <2>1. \A z \in Axes : z = a1 \/ z = a2 \/ z = a3 \/ z = a4
    BY <1>1, AxesAreFour, AllAxes
  <2>2. /\ Stride(c, a1) \in Int /\ Stride(c, a2) \in Int /\ Stride(c, a3) \in Int /\ Stride(c, a4) \in Int
    BY <1>2, <1>5
  <2>3. \A z \in Axes : Stride(c, z) \in Int /\ d[z] \in Int
    BY <1>5, <2>1, <2>2
  <2>4. QED
    BY <2>3
<1> HIDE DEF t
<1>7. Spot(c, e) = t[a1] + t[a2] + t[a3] + t[a4]
  BY <1>1, <1>3, <1>6, AxesAreFour, SumInOrder
<1>8. t[a1] = d[a1] * (s[a2] * (s[a3] * s[a4]))
  <2>1. CASE Stride(c, a1) = 0 /\ s[a1] = 1
    <3>1. d[a1] = 0
      BY <1>5, <2>1
    <3>2. QED
      BY <1>4, <1>5, <2>1, <3>1
  <2>2. QED
    BY <1>2, <1>4, <2>1
<1> DEFINE s2 == s[a2]
           s3 == s[a3]
           s4 == s[a4]
           d1 == d[a1]
           d2 == d[a2]
           d3 == d[a3]
           d4 == d[a4]
<1>9. Spot(c, e) = d1 * (s2 * (s3 * s4)) + d2 * (s3 * s4) + d3 * s4 + d4 * 1
  BY <1>2, <1>4, <1>7, <1>8
<1>10. s2 \in Nat /\ s3 \in Nat /\ s4 \in Nat /\ d1 \in Nat /\ d2 \in Nat /\ d3 \in Nat /\ d4 \in Nat
  BY <1>5
<1> HIDE DEF s2, s3, s4, d1, d2, d3, d4
<1>11. d1 * (s2 * (s3 * s4)) + d2 * (s3 * s4) + d3 * s4 + d4 * 1 = ((d1 * s2 + d2) * s3 + d3) * s4 + d4
  BY <1>10
<1>12. QED
  BY <1>9, <1>11 DEF Rank, s2, s3, s4, d1, d2, d3, d4, s, d

(* d comes before f when the axes a1, a2, a3, a4 are compared in turn.     *)
Lex(d, f, a1, a2, a3, a4) ==
  \/ d[a1] < f[a1]
  \/ d[a1] = f[a1] /\ d[a2] < f[a2]
  \/ d[a1] = f[a1] /\ d[a2] = f[a2] /\ d[a3] < f[a3]
  \/ d[a1] = f[a1] /\ d[a2] = f[a2] /\ d[a3] = f[a3] /\ d[a4] < f[a4]

(* The order of the elements is that of their positions, axis by axis.     *)
LEMMA PrecedesIsLex ==
  ASSUME NEW c, Layouted(c), NEW a1, NEW a2, NEW a3, NEW a4, OrderedBy(c, a1, a2, a3, a4),
         NEW e \in Requested(c), NEW f \in Requested(c)
  PROVE  Precedes(c, e, f) <=> Lex(Digit(e), Digit(f), a1, a2, a3, a4)
<1>1. /\ IsOrder(Axes, a1, a2, a3, a4)
      /\ \A z \in Axes : Digit(e)[z] \in Nat /\ Digit(f)[z] \in Nat
  BY SizesOf DEF OrderedBy
<1>2. /\ Len(c.picks) \in Nat /\ Len(c.bands) \in Nat /\ c.y_size \in Int /\ c.x_size \in Int
  BY DEF Layouted, CallShape
<1>3. /\ e["n"] \in Int /\ f["n"] \in Int /\ e["b"] \in Int /\ f["b"] \in Int
      /\ e["y"] \in Int /\ f["y"] \in Int /\ e["x"] \in Int /\ f["x"] \in Int
  BY <1>2 DEF Requested
<1>4. \A z \in Axes : /\ (e[z] < f[z]) <=> (Digit(e)[z] < Digit(f)[z])
                      /\ (e[z] = f[z]) <=> (Digit(e)[z] = Digit(f)[z])
  BY <1>3 DEF Digit, Axes
<1>5. CASE c.order = <<a1, a2, a3, a4>>
  <2>1. DOMAIN c.order = 1..4 /\ c.order[1] = a1 /\ c.order[2] = a2 /\ c.order[3] = a3 /\ c.order[4] = a4
    BY <1>5
  <2>2. Precedes(c, e, f) <=> Lex(e, f, a1, a2, a3, a4)
    <3>1. ASSUME NEW p \in 1..4, e[c.order[p]] < f[c.order[p]],
                 \A q \in 1..(p - 1) : e[c.order[q]] = f[c.order[q]]
          PROVE  Lex(e, f, a1, a2, a3, a4)
      <4>1. CASE p = 1
        BY <2>1, <3>1, <4>1 DEF Lex
      <4>2. CASE p = 2
        <5>1. 1 \in 1..(p - 1)
          BY <4>2
        <5>2. QED
          BY <2>1, <3>1, <4>2, <5>1 DEF Lex
      <4>3. CASE p = 3
        <5>1. 1 \in 1..(p - 1) /\ 2 \in 1..(p - 1)
          BY <4>3
        <5>2. QED
          BY <2>1, <3>1, <4>3, <5>1 DEF Lex
      <4>4. CASE p = 4
        <5>1. 1 \in 1..(p - 1) /\ 2 \in 1..(p - 1) /\ 3 \in 1..(p - 1)
          BY <4>4
        <5>2. QED
          BY <2>1, <3>1, <4>4, <5>1 DEF Lex
      <4>5. QED
        BY <4>1, <4>2, <4>3, <4>4
    <3>2. ASSUME Lex(e, f, a1, a2, a3, a4)
          PROVE  \E p \in 1..4 : /\ e[c.order[p]] < f[c.order[p]]
                                 /\ \A q \in 1..(p - 1) : e[c.order[q]] = f[c.order[q]]
      BY <2>1, <3>2 DEF Lex
    <3>3. QED
      BY <2>1, <3>1, <3>2 DEF Precedes
  <2>3. QED
    BY <1>1, <1>4, <2>2 DEF Lex, IsOrder
<1>6. CASE c.order = <<a2, a3, a4>> /\ a1 = "n" /\ Len(c.picks) = 1
  <2>1. DOMAIN c.order = 1..3 /\ c.order[1] = a2 /\ c.order[2] = a3 /\ c.order[3] = a4
    BY <1>6
  <2>2. e[a1] = f[a1] /\ ~(e[a1] < f[a1])
    <3>1. e["n"] = 1 /\ f["n"] = 1
      BY <1>6 DEF Requested
    <3>2. QED
      BY <1>6, <3>1
  <2>3. Precedes(c, e, f) <=> Lex(e, f, a1, a2, a3, a4)
    <3>1. ASSUME NEW p \in 1..3, e[c.order[p]] < f[c.order[p]],
                 \A q \in 1..(p - 1) : e[c.order[q]] = f[c.order[q]]
          PROVE  Lex(e, f, a1, a2, a3, a4)
      <4>1. CASE p = 1
        BY <2>1, <2>2, <3>1, <4>1 DEF Lex
      <4>2. CASE p = 2
        <5>1. 1 \in 1..(p - 1)
          BY <4>2
        <5>2. QED
          BY <2>1, <2>2, <3>1, <4>2, <5>1 DEF Lex
      <4>3. CASE p = 3
        <5>1. 1 \in 1..(p - 1) /\ 2 \in 1..(p - 1)
          BY <4>3
        <5>2. QED
          BY <2>1, <2>2, <3>1, <4>3, <5>1 DEF Lex
      <4>4. QED
        BY <4>1, <4>2, <4>3
    <3>2. ASSUME Lex(e, f, a1, a2, a3, a4)
          PROVE  \E p \in 1..3 : /\ e[c.order[p]] < f[c.order[p]]
                                 /\ \A q \in 1..(p - 1) : e[c.order[q]] = f[c.order[q]]
      BY <2>1, <2>2, <3>2 DEF Lex
    <3>3. QED
      BY <2>1, <3>1, <3>2 DEF Precedes
  <2>4. QED
    BY <1>1, <1>4, <2>3 DEF Lex, IsOrder
<1>7. QED
  BY <1>5, <1>6 DEF OrderedBy

(* Places are in that order.                                               *)
LEMMA LexIsLess ==
  ASSUME NEW c, Layouted(c), NEW a1, NEW a2, NEW a3, NEW a4, OrderedBy(c, a1, a2, a3, a4),
         NEW e \in Requested(c), NEW f \in Requested(c), Lex(Digit(e), Digit(f), a1, a2, a3, a4)
  PROVE  Spot(c, e) < Spot(c, f)
<1> DEFINE s == Size(c)
           d == Digit(e)
           g == Digit(f)
<1>1. /\ s[a2] \in Nat /\ s[a3] \in Nat /\ s[a4] \in Nat
      /\ d[a1] \in Nat /\ d[a2] \in 0..(s[a2] - 1) /\ d[a3] \in 0..(s[a3] - 1) /\ d[a4] \in 0..(s[a4] - 1)
      /\ g[a1] \in Nat /\ g[a2] \in 0..(s[a2] - 1) /\ g[a3] \in 0..(s[a3] - 1) /\ g[a4] \in 0..(s[a4] - 1)
  BY SizesOf DEF OrderedBy, IsOrder
<1>2. /\ Spot(c, e) = Rank(s[a2], s[a3], s[a4], d[a1], d[a2], d[a3], d[a4])
      /\ Spot(c, f) = Rank(s[a2], s[a3], s[a4], g[a1], g[a2], g[a3], g[a4])
  BY SpotIsRank
<1> DEFINE s2 == s[a2]
           s3 == s[a3]
           s4 == s[a4]
           d1 == d[a1]
           d2 == d[a2]
           d3 == d[a3]
           d4 == d[a4]
           e1 == g[a1]
           e2 == g[a2]
           e3 == g[a3]
           e4 == g[a4]
<1>3. \/ d1 < e1
      \/ d1 = e1 /\ d2 < e2
      \/ d1 = e1 /\ d2 = e2 /\ d3 < e3
      \/ d1 = e1 /\ d2 = e2 /\ d3 = e3 /\ d4 < e4
  BY DEF Lex
<1> HIDE DEF s2, s3, s4, d1, d2, d3, d4, e1, e2, e3, e4
<1>4. Rank(s2, s3, s4, d1, d2, d3, d4) < Rank(s2, s3, s4, e1, e2, e3, e4)
  <2>1. /\ s2 \in Nat /\ s3 \in Nat /\ s4 \in Nat
        /\ d1 \in Nat /\ d2 \in 0..(s2 - 1) /\ d3 \in 0..(s3 - 1) /\ d4 \in 0..(s4 - 1)
        /\ e1 \in Nat /\ e2 \in 0..(s2 - 1) /\ e3 \in 0..(s3 - 1) /\ e4 \in 0..(s4 - 1)
    BY <1>1 DEF s2, s3, s4, d1, d2, d3, d4, e1, e2, e3, e4
  <2>2. QED
    BY <1>3, <2>1, RankOrder
<1>5. QED
  BY <1>2, <1>4 DEF s2, s3, s4, d1, d2, d3, d4, e1, e2, e3, e4

(* The element with given positions on the axes.                           *)
LEMMA ElementOf ==
  ASSUME NEW c, Layouted(c), NEW a1, NEW a2, NEW a3, NEW a4, OrderedBy(c, a1, a2, a3, a4),
         NEW d1 \in 0..(Size(c)[a1] - 1), NEW d2 \in 0..(Size(c)[a2] - 1),
         NEW d3 \in 0..(Size(c)[a3] - 1), NEW d4 \in 0..(Size(c)[a4] - 1)
  PROVE  \E e \in Requested(c) : /\ Digit(e)[a1] = d1 /\ Digit(e)[a2] = d2
                                 /\ Digit(e)[a3] = d3 /\ Digit(e)[a4] = d4
<1> DEFINE g == [z \in Axes |-> IF z = a1 THEN d1 ELSE IF z = a2 THEN d2 ELSE IF z = a3 THEN d3 ELSE d4]
           e == [n |-> g["n"] + 1, b |-> g["b"] + 1, y |-> g["y"], x |-> g["x"]]
<1>1. IsOrder(Axes, a1, a2, a3, a4) /\ Size(c) \in [Axes -> Nat \ {0}]
  BY SizesOf DEF OrderedBy
<1>2. g[a1] = d1 /\ g[a2] = d2 /\ g[a3] = d3 /\ g[a4] = d4
  BY <1>1 DEF IsOrder
<1>3. ASSUME NEW z \in Axes PROVE g[z] \in 0..(Size(c)[z] - 1) /\ g[z] \in Nat
  <2>1. z = a1 \/ z = a2 \/ z = a3 \/ z = a4
    BY <1>1, AxesAreFour, AllAxes
  <2> HIDE DEF g
  <2>2. g[z] \in 0..(Size(c)[z] - 1) /\ Size(c)[z] \in Nat
    BY <1>1, <1>2, <2>1
  <2>3. QED
    BY <2>2
<1> HIDE DEF g
<1>4. /\ g["n"] \in 0..(Size(c)["n"] - 1) /\ g["b"] \in 0..(Size(c)["b"] - 1)
      /\ g["y"] \in 0..(Size(c)["y"] - 1) /\ g["x"] \in 0..(Size(c)["x"] - 1)
      /\ g["n"] \in Nat /\ g["b"] \in Nat /\ g["y"] \in Nat /\ g["x"] \in Nat
  BY <1>3 DEF Axes
<1>5. /\ Size(c)["n"] = Len(c.picks) /\ Size(c)["b"] = Len(c.bands)
      /\ Size(c)["y"] = c.y_size /\ Size(c)["x"] = c.x_size
      /\ Len(c.picks) \in Nat /\ Len(c.bands) \in Nat
  BY DEF Size, Layouted, CallShape
<1>6. g["n"] + 1 \in 1..Len(c.picks) /\ g["b"] + 1 \in 1..Len(c.bands)
  <2>1. \A m \in Nat : \A u \in 0..(m - 1) : u + 1 \in 1..m
    OBVIOUS
  <2>2. QED
    BY <1>4, <1>5, <2>1
<1>7. e \in Requested(c)
  BY <1>4, <1>5, <1>6 DEF Requested
<1>8. Digit(e) = [n |-> g["n"], b |-> g["b"], y |-> g["y"], x |-> g["x"]]
  BY <1>4 DEF Digit
<1>9. \A z \in Axes : Digit(e)[z] = g[z]
  BY <1>8 DEF Axes
<1> HIDE DEF e
<1>10. /\ Digit(e)[a1] = d1 /\ Digit(e)[a2] = d2 /\ Digit(e)[a3] = d3 /\ Digit(e)[a4] = d4
  BY <1>1, <1>2, <1>9 DEF IsOrder
<1>11. QED
  BY <1>7, <1>10

(* Every element has a place of its own, and no place is left over; the    *)
(* places are in the order of the pattern.                                 *)
LEMMA Spots ==
  ASSUME NEW c, Layouted(c)
  PROVE  /\ Elements(c) \in Nat
         /\ \A e \in Requested(c) : Spot(c, e) \in 0..(Elements(c) - 1)
         /\ \A e, f \in Requested(c) : /\ Precedes(c, e, f) <=> Spot(c, e) < Spot(c, f)
                                       /\ Spot(c, e) = Spot(c, f) => e = f
         /\ \A m \in 0..(Elements(c) - 1) : \E e \in Requested(c) : Spot(c, e) = m
<1> DEFINE s == Size(c)
<1>1. PICK a1, a2, a3, a4 : OrderedBy(c, a1, a2, a3, a4)
  BY LayoutOrders
<1>2. IsOrder(Axes, a1, a2, a3, a4) /\ s \in [Axes -> Nat \ {0}]
  BY <1>1, SizesOf DEF OrderedBy
<1>3. s[a1] \in Nat \ {0} /\ s[a2] \in Nat \ {0} /\ s[a3] \in Nat \ {0} /\ s[a4] \in Nat \ {0}
  BY <1>2 DEF IsOrder
<1>4. Elements(c) = ((s[a1] * s[a2]) * s[a3]) * s[a4]
  <2>1. Elements(c) = s["n"] * s["b"] * s["y"] * s["x"]
    BY DEF Elements, Size
  <2>2. s \in [Axes -> Int]
    BY <1>2
  <2> HIDE DEF s
  <2>3. QED
    BY <1>2, <2>1, <2>2, AxesAreFour, ProductInOrder
<1> DEFINE s1 == s[a1]
           s2 == s[a2]
           s3 == s[a3]
           s4 == s[a4]
<1>5. s1 \in Nat \ {0} /\ s2 \in Nat \ {0} /\ s3 \in Nat \ {0} /\ s4 \in Nat \ {0}
      /\ Elements(c) = ((s1 * s2) * s3) * s4
  BY <1>3, <1>4
<1>6. ASSUME NEW e \in Requested(c) PROVE Spot(c, e) \in 0..(Elements(c) - 1)
  <2> DEFINE d1 == Digit(e)[a1]
             d2 == Digit(e)[a2]
             d3 == Digit(e)[a3]
             d4 == Digit(e)[a4]
  <2>1. d1 \in 0..(s1 - 1) /\ d2 \in 0..(s2 - 1) /\ d3 \in 0..(s3 - 1) /\ d4 \in 0..(s4 - 1)
    BY <1>2, SizesOf DEF IsOrder
  <2>2. Spot(c, e) = Rank(s2, s3, s4, d1, d2, d3, d4)
    BY <1>1, SpotIsRank
  <2> HIDE DEF s1, s2, s3, s4, d1, d2, d3, d4
  <2>3. s1 \in Nat /\ s2 \in Nat /\ s3 \in Nat /\ s4 \in Nat
    BY <1>5
  <2>4. Rank(s2, s3, s4, d1, d2, d3, d4) \in 0..(((s1 * s2) * s3) * s4 - 1)
    BY <2>1, <2>3, RankBelow
  <2>5. QED
    BY <1>5, <2>2, <2>4
<1>7. ASSUME NEW e \in Requested(c), NEW f \in Requested(c)
      PROVE  /\ Precedes(c, e, f) <=> Spot(c, e) < Spot(c, f)
             /\ Spot(c, e) = Spot(c, f) => e = f
  <2> DEFINE d == Digit(e)
             g == Digit(f)
  <2>1. /\ d[a1] \in Nat /\ d[a2] \in Nat /\ d[a3] \in Nat /\ d[a4] \in Nat
        /\ g[a1] \in Nat /\ g[a2] \in Nat /\ g[a3] \in Nat /\ g[a4] \in Nat
    BY <1>2, SizesOf DEF IsOrder
  <2>2. \/ Lex(d, g, a1, a2, a3, a4) \/ Lex(g, d, a1, a2, a3, a4)
        \/ d[a1] = g[a1] /\ d[a2] = g[a2] /\ d[a3] = g[a3] /\ d[a4] = g[a4]
    <3> HIDE DEF d, g
    <3>1. QED
      BY <2>1 DEF Lex
  <2>3. (d[a1] = g[a1] /\ d[a2] = g[a2] /\ d[a3] = g[a3] /\ d[a4] = g[a4]) => e = f
    <3> SUFFICES ASSUME d[a1] = g[a1], d[a2] = g[a2], d[a3] = g[a3], d[a4] = g[a4] PROVE e = f
      OBVIOUS
    <3>1. \A z \in Axes : d[z] = g[z]
      <4> HIDE DEF d, g
      <4>1. QED
        BY <1>2, AxesAreFour, AllAxes
    <3>2. e.n - 1 = f.n - 1 /\ e.b - 1 = f.b - 1 /\ e.y = f.y /\ e.x = f.x
      BY <3>1 DEF Digit, Axes
    <3>3. e.n \in Int /\ f.n \in Int /\ e.b \in Int /\ f.b \in Int
      BY DEF Requested, Layouted, CallShape
    <3>4. QED
      BY <3>2, <3>3 DEF Requested
  <2>4. /\ Lex(d, g, a1, a2, a3, a4) => Spot(c, e) < Spot(c, f)
        /\ Lex(g, d, a1, a2, a3, a4) => Spot(c, f) < Spot(c, e)
    BY <1>1, LexIsLess
  <2>5. Precedes(c, e, f) <=> Lex(d, g, a1, a2, a3, a4)
    BY <1>1, PrecedesIsLex
  <2>6. Spot(c, e) \in Nat /\ Spot(c, f) \in Nat
    BY <1>6
  <2>7. QED
    BY <2>2, <2>3, <2>4, <2>5, <2>6
<1>8. ASSUME NEW m \in 0..(Elements(c) - 1) PROVE \E e \in Requested(c) : Spot(c, e) = m
  <2>1. HasRank(s1, s2, s3, s4, m)
    <3> HIDE DEF s1, s2, s3, s4
    <3>1. m \in 0..(((s1 * s2) * s3) * s4 - 1)
      BY <1>5
    <3>2. QED
      BY <1>5, <3>1, RankOnto
  <2>2. PICK d1 \in 0..(s1 - 1), d2 \in 0..(s2 - 1), d3 \in 0..(s3 - 1), d4 \in 0..(s4 - 1) :
          Rank(s2, s3, s4, d1, d2, d3, d4) = m
    BY <2>1 DEF HasRank
  <2>3. PICK e \in Requested(c) : /\ Digit(e)[a1] = d1 /\ Digit(e)[a2] = d2
                                  /\ Digit(e)[a3] = d3 /\ Digit(e)[a4] = d4
    BY <1>1, ElementOf
  <2>4. Spot(c, e) = Rank(s2, s3, s4, Digit(e)[a1], Digit(e)[a2], Digit(e)[a3], Digit(e)[a4])
    BY <1>1, SpotIsRank
  <2>5. QED
    BY <2>2, <2>3, <2>4
<1>9. Elements(c) \in Nat
  <2> HIDE DEF s1, s2, s3, s4
  <2>1. QED
    BY <1>5
<1>10. QED
  BY <1>6, <1>7, <1>8, <1>9

(* So the place of an element is the number of elements before it.         *)
LEMMA SpotCounts ==
  ASSUME NEW c, Layouted(c), NEW e \in Requested(c)
  PROVE  Cardinality({f \in Requested(c) : Precedes(c, f, e)}) = Spot(c, e)
<1> DEFINE S == {f \in Requested(c) : Precedes(c, f, e)}
           n == Spot(c, e)
           g == [f \in S |-> Spot(c, f)]
<1>1. n \in Nat /\ n < Elements(c) /\ Elements(c) \in Nat
  BY Spots
<1>2. \A f \in S : Spot(c, f) \in 0..(n - 1)
  BY <1>1, Spots
<1>3. g \in [S -> 0..(n - 1)]
  BY <1>2
<1>4. \A f, h \in S : g[f] = g[h] => f = h
  BY Spots
<1>5. ASSUME NEW m \in 0..(n - 1) PROVE \E f \in S : g[f] = m
  <2>1. m \in 0..(Elements(c) - 1) /\ m < n
    BY <1>1
  <2>2. PICK f \in Requested(c) : Spot(c, f) = m
    BY <2>1, Spots
  <2>3. f \in S
    BY <2>1, <2>2, Spots
  <2>4. QED
    BY <2>2, <2>3
<1> HIDE DEF g, S, n
<1>6. g \in Bijection(S, 0..(n - 1))
  BY <1>3, <1>4, <1>5 DEF Bijection, Injection, Surjection, IsInjective
<1>7. ExistsBijection(S, 0..(n - 1))
  BY <1>6 DEF ExistsBijection
<1>8. ExistsBijection(0..(n - 1), S)
  BY <1>7, Fun_ExistsBijSymmetric
<1>9. IsFiniteSet(0..(n - 1)) /\ Cardinality(0..(n - 1)) = n
  <2>1. 0 \in Int /\ n - 1 \in Int
    BY <1>1
  <2>2. IsFiniteSet(0..(n - 1)) /\ Cardinality(0..(n - 1)) = IF 0 > n - 1 THEN 0 ELSE (n - 1) - 0 + 1
    BY <2>1, FS_Interval
  <2>3. (IF 0 > n - 1 THEN 0 ELSE (n - 1) - 0 + 1) = n
    BY <1>1
  <2>4. QED
    BY <2>2, <2>3
<1>10. Cardinality(S) = Cardinality(0..(n - 1))
  BY <1>8, <1>9, FS_Bijection
<1>11. QED
  BY <1>9, <1>10 DEF S, n

-----------------------------------------------------------------------------
(* The reads.                                                              *)

(* A call that has passed the checks made before an image is opened.       *)
Granted(c) ==
  /\ c \in Calls /\ LayoutOk(c) /\ BufferSuffices(c) /\ PicksOk(c)
  /\ \A h \in ToSet(c.images) : Alike(h, c.images[1])

Bytes(c) == c.images[1].bps

Spotted(c) == {Bytes(c) * Spot(c, e) : e \in Requested(c)}

(* Element e of the request is in the buffer.                              *)
Has(c, e) ==
  /\ Bytes(c) * Spot(c, e) \in DOMAIN dst
  /\ dst[Bytes(c) * Spot(c, e)] = SampleOf(c, e)

(* A stride is a number of elements.                                       *)
LEMMA StrideNat == ASSUME NEW c, Layouted(c), NEW a \in Axes PROVE Stride(c, a) \in Nat
<1> DEFINE Factor(z) == IF Inside(c, a, z) THEN Size(c)[z] ELSE 1
           f1 == Factor("n")
           f2 == Factor("b")
           f3 == Factor("y")
           f4 == Factor("x")
<1>1. \A z \in Axes : Factor(z) \in Nat
  BY SizesOf
<1>2. f1 \in Nat /\ f2 \in Nat /\ f3 \in Nat /\ f4 \in Nat
  BY <1>1 DEF Axes
<1>3. Stride(c, a) = IF a \in ToSet(c.order) THEN f1 * f2 * f3 * f4 ELSE 0
  BY DEF Stride
<1> HIDE DEF f1, f2, f3, f4, Factor
<1>4. f1 * f2 * f3 * f4 \in Nat
  BY <1>2
<1>5. QED
  BY <1>3, <1>4

(* A granted call's layout, and its images, which are all alike.           *)
LEMMA GrantedFacts ==
  ASSUME NEW c, Granted(c)
  PROVE  /\ Layouted(c) /\ Bytes(c) \in 1..16
         /\ Len(c.picks) \in Nat /\ Len(c.bands) \in Nat
         /\ DOMAIN c.bands = 1..Len(c.bands)
         /\ c.y_size \in Int /\ c.x_size \in Int /\ c.y_off \in Int /\ c.x_off \in Int
         /\ \A m \in 1..Len(c.picks) : c.images[c.picks[m]] = c.images[1]
         /\ c.images[1] \in HeaderShape
<1>1. c \in CallShape /\ c.images # <<>> /\ IsInjective(c.order)
  BY ReadAssumption DEF Granted
<1>2. c.images \in Seq(HeaderShape) /\ c.picks \in Seq(Int) /\ c.bands \in Seq(Int)
      /\ c.y_size \in Int /\ c.x_size \in Int /\ c.y_off \in Int /\ c.x_off \in Int
  BY <1>1 DEF CallShape
<1>3. 1 \in 1..Len(c.images) /\ c.images[1] \in HeaderShape
  BY <1>1, <1>2
<1>4. ASSUME NEW m \in 1..Len(c.picks) PROVE c.images[c.picks[m]] = c.images[1]
  <2>1. DOMAIN c.picks = 1..Len(c.picks) /\ DOMAIN c.images = 1..Len(c.images)
    BY <1>2
  <2>2. c.picks[m] \in ToSet(c.picks)
    BY <2>1 DEF ToSet
  <2>3. c.picks[m] \in 1..Len(c.images)
    BY <2>2 DEF Granted, PicksOk
  <2>4. c.images[c.picks[m]] \in ToSet(c.images)
    BY <2>1, <2>3 DEF ToSet
  <2>5. QED
    BY <2>4 DEF Granted, Alike
<1>5. Bytes(c) \in 1..16
  BY <1>3 DEF Bytes, HeaderShape
<1>6. QED
  BY <1>1, <1>2, <1>3, <1>4, <1>5 DEF Granted, Layouted

(* The element at a position of the window, in an image and a band.        *)
Element(m, i, v, u) == [n |-> m, b |-> i, y |-> v, x |-> u]

(* What the strides of read_window make of it is its place.                *)
LEMMA PutIsSpot ==
  ASSUME NEW c, Granted(c), NEW m \in 1..Len(c.picks), NEW i \in 1..Len(c.bands),
         NEW v \in 0..(c.y_size - 1), NEW u \in 0..(c.x_size - 1)
  PROVE  /\ Element(m, i, v, u) \in Requested(c)
         /\ (m - 1) * Stride(c, "n") * Bytes(c) + (i - 1) * (Stride(c, "b") * Bytes(c))
            + v * (Stride(c, "y") * Bytes(c)) + u * (Stride(c, "x") * Bytes(c))
            = Bytes(c) * Spot(c, Element(m, i, v, u))
<1> DEFINE e == Element(m, i, v, u)
           sn == Stride(c, "n")
           sb == Stride(c, "b")
           sy == Stride(c, "y")
           sx == Stride(c, "x")
           w == Bytes(c)
<1>1. e \in Requested(c)
  BY DEF Element, Requested
<1>2. sn \in Nat /\ sb \in Nat /\ sy \in Nat /\ sx \in Nat /\ w \in Nat
  <2>1. Layouted(c) /\ Bytes(c) \in 1..16
    BY GrantedFacts
  <2>2. \A a \in Axes : Stride(c, a) \in Nat
    BY <2>1, StrideNat
  <2>3. "n" \in Axes /\ "b" \in Axes /\ "y" \in Axes /\ "x" \in Axes
    BY DEF Axes
  <2>4. sn \in Nat /\ sb \in Nat /\ sy \in Nat /\ sx \in Nat
    BY <2>2, <2>3
  <2>5. w \in Nat
    <3> HIDE DEF w
    <3>1. w \in 1..16
      BY <2>1 DEF w
    <3>2. QED
      BY <3>1
  <2>6. QED
    BY <2>4, <2>5
<1>3. m \in Nat /\ i \in Nat /\ v \in Nat /\ u \in Nat
  <2>1. Len(c.picks) \in Nat /\ Len(c.bands) \in Nat /\ c.y_size \in Int /\ c.x_size \in Int
    BY GrantedFacts
  <2>2. QED
    BY <2>1
<1>4. Spot(c, e) = (m - 1) * sn + (i - 1) * sb + v * sy + u * sx
  BY DEF Spot, Digit, Element
<1> HIDE DEF sn, sb, sy, sx, w, e
<1>5. (m - 1) * sn * w + (i - 1) * (sb * w) + v * (sy * w) + u * (sx * w)
      = w * ((m - 1) * sn + (i - 1) * sb + v * sy + u * sx)
  BY <1>2, <1>3
<1>6. QED
  BY <1>1, <1>4, <1>5 DEF sn, sb, sy, sx, w, e

(* Places of different elements are different.                             *)
LEMMA SpotsDiffer ==
  ASSUME NEW c, Granted(c), NEW e \in Requested(c), NEW f \in Requested(c),
         Bytes(c) * Spot(c, e) = Bytes(c) * Spot(c, f)
  PROVE  e = f
<1> DEFINE s == Spot(c, e)
           t == Spot(c, f)
           w == Bytes(c)
<1>1. Layouted(c) /\ w \in 1..16
  BY GrantedFacts
<1>2. Elements(c) \in Nat /\ s \in 0..(Elements(c) - 1) /\ t \in 0..(Elements(c) - 1)
  BY <1>1, Spots
<1> HIDE DEF s, t, w
<1>3. s \in Nat /\ t \in Nat /\ w * s = w * t
  BY <1>2 DEF s, t, w
<1>4. s = t
  BY <1>1, <1>3
<1>5. QED
  BY <1>1, <1>4, Spots DEF s, t

(* Every place is in the buffer.                                           *)
LEMMA SpotInside ==
  ASSUME NEW c, Granted(c), NEW e \in Requested(c)
  PROVE  Bytes(c) * Spot(c, e) >= 0 /\ Bytes(c) * Spot(c, e) + Bytes(c) <= c.dst_size
<1> DEFINE s == Spot(c, e)
           w == Bytes(c)
           n == Elements(c)
<1>1. w \in 1..16 /\ n \in Nat /\ s \in 0..(n - 1)
  BY GrantedFacts, Spots
<1>2. n * w <= c.dst_size /\ c.dst_size \in Nat
  BY ReadAssumption DEF Granted, BufferSuffices, Bytes, CallShape
<1> HIDE DEF s, w, n
<1>3. w * s >= 0 /\ w * s + w <= n * w
  <2>1. s \in Nat /\ w \in Nat /\ s + 1 <= n
    BY <1>1
  <2>2. (s + 1) * w <= n * w
    BY <1>1, <2>1
  <2>3. QED
    BY <1>1, <2>1, <2>2
<1>4. w * s \in Int /\ n * w \in Int /\ w \in Int
  BY <1>1
<1>5. QED
  BY <1>2, <1>3, <1>4 DEF s, w

(* The invariant of the reads.  Between calls the buffer is empty and no   *)
(* plan is under way; a plan of a read is the plan of its window, and what *)
(* the images before it asked for is there.                                *)
Resting ==
  /\ phase = "none" => \E S : scratch \in [Workers -> S]
  /\ phase # "none" => rpc = "work" \/ (rpc = "idle" /\ dpc \in {"fast", "staging", "block"})
  /\ rpc # "idle" => ds \in {"unregistered", "none"}
  /\ rpc = "idle" /\ dpc = "idle" => DOMAIN dst = {}

Working ==
  rpc = "work" =>
    /\ phase # "none" /\ job = WindowJob /\ RequestOk(Image, call)
    /\ GeoInv /\ Apart /\ DelInv

Filling ==
  /\ rpc \in {"open", "work"} => Granted(call) /\ k \in 1..Len(call.picks)
  /\ rpc = "done" /\ (outcome = "ok" \/ DOMAIN dst # {}) => Granted(call) /\ k \in 1..Len(call.picks)
  /\ rpc # "idle" => DOMAIN dst \subseteq Spotted(call)
  /\ rpc \in {"open", "work"} /\ EdgesFit(call.images[1]) =>
       \A e \in Requested(call) : e.n < k => Has(call, e)
  /\ rpc # "done" => outcome = "none"
  /\ outcome = "ok" /\ EdgesFit(call.images[1]) => \A e \in Requested(call) : Has(call, e)

ReadInv == AllInv /\ Resting /\ Working /\ Filling

(* There is nothing to keep at the start.                                  *)
LEMMA ReadInitInv == FEInit => ReadInv
<1> SUFFICES ASSUME FEInit PROVE ReadInv
  OBVIOUS
<1>1. rpc = "idle" /\ phase = "none" /\ outcome = "none" /\ dst = <<>> /\ dpc = "idle"
  BY DEF FEInit, RDInit, DRInit, PLInit
<1>2. \E S : scratch \in [Workers -> S]
  <2>1. scratch \in [Workers -> {Stale}]
    BY DEF FEInit, RDInit, PLInit
  <2>2. QED
    BY <2>1
<1>3. DOMAIN dst = {}
  BY <1>1
<1>4. QED
  BY <1>1, <1>2, <1>3, AllInitInv DEF ReadInv, Resting, Working, Filling

(* Has, for a step that leaves the element's place alone.                  *)
LEMMA HasSame ==
  ASSUME NEW c, NEW e, Has(c, e),
         Bytes(c) * Spot(c, e) \in DOMAIN dst',
         dst'[Bytes(c) * Spot(c, e)] = dst[Bytes(c) * Spot(c, e)]
  PROVE  Has(c, e)'
BY DEF Has

(* A plan of a read puts every element in its place.                       *)
LEMMA WindowPlaces ==
  ASSUME NEW c, c = call, NEW m, m = k, Granted(c), m \in 1..Len(c.picks),
         NEW i \in 1..Len(c.bands), NEW v \in 0..(c.y_size - 1), NEW u \in 0..(c.x_size - 1)
  PROVE  WindowJob.data + (i - 1) * WindowJob.band + v * WindowJob.line + u * WindowJob.pixel
           = Bytes(c) * Spot(c, Element(m, i, v, u))
<1>1. Image = c.images[1] /\ Image.bps = Bytes(c)
  BY GrantedFacts DEF Image, Bytes
<1>2. /\ WindowJob.data = (m - 1) * Stride(c, "n") * Bytes(c)
      /\ WindowJob.pixel = Stride(c, "x") * Bytes(c) /\ WindowJob.line = Stride(c, "y") * Bytes(c)
      /\ WindowJob.band = Stride(c, "b") * Bytes(c)
  BY <1>1 DEF WindowJob, Bytes
<1>3. QED
  BY <1>2, PutIsSpot

(* And the plan under way does.                                            *)
LEMMA JobPlaces ==
  ASSUME NEW c, c = call, NEW m, m = k, Granted(c), m \in 1..Len(c.picks), job = WindowJob,
         NEW i, NEW v, NEW u, InWindow(i, v, u)
  PROVE  /\ Element(m, i, v, u) \in Requested(c) /\ Element(m, i, v, u).n = m
         /\ PlaceAt(i, v, u) = Bytes(c) * Spot(c, Element(m, i, v, u))
<1>1. i \in 1..Len(c.bands) /\ v \in 0..(c.y_size - 1) /\ u \in 0..(c.x_size - 1)
  <2>1. DOMAIN c.bands = 1..Len(c.bands)
    BY GrantedFacts
  <2>2. job.bands = c.bands /\ job.y_size = c.y_size /\ job.x_size = c.x_size
    BY DEF WindowJob
  <2>3. QED
    BY <2>1, <2>2 DEF InWindow
<1>2. PlaceAt(i, v, u) = Bytes(c) * Spot(c, Element(m, i, v, u))
  BY <1>1, WindowPlaces DEF PlaceAt
<1>3. Element(m, i, v, u) \in Requested(c)
  BY <1>1, PutIsSpot
<1>4. QED
  BY <1>2, <1>3 DEF Element

(* A step of a read's plan writes places of the current image only.        *)
LEMMA WindowTouches ==
  ASSUME ReadInv, rpc = "work", PlanStep, NEW c, c = call, NEW m, m = k
  PROVE  /\ DOMAIN dst' \subseteq Spotted(c)
         /\ \A e \in Requested(c) : e.n < m /\ Has(c, e) => Has(c, e)'
<1>1. /\ PlanInv /\ GeoInv /\ phase # "none" /\ job = WindowJob /\ Granted(c)
      /\ m \in 1..Len(c.picks) /\ DOMAIN dst \subseteq Spotted(c)
  BY DEF ReadInv, AllInv, Working, Filling
<1>2. CASE dst' = dst
  BY <1>1, <1>2 DEF Has
<1>3. ASSUME NEW a \in 1..Len(tasks), Touches(tasks[a])
      PROVE  /\ DOMAIN dst' \subseteq Spotted(c)
             /\ \A e \in Requested(c) : e.n < m /\ Has(c, e) => Has(c, e)'
  <2>1. ASSUME NEW o \in Footprint(tasks[a])
        PROVE  \E f \in Requested(c) : f.n = m /\ o = Bytes(c) * Spot(c, f)
    <3>1. PICK i, v, u : InWindow(i, v, u) /\ o = PlaceAt(i, v, u)
      BY <1>1, TaskPlaces
    <3>2. /\ Element(m, i, v, u) \in Requested(c) /\ Element(m, i, v, u).n = m
          /\ PlaceAt(i, v, u) = Bytes(c) * Spot(c, Element(m, i, v, u))
      BY <1>1, <3>1, JobPlaces
    <3>3. QED
      BY <3>1, <3>2
  <2>2. DOMAIN dst' \subseteq Spotted(c)
    BY <1>1, <1>3, <2>1 DEF Touches, Spotted
  <2>3. ASSUME NEW e \in Requested(c), e.n < m, Has(c, e) PROVE Has(c, e)'
    <3> DEFINE o == Bytes(c) * Spot(c, e)
    <3>1. o \notin Footprint(tasks[a])
      <4> SUFFICES ASSUME o \in Footprint(tasks[a]) PROVE FALSE
        OBVIOUS
      <4>1. PICK f \in Requested(c) : f.n = m /\ o = Bytes(c) * Spot(c, f)
        BY <2>1
      <4>2. e = f
        BY <1>1, <4>1, SpotsDiffer
      <4>3. m \in Int
        BY <1>1, GrantedFacts
      <4>4. QED
        BY <2>3, <4>1, <4>2, <4>3
    <3>2. o \in DOMAIN dst
      BY <2>3 DEF Has
    <3> HIDE DEF o
    <3>3. o \in DOMAIN dst' /\ dst'[o] = dst[o]
      BY <1>3, <3>1, <3>2 DEF Touches
    <3>4. QED
      BY <2>3, <3>3, HasSame DEF o
  <2>4. QED
    BY <2>2, <2>3
<1>4. QED
  BY <1>1, <1>2, <1>3, PlanStepTouches

(* The edges of the window's image, and what a run that went well leaves.  *)
LEMMA WindowFilled ==
  ASSUME ReadInv, rpc = "work", RunReturns, ~bad, EdgesFit(call.images[1]),
         NEW e \in Requested(call), e.n <= k
  PROVE  Has(call, e)
<1>1. PICK c, m : c = call /\ m = k
  OBVIOUS
<1>2. /\ PlanInv /\ GeoInv /\ DelInv /\ phase = "run" /\ job = WindowJob /\ Granted(c)
      /\ m \in 1..Len(c.picks)
  BY <1>1 DEF ReadInv, AllInv, Working, Filling, RunReturns
<1>3. CASE e.n < m
  BY <1>1, <1>3 DEF ReadInv, Filling
<1>4. CASE e.n = m
  <2> DEFINE i == e.b
             v == e.y
             u == e.x
  <2>1. i \in 1..Len(c.bands) /\ v \in 0..(c.y_size - 1) /\ u \in 0..(c.x_size - 1)
    BY <1>1 DEF Requested
  <2>2. e = Element(m, i, v, u)
    BY <1>1, <1>4 DEF Requested, Element
  <2>3. Image = c.images[1]
    BY <1>1, <1>2, GrantedFacts DEF Image
  <2>4. /\ job.h = Image /\ job.file = c.picks[m] /\ job.bands = c.bands
        /\ job.y_off = c.y_off /\ job.x_off = c.x_off
        /\ job.y_size = c.y_size /\ job.x_size = c.x_size
    BY <1>1, <1>2 DEF WindowJob
  <2>5. InWindow(i, v, u)
    BY <1>2, <2>1, <2>4, GrantedFacts DEF InWindow
  <2> HIDE DEF i, v, u
  <2>6. PlaceAt(i, v, u) = Bytes(c) * Spot(c, e)
    BY <1>1, <1>2, <2>2, <2>5, JobPlaces
  <2>7. EdgesFit(job.h) /\ next > Len(tasks) /\ \A w \in Workers : cur[w] = 0
    BY <1>1, <2>3, <2>4 DEF RunReturns
  <2>8. /\ PlaceAt(i, v, u) \in DOMAIN dst
        /\ dst[PlaceAt(i, v, u)] = SampleAt(job.file, job.h, job.bands[i], job.y_off + v, job.x_off + u)
    BY <1>2, <2>5, <2>7, RunDelivers
  <2>9. SampleOf(c, e) = SampleAt(job.file, job.h, job.bands[i], job.y_off + v, job.x_off + u)
    BY <1>1, <1>4, <2>3, <2>4 DEF SampleOf, Image, i, v, u
  <2>10. QED
    BY <1>1, <2>6, <2>8, <2>9 DEF Has
<1>5. e.n \in Int /\ m \in Int
  BY <1>1, <1>2, GrantedFacts DEF Requested
<1>6. QED
  BY <1>1, <1>3, <1>4, <1>5

-----------------------------------------------------------------------------
(* The steps of a read.                                                    *)

(* The plan and the call stand: so does what ties them.                    *)
LEMMA WindowSame ==
  ASSUME call' = call, k' = k
  PROVE  /\ WindowJob' = WindowJob /\ Image' = Image
         /\ RequestOk(Image, call)' <=> RequestOk(Image, call)
<1>1. Image' = Image
  BY DEF Image
<1>2. RequestOk(Image, call)' <=> RequestOk(Image, call)
  BY <1>1 DEF RequestOk
<1>3. WindowJob' = WindowJob
  BY <1>1 DEF WindowJob, Stride, Inside, Size
<1>4. QED
  BY <1>1, <1>2, <1>3

(* What a call is hangs on the call.                                       *)
LEMMA GrantedSame ==
  ASSUME call' = call
  PROVE  /\ Granted(call)' <=> Granted(call) /\ Spotted(call)' = Spotted(call)
         /\ EdgesFit(call.images[1])' <=> EdgesFit(call.images[1])
         /\ Requested(call)' = Requested(call)
OBVIOUS

(* The checks of a call.                                                   *)
LEMMA BeginKeeps ==
  ASSUME ReadInv, UNCHANGED openVars, ds \in {"unregistered", "none"}, NEW c \in Calls, rpc = "idle",
         ReadBegin(c), UNCHANGED askVars
  PROVE  Resting' /\ Working' /\ Filling'
<1>1. /\ call' = c /\ k' = k /\ k = 1 /\ phase = "none" /\ phase' = phase /\ dst' = dst /\ scratch' = scratch
      /\ ds' = ds /\ dpc' = dpc /\ outcome = "none"
  BY DEF ReadBegin, plVars, planVars, tileVars, openVars, askVars, ReadInv, AllInv, CallInv, Filling
<1>2. DOMAIN dst = {}
  BY <1>1 DEF ReadInv, AllInv, FEInv, DRTypeOK, Resting
<1>3. \/ rpc' = "done" /\ outcome' # "ok"
      \/ rpc' = "open" /\ outcome' = "none" /\ Granted(c)
  BY <1>1 DEF ReadBegin, Finish, Granted
<1>4. Resting'
  BY <1>1, <1>3 DEF ReadInv, Resting
<1>5. Working'
  BY <1>3 DEF Working
<1>6. ASSUME rpc' = "open" PROVE 1 \in 1..Len(c.picks) /\ \A e \in Requested(c) : ~(e.n < 1)
  <2>1. Granted(c)
    BY <1>3, <1>6
  <2>2. Len(c.picks) \in Nat /\ Layouted(c)
    BY <2>1, GrantedFacts
  <2>3. Size(c)["n"] > 0
    BY <2>2 DEF Layouted, LayoutOk, Axes
  <2>4. Len(c.picks) > 0
    BY <2>3 DEF Size
  <2>5. \A e \in Requested(c) : e.n \in 1..Len(c.picks)
    BY DEF Requested
  <2>6. QED
    BY <2>2, <2>4, <2>5
<1>7. Filling'
  BY <1>1, <1>2, <1>3, <1>6 DEF Filling
<1>8. QED
  BY <1>4, <1>5, <1>7

(* The file does not open, or the request is refused.                      *)
LEMMA OpenFailsKeeps ==
  ASSUME ReadInv, UNCHANGED openVars, UNCHANGED askVars, rpc = "open",
         UNCHANGED <<call, k, plVars>>, Finish("io")
  PROVE  Resting' /\ Working' /\ Filling'
<1>1. /\ call' = call /\ k' = k /\ phase' = phase /\ dst' = dst /\ scratch' = scratch
      /\ ds' = ds /\ dpc' = dpc /\ outcome' = "io" /\ rpc' = "done"
  BY DEF plVars, planVars, tileVars, openVars, askVars, Finish
<1>2. Resting'
  BY <1>1 DEF ReadInv, Resting
<1>3. Working'
  BY <1>1 DEF Working
<1>4. Filling'
  BY <1>1 DEF ReadInv, Filling
<1>5. QED
  BY <1>2, <1>3, <1>4

(* A plan is made for the next image: its places are apart.                *)
LEMMA OpenKeeps ==
  ASSUME ReadInv, UNCHANGED openVars, UNCHANGED askVars, Open
  PROVE  Resting' /\ Working' /\ Filling'
<1>1. CASE ~RequestOk(Image, call)
  BY <1>1, OpenFailsKeeps DEF Open
<1>2. CASE RequestOk(Image, call)
  <2>1. /\ rpc = "open" /\ BuildPlan(WindowJob) /\ rpc' = "work" /\ outcome' = outcome
        /\ call' = call /\ k' = k /\ ds' = ds /\ dpc' = dpc
    BY <1>2 DEF Open, openVars, askVars
  <2>2. phase = "none" /\ phase' = "plan" /\ job' = WindowJob /\ UNCHANGED tileVars
    BY <2>1 DEF BuildPlan
  <2>3. dst' = dst /\ scratch' = scratch /\ next' = next
    BY <2>2 DEF tileVars
  <2>4. PICK c, m : c = call /\ m = k
    OBVIOUS
  <2>5. Granted(c) /\ m \in 1..Len(c.picks) /\ PlanInv /\ CallInv
    BY <2>1, <2>4 DEF ReadInv, AllInv, Filling
  <2>6. JobOk(WindowJob)
    BY <1>2, <2>1, <2>5, WindowJobOk
  <2>7. PICK j : j = WindowJob
    OBVIOUS
  <2>8. ASSUME NEW i, NEW v, NEW u, InWindow(i, v, u)'
        PROVE  /\ Element(m, i, v, u) \in Requested(c)
               /\ PlaceAt(i, v, u)' = Bytes(c) * Spot(c, Element(m, i, v, u))
    <3>1. i \in 1..Len(c.bands) /\ v \in 0..(c.y_size - 1) /\ u \in 0..(c.x_size - 1)
      <4>1. DOMAIN c.bands = 1..Len(c.bands)
        BY <2>5, GrantedFacts
      <4>2. job'.bands = c.bands /\ job'.y_size = c.y_size /\ job'.x_size = c.x_size
        BY <2>2, <2>4 DEF WindowJob
      <4>3. QED
        BY <2>8, <4>1, <4>2 DEF InWindow
    <3>2. j.data + (i - 1) * j.band + v * j.line + u * j.pixel = Bytes(c) * Spot(c, Element(m, i, v, u))
      BY <2>4, <2>5, <2>7, <3>1, WindowPlaces
    <3>3. PlaceAt(i, v, u)' = j.data + (i - 1) * j.band + v * j.line + u * j.pixel
      BY <2>2, <2>7 DEF PlaceAt
    <3>4. QED
      BY <2>5, <3>1, <3>2, <3>3, PutIsSpot
  <2>9. Apart'
    <3> SUFFICES ASSUME NEW i, NEW n, NEW y, NEW v, NEW x, NEW u,
                        InWindow(i, y, x)', InWindow(n, v, u)', PlaceAt(i, y, x)' = PlaceAt(n, v, u)'
                 PROVE  i = n /\ y = v /\ x = u
      BY DEF Apart
    <3>1. Element(m, i, y, x) = Element(m, n, v, u)
      BY <2>5, <2>8, SpotsDiffer
    <3>2. QED
      BY <3>1 DEF Element
  <2>10. Spaced'
    <3>1. \A a \in Axes : Stride(c, a) \in Nat
      BY <2>5, GrantedFacts, StrideNat
    <3>2. Image.bps = Bytes(c) /\ Bytes(c) \in Int /\ c.images[1].bps = Bytes(c)
      <4>1. Bytes(c) \in 1..16 /\ c.images[c.picks[m]] = c.images[1]
        BY <2>5, GrantedFacts
      <4>2. Image = c.images[1]
        BY <2>4, <4>1 DEF Image
      <4>3. Bytes(c) \in Int
        BY <4>1
      <4>4. QED
        BY <4>2, <4>3 DEF Bytes
    <3>3. /\ Stride(c, "n") \in Nat /\ Stride(c, "b") \in Nat
          /\ Stride(c, "y") \in Nat /\ Stride(c, "x") \in Nat
      <4>1. "n" \in Axes /\ "b" \in Axes /\ "y" \in Axes /\ "x" \in Axes
        BY DEF Axes
      <4>2. QED
        BY <3>1, <4>1
    <3>4. m \in Int
      BY <2>5, GrantedFacts
    <3>5. /\ j.data = (m - 1) * Stride(c, "n") * Bytes(c) /\ j.pixel = Stride(c, "x") * Bytes(c)
          /\ j.line = Stride(c, "y") * Bytes(c) /\ j.band = Stride(c, "b") * Bytes(c)
      BY <2>4, <2>7, <3>2 DEF WindowJob
    <3>6. j.data \in Int /\ j.pixel \in Int /\ j.line \in Int /\ j.band \in Int
      BY <3>2, <3>3, <3>4, <3>5
    <3>7. QED
      BY <2>2, <2>7, <3>6 DEF Spaced
  <2>11. GeoInv'
    BY <2>1, <2>5, <2>6, <2>10, BuildPlanGeo
  <2>12. DelInv'
    <3>1. next = 1
      BY <2>2, <2>5 DEF PlanInv
    <3>2. \E S : scratch \in [Workers -> S]
      BY <2>2 DEF ReadInv, Resting
    <3>3. QED
      BY <2>2, <2>5, <3>1, <3>2, PlanningDelivery
  <2>13. Working'
    BY <1>2, <2>1, <2>2, <2>9, <2>11, <2>12, WindowSame DEF Working
  <2>14. Resting'
    BY <2>1, <2>2 DEF ReadInv, Resting
  <2>15. Filling'
    <3>1. \A e : Has(c, e)' <=> Has(c, e)
      BY <2>3 DEF Has
    <3>2. QED
      BY <2>1, <2>3, <2>4, <3>1 DEF ReadInv, Filling
  <2>16. QED
    BY <2>13, <2>14, <2>15
<1>3. QED
  BY <1>1, <1>2

(* A run has ended: every element of the image is there, or it failed.     *)
LEMMA RunEndKeeps ==
  ASSUME ReadInv, UNCHANGED openVars, UNCHANGED askVars, RunEnd
  PROVE  Resting' /\ Working' /\ Filling'
<1>1. PICK c, m : c = call /\ m = k
  OBVIOUS
<1>2. /\ rpc = "work" /\ RunReturns /\ call' = call /\ dst' = dst /\ phase' = "none"
      /\ scratch' = [w \in Workers |-> Stale] /\ ds' = ds /\ dpc' = dpc
  BY DEF RunEnd, RunReturns, openVars, askVars
<1>3. /\ Granted(c) /\ m \in 1..Len(c.picks) /\ DOMAIN dst \subseteq Spotted(c) /\ bad \in BOOLEAN
      /\ ds \in {"unregistered", "none"} /\ outcome = "none"
  BY <1>1, <1>2 DEF ReadInv, AllInv, PlanInv, Filling, Resting
<1>4. m \in Int /\ Len(c.picks) \in Int
  BY <1>3, GrantedFacts
<1>5. \/ bad /\ rpc' = "done" /\ outcome' = "io" /\ k' = k
      \/ ~bad /\ m = Len(c.picks) /\ rpc' = "done" /\ outcome' = "ok" /\ k' = k
      \/ ~bad /\ m < Len(c.picks) /\ rpc' = "open" /\ outcome' = outcome /\ k' = m + 1
  <2>1. m = Len(c.picks) \/ m < Len(c.picks)
    BY <1>3, <1>4
  <2>2. CASE bad
    BY <1>1, <2>2 DEF RunEnd, Finish
  <2>3. CASE ~bad /\ m = Len(c.picks)
    BY <1>1, <2>3, <1>4 DEF RunEnd, Finish
  <2>4. CASE ~bad /\ m < Len(c.picks)
    BY <1>1, <2>4, <1>4 DEF RunEnd, Finish
  <2>5. QED
    BY <2>1, <2>2, <2>3, <2>4
<1>6. ASSUME ~bad, EdgesFit(c.images[1]), NEW e \in Requested(c), e.n <= m PROVE Has(c, e)'
  <2>1. Has(c, e)
    BY <1>1, <1>2, <1>6, WindowFilled
  <2>2. QED
    BY <1>2, <2>1 DEF Has
<1>7. \A e \in Requested(c) : e.n \in Int /\ e.n <= Len(c.picks)
  BY <1>4 DEF Requested
<1>8. \E S : scratch' \in [Workers -> S]
  <2>1. scratch' \in [Workers -> {Stale}]
    BY <1>2
  <2>2. QED
    BY <2>1
<1>9. Resting'
  BY <1>2, <1>3, <1>5, <1>8 DEF Resting
<1>10. Working'
  BY <1>5 DEF Working
<1>11. CASE bad /\ rpc' = "done" /\ outcome' = "io" /\ k' = k
  BY <1>1, <1>2, <1>3, <1>9, <1>10, <1>11 DEF Filling
<1>12. CASE ~bad /\ m = Len(c.picks) /\ rpc' = "done" /\ outcome' = "ok" /\ k' = k
  <2>1. EdgesFit(c.images[1]) => \A e \in Requested(c) : Has(c, e)'
    BY <1>6, <1>7, <1>12
  <2>2. QED
    BY <1>1, <1>2, <1>3, <1>9, <1>10, <1>12, <2>1 DEF Filling
<1>13. CASE ~bad /\ m < Len(c.picks) /\ rpc' = "open" /\ outcome' = outcome /\ k' = m + 1
  <2>1. \A e \in Requested(c) : e.n < m + 1 => e.n <= m
    BY <1>4, <1>7
  <2>2. EdgesFit(c.images[1]) => \A e \in Requested(c) : e.n < k' => Has(c, e)'
    BY <1>6, <1>13, <2>1
  <2>3. k' \in 1..Len(c.picks)
    BY <1>3, <1>4, <1>13
  <2>4. QED
    BY <1>1, <1>2, <1>3, <1>9, <1>10, <1>13, <2>2, <2>3 DEF Filling
<1>14. QED
  BY <1>5, <1>11, <1>12, <1>13

(* The call returns.                                                       *)
LEMMA ReturnKeeps ==
  ASSUME ReadInv, UNCHANGED openVars, UNCHANGED askVars, ReadReturn
  PROVE  Resting' /\ Working' /\ Filling'
<1>1. /\ rpc = "done" /\ rpc' = "idle" /\ dst' = <<>> /\ outcome' = "none"
      /\ phase' = phase /\ scratch' = scratch
  BY DEF ReadReturn, planVars
<1>2. DOMAIN dst' = {}
  BY <1>1
<1>3. QED
  BY <1>1, <1>2 DEF ReadInv, Resting, Working, Filling

(* No step of a plan ends it.                                              *)
LEMMA PlanStaysOn == ASSUME PlanStep PROVE job' = job /\ phase' # "none"
<1>1. CASE PlanTile \/ PlanOverrun \/ PlanEnd
  BY <1>1 DEF PlanTile, PlanOverrun, PlanEnd
<1>2. CASE AfterPlanOverrun
  BY <1>2 DEF AfterPlanOverrun, plVars, planVars
<1>3. CASE \E w \in Workers : Fetch(w) \/ FetchFails(w) \/ Inflate(w) \/ Deliver(w)
  BY <1>3 DEF Fetch, FetchFails, Inflate, Deliver, planVars
<1>4. QED
  BY <1>1, <1>2, <1>3 DEF PlanStep

(* The plan goes on.                                                       *)
LEMMA PlanKeeps ==
  ASSUME ReadInv, UNCHANGED openVars, UNCHANGED askVars, rpc = "work", PlanStep, UNCHANGED readVars
  PROVE  Resting' /\ Working' /\ Filling'
<1>1. PICK c, m : c = call /\ m = k
  OBVIOUS
<1>2. /\ rpc' = rpc /\ call' = call /\ k' = k /\ outcome' = outcome /\ ds' = ds /\ dpc' = dpc
  BY DEF readVars, openVars, askVars
<1>3. /\ PlanInv /\ GeoInv /\ Apart /\ DelInv /\ phase # "none" /\ job = WindowJob /\ RequestOk(Image, call)
      /\ Granted(c) /\ m \in 1..Len(c.picks) /\ outcome = "none"
  BY <1>1 DEF ReadInv, AllInv, Working, Filling
<1>4. job' = job /\ phase' # "none"
  BY <1>3, PlanStaysOn
<1>5. GeoInv'
  BY <1>3, PlanStepGeo
<1>6. DelInv'
  <2>1. Laid
    BY <1>3, GeoLaid
  <2>2. job.h.predictor \in {1, 2}
    <3>1. job.h \in HeaderShape
      BY <1>3 DEF GeoInv, JobOk
    <3>2. QED
      BY <3>1 DEF HeaderShape
  <2>3. QED
    BY <1>3, <2>1, <2>2, PlanStepDelivery
<1>7. /\ DOMAIN dst' \subseteq Spotted(c)
      /\ \A e \in Requested(c) : e.n < m /\ Has(c, e) => Has(c, e)'
  BY <1>1, WindowTouches
<1>8. Resting'
  BY <1>2, <1>4 DEF ReadInv, Resting
<1>9. Working'
  <2>1. Apart'
    BY <1>3, <1>4, ApartSame
  <2>2. QED
    BY <1>2, <1>3, <1>4, <1>5, <1>6, <2>1, WindowSame DEF Working
<1>10. EdgesFit(c.images[1]) => \A e \in Requested(c) : e.n < m => Has(c, e)
  BY <1>1 DEF ReadInv, Filling
<1>11. Filling'
  BY <1>1, <1>2, <1>3, <1>7, <1>10 DEF Filling
<1>12. QED
  BY <1>8, <1>9, <1>11

(* A step of the driver, which no read is in.                              *)
LEMMA DriverKeeps ==
  ASSUME ReadInv, rpc = "idle", DRNext, UNCHANGED readVars
  PROVE  Resting' /\ Working' /\ Filling'
<1>1. rpc' = "idle" /\ outcome' = "none"
  BY DEF readVars, ReadInv, Filling
<1>2. Working' /\ Filling'
  BY <1>1 DEF Working, Filling
<1>3. /\ phase = "none" => \E S : scratch \in [Workers -> S]
      /\ phase # "none" => dpc \in {"fast", "staging", "block"}
      /\ dpc = "idle" => DOMAIN dst = {}
  BY DEF ReadInv, Resting
<1>4. CASE OpenStep
  <2>1. UNCHANGED plVars /\ UNCHANGED askVars
    BY <1>4 DEF OpenStep, Parsed, RegisterDriver, CannotOpen, OpenFile, NoPRead, MakeImage,
                OpenThrows, OpenDone, CloseImage
  <2>2. phase' = phase /\ scratch' = scratch /\ dst' = dst /\ dpc' = dpc
    BY <2>1 DEF plVars, planVars, tileVars, askVars
  <2>3. QED
    BY <1>1, <1>2, <1>3, <2>2 DEF Resting
<1>5. CASE dpc \in {"fast", "staging", "block"} /\ PlanStep /\ UNCHANGED <<openVars, askVars>>
  <2>1. dpc' = dpc
    BY <1>5 DEF askVars
  <2>2. phase' # "none"
    BY <1>5, PlanStaysOn
  <2>3. QED
    BY <1>1, <1>2, <1>5, <2>1, <2>2 DEF Resting
<1>6. ASSUME NEW r, RasterIO(r) PROVE Resting'
  <2>1. CASE UNCHANGED plVars /\ dpc' = "done"
    <3>1. phase' = phase /\ scratch' = scratch /\ phase = "none"
      BY <1>6, <2>1 DEF plVars, planVars, tileVars, RasterIO
    <3>2. QED
      BY <1>1, <1>3, <2>1, <3>1 DEF Resting
  <2>2. CASE phase' = "plan" /\ dpc' \in {"fast", "staging"}
    BY <1>1, <2>2 DEF Resting
  <2>3. QED
    BY <1>6, <2>1, <2>2
       DEF RasterIO, Refused, ReadFast, ReadStaging, NoStagingMemory, RasterIOThrows, BuildPlan
<1>7. ASSUME NEW x, NEW y, NEW b, ReadBlock(x, y, b) \/ ReadBlockOverrun(x, y, b) \/ ReadBlockThrows(x, y, b)
      PROVE Resting'
  <2>1. CASE ReadBlock(x, y, b) \/ ReadBlockOverrun(x, y, b)
    BY <1>1, <2>1 DEF ReadBlock, ReadBlockOverrun, Resting
  <2>2. CASE ReadBlockThrows(x, y, b)
    <3>1. phase' = phase /\ phase = "none" /\ scratch' = scratch /\ dpc' = "given"
      BY <2>2 DEF ReadBlockThrows, AskBlock, tileVars
    <3>2. QED
      BY <1>1, <1>3, <3>1 DEF Resting
  <2>3. QED
    BY <1>7, <2>1, <2>2
<1>8. CASE FastEnd \/ StagingEnd \/ BlockEnd
  <2>1. phase' = "none" /\ dpc' # "idle" /\ scratch' = [w \in Workers |-> Stale]
    BY <1>8 DEF FastEnd, StagingEnd, BlockEnd, RunReturns
  <2>2. \E S : scratch' \in [Workers -> S]
    <3>1. scratch' \in [Workers -> {Stale}]
      BY <2>1
    <3>2. QED
      BY <3>1
  <2>3. QED
    BY <1>1, <1>2, <2>1, <2>2 DEF Resting
<1>9. CASE Resample \/ ResampleFails
  <2>1. /\ phase' = phase /\ scratch' = scratch /\ dpc = "staged" /\ dpc' = "done"
    BY <1>9 DEF Resample, ResampleFails, planVars
  <2>2. phase = "none"
    BY <1>3, <2>1
  <2>3. \E S : scratch' \in [Workers -> S]
    BY <1>3, <2>1, <2>2
  <2>4. QED
    BY <1>1, <1>2, <2>1, <2>2, <2>3 DEF Resting
<1>10. CASE DriverReturn
  <2>1. phase' = phase /\ scratch' = scratch /\ dpc \in {"done", "given"} /\ dst' = <<>>
    BY <1>10 DEF DriverReturn, planVars
  <2>2. DOMAIN dst' = {}
    BY <2>1
  <2>3. phase = "none"
    BY <1>3, <2>1
  <2>4. \E S : scratch' \in [Workers -> S]
    BY <1>3, <2>1, <2>3
  <2>5. QED
    BY <1>1, <1>2, <2>1, <2>2, <2>3, <2>4 DEF Resting
<1>11. CASE AskStep
  <2>1. ASSUME NEW r, NEW b, BandRasterIO(r, b) PROVE Resting'
    <3> DEFINE one == [r EXCEPT !.bands = <<b>>, !.band = 0]
    <3>1. RasterIO(one)
      BY <2>1 DEF BandRasterIO
    <3> HIDE DEF one
    <3>2. QED
      BY <1>6, <3>1
  <2>2. QED
    BY <1>2, <1>6, <1>7, <1>8, <1>9, <1>10, <1>11, <2>1 DEF AskStep
<1>12. QED
  BY <1>2, <1>4, <1>5, <1>11 DEF DRNext

LEMMA StutterKeeps ==
  ASSUME ReadInv, UNCHANGED feVars
  PROVE  Resting' /\ Working' /\ Filling'
<1>1. /\ UNCHANGED plVars /\ rpc' = rpc /\ call' = call /\ k' = k /\ outcome' = outcome
      /\ ds' = ds /\ dpc' = dpc
  BY DEF feVars, readVars, openVars, askVars
<1>2. /\ UNCHANGED planVars /\ phase' = phase /\ job' = job /\ scratch' = scratch /\ dst' = dst
  BY <1>1 DEF plVars, planVars, tileVars
<1>3. Resting'
  BY <1>1, <1>2 DEF ReadInv, Resting
<1>4. Working'
  BY <1>1, <1>2, WindowSame, ApartSame, GeoSame, DeliverySame DEF ReadInv, Working
<1>5. \A c, e : Has(c, e)' <=> Has(c, e)
  BY <1>2 DEF Has
<1>6. Filling'
  BY <1>1, <1>2, <1>5 DEF ReadInv, Filling
<1>7. QED
  BY <1>3, <1>4, <1>6

(* Every step keeps the invariant.                                         *)
LEMMA ReadNextInv == ReadInv /\ [FENext]_feVars => ReadInv'
<1> SUFFICES ASSUME ReadInv, [FENext]_feVars PROVE ReadInv'
  OBVIOUS
<1>1. AllInv'
  BY AllNextInv DEF ReadInv
<1>2. CASE UNCHANGED feVars
  BY <1>1, <1>2, StutterKeeps DEF ReadInv
<1>3. CASE rpc = "idle" /\ DRNext /\ UNCHANGED readVars
  BY <1>1, <1>3, DriverKeeps DEF ReadInv
<1>4. CASE ds \in {"unregistered", "none"} /\ RDNext /\ UNCHANGED <<openVars, askVars>>
  <2>1. UNCHANGED openVars /\ UNCHANGED askVars
    BY <1>4
  <2>2. Resting' /\ Working' /\ Filling'
    <3>1. CASE rpc = "work" /\ PlanStep /\ UNCHANGED readVars
      BY <2>1, <3>1, PlanKeeps
    <3>2. CASE rpc = "idle" /\ \E c \in Calls : ReadBegin(c)
      BY <1>4, <2>1, <3>2, BeginKeeps
    <3>3. CASE OpenFails
      BY <2>1, <3>3, OpenFailsKeeps DEF OpenFails
    <3>4. QED
      BY <1>4, <2>1, <3>1, <3>2, <3>3, OpenKeeps, RunEndKeeps, ReturnKeeps DEF RDNext, ReadStep
  <2>3. QED
    BY <1>1, <2>2 DEF ReadInv
<1>5. QED
  BY <1>2, <1>3, <1>4 DEF FENext

(* The invariant of the reads, in every state of the two front ends.       *)
LEMMA ReadInvariant == FESpec => []ReadInv
BY ReadInitInv, ReadNextInv, PTL DEF FESpec

(* Whatever the pattern, the window, the stack and the sample types, and   *)
(* whatever fails, a stateless read writes nothing outside the buffer the  *)
(* caller handed over.                                                     *)
THEOREM FEWritesInside == FESpec => []WritesInside
<1>1. ReadInv => WritesInside
  <2> SUFFICES ASSUME ReadInv, rpc # "idle", NEW o \in DOMAIN dst
               PROVE  o >= 0 /\ o + call.images[call.picks[k]].bps <= call.dst_size
    BY DEF WritesInside
  <2>1. rpc \in {"open", "work", "done"}
    BY DEF ReadInv, AllInv, CallInv
  <2>2. Granted(call) /\ k \in 1..Len(call.picks) /\ o \in Spotted(call)
    BY <2>1 DEF ReadInv, Filling
  <2>3. PICK e \in Requested(call) : o = Bytes(call) * Spot(call, e)
    BY <2>2 DEF Spotted
  <2>4. call.images[call.picks[k]].bps = Bytes(call)
    BY <2>2, GrantedFacts DEF Bytes
  <2>5. QED
    BY <2>2, <2>3, <2>4, SpotInside
<1>2. QED
  BY <1>1, ReadInvariant, PTL

(* A stateless read that reports success has put every requested sample,   *)
(* decoded, where the pattern places it, and has written nothing else, as  *)
(* long as the edges of the images' tiles fit in int.                      *)
THEOREM FEReadComplete ==
  FESpec => [](outcome = "ok" /\ EdgesFit(call.images[1]) => ReadComplete)
<1>1. ReadInv => (outcome = "ok" /\ EdgesFit(call.images[1]) => ReadComplete)
  <2> SUFFICES ASSUME ReadInv, outcome = "ok", EdgesFit(call.images[1]) PROVE ReadComplete
    OBVIOUS
  <2>1. PICK c : c = call
    OBVIOUS
  <2>2. rpc = "done"
    BY DEF ReadInv, Filling
  <2>3. /\ Granted(c) /\ DOMAIN dst \subseteq Spotted(c) /\ \A e \in Requested(c) : Has(c, e)
    BY <2>1, <2>2 DEF ReadInv, Filling
  <2>4. \A e \in Requested(c) :
          c.images[1].bps * Cardinality({f \in Requested(c) : Precedes(c, f, e)}) = Bytes(c) * Spot(c, e)
    BY <2>3, GrantedFacts, SpotCounts DEF Bytes
  <2> DEFINE Where(e) == call.images[1].bps * Cardinality({f \in Requested(call) : Precedes(call, f, e)})
  <2>5. \A e \in Requested(c) : Where(e) = Bytes(c) * Spot(c, e)
    BY <2>1, <2>4
  <2> HIDE DEF Where
  <2>6. DOMAIN dst = {Where(e) : e \in Requested(c)}
    BY <2>3, <2>5 DEF Spotted, Has
  <2>7. \A e \in Requested(c) : dst[Where(e)] = SampleOf(c, e)
    BY <2>3, <2>5 DEF Has
  <2>8. QED
    BY <2>1, <2>6, <2>7 DEF ReadComplete, Where
<1>2. QED
  BY <1>1, ReadInvariant, PTL
=============================================================================
