---------------------------- MODULE DriverProofs ----------------------------
(***************************************************************************)
(* What the GDAL driver answers, for images, requests and numbers of       *)
(* threads of every size: what a read writes and what it brings, direct    *)
(* and through the staging buffer; what a block is; and what the cache of  *)
(* the blocks hands out.                                                   *)
(***************************************************************************)
EXTENDS ReadProofs, BlockCache

-----------------------------------------------------------------------------
(* Numbers.  A buffer of samples of b bytes, in rows of w, in bands of l.  *)
Packed(i, y, x, l, w, b) == i * (w * l * b) + y * (b * w) + x * b

LEMMA PackedIsNested ==
  ASSUME NEW i \in Int, NEW y \in Int, NEW x \in Int, NEW l \in Int, NEW w \in Int, NEW b \in Int
  PROVE  Packed(i, y, x, l, w, b) = ((i * l + y) * w + x) * b
<1>1. i * (w * l * b) = i * l * w * b
  OBVIOUS
<1>2. y * (b * w) = y * w * b
  OBVIOUS
<1> DEFINE p == i * l
           q == y * w
           u == i * l * w
<1>3. (p + y) * w = p * w + y * w
  OBVIOUS
<1>4. (i * l + y) * w + x = u + q + x
  BY <1>3
<1>5. u \in Int /\ q \in Int
  OBVIOUS
<1>6. u * b = i * l * w * b /\ q * b = y * w * b
  OBVIOUS
<1> HIDE DEF u, q
<1>7. (u + q + x) * b = u * b + q * b + x * b
  BY <1>5
<1>8. QED
  BY <1>1, <1>2, <1>4, <1>6, <1>7 DEF Packed

(* Its samples are apart ...                                               *)
LEMMA PackedUnique ==
  ASSUME NEW l \in Nat, NEW w \in Nat, NEW b \in Nat \ {0}
  PROVE  \A i, j \in Int : \A y, v \in 0..(l - 1) : \A x, u \in 0..(w - 1) :
           Packed(i, y, x, l, w, b) = Packed(j, v, u, l, w, b) => i = j /\ y = v /\ x = u
<1> TAKE i, j \in Int
<1> TAKE y, v \in 0..(l - 1)
<1> TAKE x, u \in 0..(w - 1)
<1>0. /\ y \in Int /\ v \in Int /\ x \in Int /\ u \in Int
      /\ l \in Int /\ w \in Int /\ b \in Int
  OBVIOUS
<1>1. Packed(i, y, x, l, w, b) = ((i * l + y) * w + x) * b
  BY <1>0, PackedIsNested, SMTT(30)
<1>2. Packed(j, v, u, l, w, b) = ((j * l + v) * w + u) * b
  BY <1>0, PackedIsNested, SMTT(30)
<1>3. SUFFICES ASSUME ((i * l + y) * w + x) * b = ((j * l + v) * w + u) * b
               PROVE  i = j /\ y = v /\ x = u
  BY <1>1, <1>2
<1> DEFINE r == i * l + y
           s == j * l + v
           p == r * w + x
           q == s * w + u
<1>4. p * b = q * b
  BY <1>3
<1>5. r \in Int /\ s \in Int
  OBVIOUS
<1> HIDE DEF r, s
<1>6. p \in Int /\ q \in Int
  BY <1>0, <1>5
<1> HIDE DEF p, q
<1>7. p * b + 0 = q * b + 0 /\ 0 \in 0..(b - 1)
  BY <1>4, <1>6
<1>8. p = q
  BY <1>6, <1>7, DigitsUnique
<1>9. r = s /\ x = u
  BY <1>5, <1>8, DigitsUnique DEF p, q
<1>10. QED
  BY <1>9, DigitsUnique DEF r, s

(* ... and inside the bytes of its n bands.                                *)
LEMMA PackedInside ==
  ASSUME NEW n \in Nat, NEW l \in Nat, NEW w \in Nat, NEW b \in Nat \ {0},
         NEW i \in 0..(n - 1), NEW y \in 0..(l - 1), NEW x \in 0..(w - 1)
  PROVE  /\ Packed(i, y, x, l, w, b) \in Nat
         /\ Packed(i, y, x, l, w, b) + b <= (w * l * b) * n
<1> DEFINE r == i * l + y
           p == r * w + x
           m == n * l
           k2 == m * w
<1>1. r \in 0..(m - 1) /\ m \in Nat
  BY DigitFits
<1> HIDE DEF r, m
<1>2. p \in 0..(k2 - 1) /\ k2 \in Nat
  BY <1>1, DigitFits
<1>3. Packed(i, y, x, l, w, b) = p * b
  BY PackedIsNested, SMTT(30) DEF r
<1> HIDE DEF p, k2
<1>4. (p + 1) * b <= k2 * b /\ (p + 1) * b = p * b + b /\ p * b \in Nat
  BY <1>2, ProductMonotone
<1>5. k2 * b = (w * l * b) * n
  BY DEF k2, m
<1>6. QED
  BY <1>3, <1>4, <1>5
-----------------------------------------------------------------------------
(* What a request is read with.                                            *)

(* The job of a direct read.                                               *)
Straight(r) ==
  [file |-> 1, h |-> raster, bands |-> r.bands,
   x_off |-> r.x_off, y_off |-> r.y_off, x_size |-> r.x_size, y_size |-> r.y_size,
   data |-> 0, pixel |-> r.pixel, line |-> r.line, band |-> r.band]

JobFor(r) == IF Fast(r) THEN Straight(r) ELSE Staging(r)

(* Where a job puts its window.                                            *)
Within(j, i, y, x) == i \in DOMAIN j.bands /\ y \in 0..(j.y_size - 1) /\ x \in 0..(j.x_size - 1)
Target(j, i, y, x) == j.data + (i - 1) * j.band + y * j.line + x * j.pixel
Hit(j, o) == \E i, y, x : Within(j, i, y, x) /\ o = Target(j, i, y, x)

LEMMA TargetsOfJob ==
  ASSUME NEW i, NEW y, NEW x
  PROVE  (InWindow(i, y, x) <=> Within(job, i, y, x)) /\ PlaceAt(i, y, x) = Target(job, i, y, x)
BY DEF InWindow, Within, PlaceAt, Target

(* The samples of the window are there.                                    *)
Got(j) ==
  \A i, y, x : Within(j, i, y, x) =>
    /\ Target(j, i, y, x) \in DOMAIN dst
    /\ dst[Target(j, i, y, x)] = SampleAt(j.file, j.h, j.bands[i], j.y_off + y, j.x_off + x)

(* The bytes of the staging window can be counted in size_t, which nothing *)
(* in the code sees to.                                                    *)
RoomCounts(r) == Staging(r).x_size * Staging(r).y_size * raster.bps * Len(r.bands) <= U64Max

(* A request that may be read.                                             *)
Readable(r) == r \in RequestShape /\ Acceptable(r) /\ raster \in HeaderShape

LEMMA ReadableFacts ==
  ASSUME NEW r, Readable(r)
  PROVE  /\ r.x_off \in Nat /\ r.x_size \in Nat \ {0} /\ r.x_off + r.x_size <= raster.width
         /\ r.y_off \in Nat /\ r.y_size \in Nat \ {0} /\ r.y_off + r.y_size <= raster.length
         /\ r.pixel \in Nat \ {0} /\ r.line \in Nat \ {0} /\ r.band \in Int
         /\ r.buf_x \in Nat \ {0} /\ r.buf_y \in Nat \ {0}
         /\ r.fx \in Int /\ r.fxs \in Int /\ r.fy \in Int /\ r.fys \in Int
         /\ r.bands \in Seq(Int) /\ Len(r.bands) \in Nat \ {0} /\ DOMAIN r.bands = 1..Len(r.bands)
         /\ \A i \in DOMAIN r.bands : r.bands[i] \in 1..raster.spp
         /\ (Len(r.bands) > 1 => r.band > 0)
         /\ raster.width \in Nat /\ raster.length \in Nat
         /\ raster.tw \in Nat \ {0} /\ raster.tl \in Nat \ {0} /\ raster.bps \in Nat \ {0}
         /\ raster.spp \in Nat
         /\ r.type \in {"native", "other"} /\ r.float \in BOOLEAN
<1>1. r \in RequestShape
  BY DEF Readable
<1>2. /\ r.x_off \in Int /\ r.x_size \in Int /\ r.y_off \in Int /\ r.y_size \in Int
      /\ r.pixel \in Int /\ r.line \in Int /\ r.band \in Int
      /\ r.buf_x \in Nat \ {0} /\ r.buf_y \in Nat \ {0}
      /\ r.fx \in Int /\ r.fxs \in Int /\ r.fy \in Int /\ r.fys \in Int
      /\ r.bands \in Seq(Int) /\ r.type \in {"native", "other"} /\ r.float \in BOOLEAN
  BY <1>1 DEF RequestShape
<1>3. /\ raster.width \in 1..IntMax /\ raster.length \in 1..IntMax
      /\ raster.tw \in 1..U16Max /\ raster.tl \in 1..U16Max /\ raster.bps \in 1..16
      /\ raster.spp \in 1..U16Max
  BY DEF Readable, HeaderShape
<1>4. raster.bps \in Nat \ {0} /\ raster.tw \in Nat \ {0} /\ raster.tl \in Nat \ {0}
  BY <1>3, WidthAssumption
<1>5. raster.width \in Nat /\ raster.length \in Nat /\ raster.spp \in Nat
  BY <1>3, WidthAssumption
<1>6. Acceptable(r)
  BY DEF Readable
<1>7. /\ r.bands # <<>> /\ r.pixel > 0 /\ r.line > 0 /\ (Len(r.bands) > 1 => r.band > 0)
      /\ r.x_off >= 0 /\ r.x_size > 0 /\ r.x_off + r.x_size <= raster.width
      /\ r.y_off >= 0 /\ r.y_size > 0 /\ r.y_off + r.y_size <= raster.length
      /\ \A b \in ToSet(r.bands) : b \in 1..raster.spp
  BY <1>6 DEF Acceptable
<1>8. Len(r.bands) \in Nat \ {0} /\ DOMAIN r.bands = 1..Len(r.bands)
  <2>1. PICK s : s = r.bands
    OBVIOUS
  <2>2. s \in Seq(Int) /\ s # <<>>
    BY <1>2, <1>7, <2>1
  <2>3. Len(s) \in Nat \ {0} /\ DOMAIN s = 1..Len(s)
    BY <2>2
  <2>4. QED
    BY <2>1, <2>3
<1>9. \A i \in DOMAIN r.bands : r.bands[i] \in 1..raster.spp
  BY <1>7 DEF ToSet
<1>10. /\ r.x_off \in Nat /\ r.x_size \in Nat \ {0} /\ r.y_off \in Nat /\ r.y_size \in Nat \ {0}
       /\ r.pixel \in Nat \ {0} /\ r.line \in Nat \ {0}
  <2>1. \A n \in Int : (n >= 0 => n \in Nat) /\ (n > 0 => n \in Nat \ {0})
    OBVIOUS
  <2>2. /\ r.x_off >= 0 /\ r.x_size > 0 /\ r.y_off >= 0 /\ r.y_size > 0
        /\ r.pixel > 0 /\ r.line > 0
    BY <1>7
  <2>3. /\ r.x_off \in Int /\ r.x_size \in Int /\ r.y_off \in Int /\ r.y_size \in Int
        /\ r.pixel \in Int /\ r.line \in Int
    BY <1>2
  <2>4. QED
    BY <2>1, <2>2, <2>3
<1>11. QED
  BY <1>2, <1>4, <1>5, <1>7, <1>8, <1>9, <1>10

(* Both jobs are windows of the image.                                     *)
LEMMA JobForOk ==
  ASSUME NEW r, Readable(r)
  PROVE  JobOk(JobFor(r)) /\ JobFor(r).h = raster /\ JobFor(r).bands = r.bands /\ JobFor(r).file = 1
<1>1. JobOk(Straight(r)) /\ JobOk(Staging(r))
  <2>1. /\ r.x_off \in Int /\ r.x_size \in Int /\ r.y_off \in Int /\ r.y_size \in Int
        /\ r.bands \in Seq(Int)
    BY ReadableFacts
  <2>2. Acceptable(r) /\ raster \in HeaderShape /\ IsSeq(r.bands)
    BY <2>1 DEF Readable, IsSeq
  <2>3. QED
    BY <2>1, <2>2, RequestJobsOk DEF Straight
<1>2. QED
  BY <1>1 DEF JobFor, Straight, Staging

(* The staging buffer.                                                     *)
LEMMA StagingFacts ==
  ASSUME NEW r, Readable(r)
  PROVE  /\ Staging(r).x_off \in Nat /\ Staging(r).x_off <= r.x_off
         /\ Staging(r).x_size \in Nat \ {0} /\ r.x_off + r.x_size <= Staging(r).x_off + Staging(r).x_size
         /\ Staging(r).y_off \in Nat /\ Staging(r).y_off <= r.y_off
         /\ Staging(r).y_size \in Nat \ {0} /\ r.y_off + r.y_size <= Staging(r).y_off + Staging(r).y_size
         /\ Staging(r).data = 0 /\ Staging(r).pixel = raster.bps
         /\ Staging(r).line = raster.bps * Staging(r).x_size
         /\ Staging(r).band = U64(Staging(r).x_size * Staging(r).y_size * raster.bps)
         /\ Staging(r).band \in Nat
<1>1. /\ r.x_off \in Nat /\ r.x_size \in Nat \ {0} /\ r.x_off + r.x_size <= raster.width
      /\ r.y_off \in Nat /\ r.y_size \in Nat \ {0} /\ r.y_off + r.y_size <= raster.length
      /\ raster.width \in Nat /\ raster.length \in Nat
      /\ raster.tw \in Nat \ {0} /\ raster.tl \in Nat \ {0} /\ raster.bps \in Nat \ {0}
  BY ReadableFacts
<1> DEFINE ax == AlignedOff(r.x_off, raster.tw)
           ay == AlignedOff(r.y_off, raster.tl)
           ex == AlignedEnd(r.x_off, r.x_size, raster.tw, raster.width)
           ey == AlignedEnd(r.y_off, r.y_size, raster.tl, raster.length)
<1>2. /\ ax \in Nat /\ ax <= r.x_off /\ ex \in Nat /\ r.x_off + r.x_size <= ex /\ ex <= raster.width
      /\ ay \in Nat /\ ay <= r.y_off /\ ey \in Nat /\ r.y_off + r.y_size <= ey /\ ey <= raster.length
  BY <1>1, AxisCovered
<1>3. /\ Staging(r).x_off = ax /\ Staging(r).y_off = ay
      /\ Staging(r).x_size = ex - ax /\ Staging(r).y_size = ey - ay
      /\ Staging(r).data = 0 /\ Staging(r).pixel = raster.bps
      /\ Staging(r).line = raster.bps * (ex - ax)
      /\ Staging(r).band = U64((ex - ax) * (ey - ay) * raster.bps)
  BY DEF Staging
<1> HIDE DEF ax, ay, ex, ey
<1>4. ex - ax \in Nat \ {0} /\ ey - ay \in Nat \ {0}
  BY <1>1, <1>2
<1>5. Staging(r).band \in Nat
  <2> DEFINE n == (ex - ax) * (ey - ay) * raster.bps
  <2>1. n \in Nat
    BY <1>1, <1>4
  <2> HIDE DEF n
  <2>2. U64(n) \in Nat
    BY <2>1, WidthAssumption, WrapIsSmaller DEF U64
  <2>3. QED
    BY <1>3, <2>2 DEF n
<1>6. r.x_off + r.x_size <= ax + (ex - ax) /\ r.y_off + r.y_size <= ay + (ey - ay)
  BY <1>1, <1>2
<1>7. QED
  BY <1>2, <1>3, <1>4, <1>5, <1>6

(* Where it can be counted, nothing wraps, ...                             *)
LEMMA StagingCounts ==
  ASSUME NEW r, Readable(r), RoomCounts(r)
  PROVE  /\ Staging(r).band = Staging(r).x_size * Staging(r).y_size * raster.bps
         /\ StagingRoom(r) = Staging(r).x_size * Staging(r).y_size * raster.bps * Len(r.bands)
<1> DEFINE w == Staging(r).x_size
           l == Staging(r).y_size
           b == raster.bps
           n == Len(r.bands)
<1>1. w \in Nat /\ l \in Nat /\ b \in Nat /\ n \in Nat \ {0} /\ Staging(r).band = U64(w * l * b)
  BY StagingFacts, ReadableFacts
<1>2. w * l * b * n <= U64Max
  BY DEF RoomCounts
<1> DEFINE m == w * l * b
<1> HIDE DEF w, l, b, n
<1>3. m \in Nat
  BY <1>1
<1> HIDE DEF m
<1>4. m * n \in Nat /\ m <= m * n
  <2>1. 1 * m <= n * m
    BY <1>1, <1>3, ProductMonotone
  <2>2. n * m = m * n
    BY <1>1, <1>3
  <2>3. QED
    BY <1>1, <1>3, <2>1, <2>2
<1>5. m * n <= U64Max
  BY <1>2 DEF m
<1>6. m \in 0..U64Max /\ m * n \in 0..U64Max
  BY <1>3, <1>4, <1>5, WidthAssumption
<1>7. U64(m) = m /\ U64(m * n) = m * n
  BY <1>6, WidthAssumption, NoWrap DEF U64
<1>8. Staging(r).band = m
  BY <1>1, <1>7 DEF m
<1>9. StagingRoom(r) = m * n
  BY <1>7, <1>8 DEF StagingRoom, n
<1>10. QED
  BY <1>8, <1>9 DEF m, w, l, b, n

(* ... a place is that of a packed buffer, ...                             *)
LEMMA StagingPacked ==
  ASSUME NEW r, Readable(r), RoomCounts(r), NEW i \in Int, NEW y \in Int, NEW x \in Int
  PROVE  Target(Staging(r), i, y, x)
           = Packed(i - 1, y, x, Staging(r).y_size, Staging(r).x_size, raster.bps)
<1>1. /\ Staging(r).data = 0 /\ Staging(r).pixel = raster.bps
      /\ Staging(r).line = raster.bps * Staging(r).x_size
      /\ Staging(r).band = Staging(r).x_size * Staging(r).y_size * raster.bps
      /\ Staging(r).x_size \in Int /\ Staging(r).y_size \in Int /\ raster.bps \in Int
  BY StagingFacts, StagingCounts, ReadableFacts
<1> DEFINE s == Staging(r)
<1>2. Target(s, i, y, x) = s.data + (i - 1) * s.band + y * s.line + x * s.pixel
  BY DEF Target
<1> HIDE DEF s
<1>3. (i - 1) * s.band + y * s.line + x * s.pixel
        = Packed(i - 1, y, x, s.y_size, s.x_size, raster.bps)
  BY <1>1 DEF Packed, s
<1>4. (i - 1) * s.band \in Int /\ y * s.line \in Int /\ x * s.pixel \in Int
  <2>1. s.band \in Int /\ s.line \in Int /\ s.pixel \in Int
    BY <1>1 DEF s
  <2>2. QED
    BY <2>1
<1>5. s.data = 0
  BY <1>1 DEF s
<1>6. QED
  BY <1>2, <1>3, <1>4, <1>5 DEF s

(* ... so the samples of a staging buffer are apart ...                    *)
LEMMA StagingApart ==
  ASSUME NEW r, Readable(r), RoomCounts(r), job = Staging(r)
  PROVE  Apart
<1>0. PICK w, l, b : w = Staging(r).x_size /\ l = Staging(r).y_size /\ b = raster.bps
  OBVIOUS
<1>1. w \in Nat /\ l \in Nat /\ b \in Nat \ {0} /\ \A i \in DOMAIN r.bands : i \in Int
  <2>1. DOMAIN r.bands = 1..Len(r.bands) /\ Len(r.bands) \in Nat
    BY ReadableFacts
  <2>2. QED
    BY <1>0, <2>1, StagingFacts, ReadableFacts
<1>2. job.bands = r.bands /\ job.x_size = w /\ job.y_size = l
  BY <1>0 DEF Staging
<1>3. ASSUME NEW i, NEW y, NEW x, InWindow(i, y, x)
      PROVE  /\ i \in Int /\ y \in 0..(l - 1) /\ x \in 0..(w - 1)
             /\ PlaceAt(i, y, x) = Packed(i - 1, y, x, l, w, b)
  <2>1. i \in Int /\ y \in 0..(l - 1) /\ x \in 0..(w - 1)
    BY <1>1, <1>2, <1>3 DEF InWindow
  <2>2. y \in Int /\ x \in Int
    BY <1>1, <2>1
  <2>3. PlaceAt(i, y, x) = Target(Staging(r), i, y, x)
    BY TargetsOfJob
  <2>4. QED
    BY <1>0, <2>1, <2>2, <2>3, StagingPacked
<1>4. ASSUME NEW i, NEW j, NEW y, NEW v, NEW x, NEW u,
             InWindow(i, y, x), InWindow(j, v, u), PlaceAt(i, y, x) = PlaceAt(j, v, u)
      PROVE  i = j /\ y = v /\ x = u
  <2>1. /\ i \in Int /\ y \in 0..(l - 1) /\ x \in 0..(w - 1)
        /\ j \in Int /\ v \in 0..(l - 1) /\ u \in 0..(w - 1)
    BY <1>3, <1>4
  <2>2. Packed(i - 1, y, x, l, w, b) = Packed(j - 1, v, u, l, w, b)
    BY <1>3, <1>4
  <2>3. \A a, c \in Int : \A n, m \in 0..(l - 1) : \A p, q \in 0..(w - 1) :
          Packed(a, n, p, l, w, b) = Packed(c, m, q, l, w, b) => a = c /\ n = m /\ p = q
    BY <1>1, PackedUnique, Zenon
  <2>4. i - 1 \in Int /\ j - 1 \in Int
    BY <2>1
  <2>5. i - 1 = j - 1 /\ y = v /\ x = u
    BY <2>1, <2>2, <2>3, <2>4
  <2>6. QED
    BY <2>1, <2>5
<1>5. QED
  BY <1>4 DEF Apart

(* ... and inside it.                                                      *)
LEMMA StagingInside ==
  ASSUME NEW r, Readable(r), RoomCounts(r), NEW o, Hit(Staging(r), o)
  PROVE  o \in Nat /\ o + raster.bps <= StagingRoom(r)
<1> DEFINE w == Staging(r).x_size
           l == Staging(r).y_size
           b == raster.bps
           n == Len(r.bands)
<1>1. w \in Nat /\ l \in Nat /\ b \in Nat \ {0} /\ n \in Nat /\ DOMAIN r.bands = 1..n
  BY StagingFacts, ReadableFacts
<1>2. PICK i, y, x : Within(Staging(r), i, y, x) /\ o = Target(Staging(r), i, y, x)
  BY DEF Hit
<1>3. Staging(r).bands = r.bands
  BY DEF Staging
<1>4. i \in DOMAIN r.bands /\ y \in 0..(l - 1) /\ x \in 0..(w - 1)
  BY <1>2, <1>3 DEF Within
<1>5. StagingRoom(r) = w * l * b * n
  BY StagingCounts
<1> HIDE DEF w, l, b, n
<1>6. i \in Int /\ i - 1 \in 0..(n - 1) /\ y \in Int /\ x \in Int
  BY <1>1, <1>4
<1>7. o = Packed(i - 1, y, x, l, w, b)
  BY <1>2, <1>6, StagingPacked DEF w, l, b
<1>8. Packed(i - 1, y, x, l, w, b) \in Nat /\ Packed(i - 1, y, x, l, w, b) + b <= (w * l * b) * n
  BY <1>1, <1>4, <1>6, PackedInside
<1>9. QED
  BY <1>5, <1>7, <1>8 DEF b

(* The caller's buffer.  Its positions may have been given one place twice. *)
Distinct(r) == \A p, q \in Positions(r) : Place(r, p) = Place(r, q) => p = q

LEMMA PlaceIsNat ==
  ASSUME NEW r, Readable(r), NEW p \in Positions(r)
  PROVE  /\ Place(r, p) \in Nat
         /\ p = <<p[1], p[2], p[3]>> /\ p[1] \in DOMAIN r.bands
         /\ p[2] \in 0..(r.buf_y - 1) /\ p[3] \in 0..(r.buf_x - 1)
<1>1. /\ p = <<p[1], p[2], p[3]>>
      /\ p[1] \in 1..Len(r.bands) /\ p[2] \in 0..(r.buf_y - 1) /\ p[3] \in 0..(r.buf_x - 1)
  BY DEF Positions
<1>2. /\ r.pixel \in Nat /\ r.line \in Nat /\ r.band \in Int /\ Len(r.bands) \in Nat
      /\ DOMAIN r.bands = 1..Len(r.bands) /\ (Len(r.bands) > 1 => r.band > 0)
      /\ r.buf_x \in Nat /\ r.buf_y \in Nat
  BY ReadableFacts
<1> DEFINE i == p[1] - 1
           y == p[2]
           x == p[3]
<1>3. i \in Nat /\ y \in Nat /\ x \in Nat
  BY <1>1, <1>2
<1>4. i * r.band \in Nat
  <2>1. i = 0 \/ r.band \in Nat
    BY <1>1, <1>2
  <2> HIDE DEF i
  <2>2. CASE i = 0
    <3>1. 0 * r.band = 0
      BY <1>2
    <3>2. QED
      BY <2>2, <3>1
  <2>3. CASE r.band \in Nat
    <3>1. \A a, c \in Nat : a * c \in Nat
      OBVIOUS
    <3>2. QED
      BY <1>3, <2>3, <3>1
  <2>4. QED
    BY <2>1, <2>2, <2>3
<1>5. y * r.line \in Nat /\ x * r.pixel \in Nat
  <2>1. \A a, c \in Nat : a * c \in Nat
    OBVIOUS
  <2>2. QED
    BY <1>2, <1>3, <2>1
<1>6. Place(r, p) = i * r.band + y * r.line + x * r.pixel
  BY DEF Place
<1> HIDE DEF i, y, x
<1>7. Place(r, p) \in Nat
  BY <1>4, <1>5, <1>6
<1>8. QED
  BY <1>1, <1>2, <1>7

(* A direct read puts the window there, position by position.              *)
LEMMA StraightPlaces ==
  ASSUME NEW r, Readable(r), Fast(r), NEW i, NEW y, NEW x
  PROVE  /\ Within(Straight(r), i, y, x) <=> <<i, y, x>> \in Positions(r)
         /\ Within(Straight(r), i, y, x) => Target(Straight(r), i, y, x) = Place(r, <<i, y, x>>)
<1>1. DOMAIN r.bands = 1..Len(r.bands) /\ r.x_size = r.buf_x /\ r.y_size = r.buf_y
  BY ReadableFacts DEF Fast, SameSize
<1>2. /\ Straight(r).bands = r.bands /\ Straight(r).y_size = r.y_size /\ Straight(r).x_size = r.x_size
      /\ Straight(r).data = 0 /\ Straight(r).band = r.band /\ Straight(r).line = r.line
      /\ Straight(r).pixel = r.pixel
  BY DEF Straight
<1>3. Within(Straight(r), i, y, x) <=> <<i, y, x>> \in Positions(r)
  BY <1>1, <1>2 DEF Within, Positions
<1>4. ASSUME Within(Straight(r), i, y, x) PROVE Target(Straight(r), i, y, x) = Place(r, <<i, y, x>>)
  <2>1. Place(r, <<i, y, x>>) = (i - 1) * r.band + y * r.line + x * r.pixel
    BY DEF Place
  <2>2. Target(Straight(r), i, y, x) = 0 + (i - 1) * r.band + y * r.line + x * r.pixel
    BY <1>2 DEF Target
  <2>3. i \in Int /\ y \in Int /\ x \in Int /\ r.band \in Int /\ r.line \in Int /\ r.pixel \in Int
    <3>1. /\ r.band \in Int /\ r.line \in Int /\ r.pixel \in Int /\ Len(r.bands) \in Int
          /\ r.buf_x \in Int /\ r.buf_y \in Int
      BY ReadableFacts
    <3>2. i \in 1..Len(r.bands) /\ y \in 0..(r.buf_y - 1) /\ x \in 0..(r.buf_x - 1)
      BY <1>1, <1>2, <1>4 DEF Within
    <3>3. QED
      BY <3>1, <3>2
  <2>4. QED
    BY <2>1, <2>2, <2>3
<1>5. QED
  BY <1>3, <1>4

LEMMA StraightApart ==
  ASSUME NEW r, Readable(r), Fast(r), Distinct(r), job = Straight(r)
  PROVE  Apart
<1>1. ASSUME NEW i, NEW j, NEW y, NEW v, NEW x, NEW u,
             InWindow(i, y, x), InWindow(j, v, u), PlaceAt(i, y, x) = PlaceAt(j, v, u)
      PROVE  i = j /\ y = v /\ x = u
  <2>1. /\ Within(Straight(r), i, y, x) /\ Within(Straight(r), j, v, u)
        /\ Target(Straight(r), i, y, x) = Target(Straight(r), j, v, u)
    BY <1>1, TargetsOfJob
  <2>2. /\ <<i, y, x>> \in Positions(r) /\ <<j, v, u>> \in Positions(r)
        /\ Place(r, <<i, y, x>>) = Place(r, <<j, v, u>>)
    BY <2>1, StraightPlaces
  <2>3. <<i, y, x>> = <<j, v, u>>
    BY <2>2 DEF Distinct
  <2>4. QED
    BY <2>3
<1>2. QED
  BY <1>1 DEF Apart

-----------------------------------------------------------------------------
(* Resampling.                                                             *)

(* The quotient is the one number whose multiple is that near below.       *)
LEMMA QuotientIs ==
  ASSUME NEW d \in Nat \ {0}, NEW q \in Int, NEW a \in Int, q * d <= a, a < q * d + d
  PROVE  a \div d = q
<1> DEFINE p == a \div d
           e == a - p * d
           f == a - q * d
<1>1. p \in Int /\ p * d \in Int /\ p * d <= a /\ a < p * d + d /\ q * d \in Int
  OBVIOUS
<1> HIDE DEF p
<1>2. e \in 0..(d - 1) /\ f \in 0..(d - 1) /\ p * d + e = q * d + f
  BY <1>1
<1> HIDE DEF e, f
<1>3. p = q
  BY <1>1, <1>2, DigitsUnique
<1>4. QED
  BY <1>3 DEF p

LEMMA QuotientParts ==
  ASSUME NEW d \in Nat \ {0}, NEW a \in Int
  PROVE  a \div d \in Int /\ (a \div d) * d <= a /\ a < (a \div d) * d + d
OBVIOUS

(* Whole multiples of the divisor go through it.                           *)
LEMMA QuotientShift ==
  ASSUME NEW d \in Nat \ {0}, NEW a \in Int, NEW c \in Int
  PROVE  (a - d * c) \div d = a \div d - c
<1> DEFINE q == a \div d
<1>1. q \in Int /\ q * d <= a /\ a < q * d + d
  BY QuotientParts
<1> HIDE DEF q
<1>2. (q - c) * d = q * d - d * c /\ q * d \in Int /\ d * c \in Int
  BY <1>1
<1>3. (q - c) * d <= a - d * c /\ a - d * c < (q - c) * d + d /\ q - c \in Int /\ a - d * c \in Int
  BY <1>1, <1>2
<1> DEFINE s == q - c
           m == a - d * c
<1> HIDE DEF s, m
<1>4. s \in Int /\ m \in Int /\ s * d <= m /\ m < s * d + d
  BY <1>3 DEF s, m
<1>5. m \div d = s
  BY <1>4, QuotientIs
<1>6. QED
  BY <1>5 DEF s, m, q

(* Moving the window moves the sample that is taken.                       *)
LEMMA NearestMoves ==
  \A copy, float \in BOOLEAN : \A off, size, f, fs, i, c, to, g \in Int : \A n \in Nat \ {0} :
    to = off - c /\ (float => g = f - 2 * c) /\ (~float => g = f) =>
      Nearest(copy, float, to, size, g, fs, n, i)
        = Nearest(copy, float, off, size, f, fs, n, i) - c
<1> TAKE copy, float \in BOOLEAN
<1> TAKE off, size, f, fs, i, c, to, g \in Int
<1> TAKE n \in Nat \ {0}
<1> HAVE to = off - c /\ (float => g = f - 2 * c) /\ (~float => g = f)
<1>1. CASE copy
  BY <1>1 DEF Nearest
<1> DEFINE d == 4 * n
           s == (2 * i + 1) * fs
           z == (2 * i + 1) * 2 * size
<1>2. d \in Nat \ {0} /\ s \in Int /\ z \in Int
  OBVIOUS
<1>3. CASE ~copy /\ float
  <2> DEFINE a == 2 * n * f + s
  <2>1. 2 * n * (f - 2 * c) + s = a - d * c
    <3>1. 2 * n * (f - 2 * c) = 2 * n * f - (4 * n) * c
      OBVIOUS
    <3>2. 2 * n * f \in Int /\ (4 * n) * c \in Int
      OBVIOUS
    <3> HIDE DEF s
    <3>3. QED
      BY <1>2, <3>1, <3>2
  <2>2. a \in Int
    BY <1>2
  <2>3. /\ Nearest(copy, float, to, size, g, fs, n, i)
             = (2 * n * (f - 2 * c) + s) \div d
        /\ Nearest(copy, float, off, size, f, fs, n, i) = a \div d
    BY <1>3 DEF Nearest
  <2> HIDE DEF a, d, s
  <2>4. (a - d * c) \div d = a \div d - c
    BY <1>2, <2>2, QuotientShift
  <2>5. QED
    BY <2>1, <2>3, <2>4
<1>4. CASE ~copy /\ ~float
  <2> DEFINE a == d * off + z
  <2>1. d * (off - c) + z = a - d * c
    <3>1. d * (off - c) = d * off - d * c /\ d * off \in Int /\ d * c \in Int
      OBVIOUS
    <3> HIDE DEF d, z
    <3>2. QED
      BY <1>2, <3>1
  <2>2. a \in Int
    BY <1>2
  <2>3. /\ Nearest(copy, float, to, size, g, fs, n, i)
             = (d * (off - c) + z) \div d
        /\ Nearest(copy, float, off, size, f, fs, n, i) = a \div d
    BY <1>4 DEF Nearest
  <2> HIDE DEF a, d, z
  <2>4. (a - d * c) \div d = a \div d - c
    BY <1>2, <2>2, QuotientShift
  <2>5. QED
    BY <2>1, <2>3, <2>4
<1>5. QED
  BY <1>1, <1>3, <1>4

(* Where a number lies, its quotient lies.                                 *)
LEMMA QuotientWithin ==
  ASSUME NEW d \in Nat \ {0}, NEW a \in Int, NEW b \in Int, NEW e \in Int, d * b <= a, a < d * e
  PROVE  b <= a \div d /\ a \div d < e /\ a \div d \in Int
<1> DEFINE q == a \div d
<1>1. q \in Int /\ q * d <= a /\ a < q * d + d
  BY QuotientParts
<1> HIDE DEF q
<1>2. d * b = b * d /\ d * e = e * d /\ (q + 1) * d = q * d + d
  BY <1>1
<1>3. b * d \in Int /\ e * d \in Int /\ q * d \in Int
  BY <1>1
<1>4. ~(q + 1 <= b)
  <2> SUFFICES ASSUME q + 1 <= b PROVE FALSE
    OBVIOUS
  <2>1. (q + 1) * d <= b * d
    BY <1>1, ProductMonotone
  <2>2. QED
    BY <1>1, <1>2, <1>3, <2>1
<1>5. ~(e <= q)
  <2> SUFFICES ASSUME e <= q PROVE FALSE
    OBVIOUS
  <2>1. e * d <= q * d
    BY <1>1, ProductMonotone
  <2>2. QED
    BY <1>1, <1>2, <1>3, <2>1
<1>6. QED
  BY <1>1, <1>4, <1>5 DEF q

(* The sample taken is one of the window, and of a floating window that    *)
(* the window holds.                                                       *)
LEMMA NearestInside ==
  ASSUME NEW copy \in BOOLEAN, NEW float \in BOOLEAN, NEW off \in Nat, NEW size \in Nat \ {0},
         NEW f \in Int, NEW fs \in Int, NEW n \in Nat \ {0}, NEW i \in 0..(n - 1),
         copy => n = size, float /\ ~copy => fs > 0 /\ 2 * off <= f /\ f + fs <= 2 * (off + size)
  PROVE  /\ Nearest(copy, float, off, size, f, fs, n, i) \in Int
         /\ off <= Nearest(copy, float, off, size, f, fs, n, i)
         /\ Nearest(copy, float, off, size, f, fs, n, i) < off + size
<1>1. CASE copy
  BY <1>1 DEF Nearest
<1> DEFINE d == 4 * n
           g == 2 * i + 1
<1>2. d \in Nat \ {0} /\ g \in Nat \ {0} /\ g + 1 <= 2 * n
  OBVIOUS
<1>3. \A t \in Nat \ {0} : g * t \in Nat \ {0} /\ g * t < 2 * n * t
  <2> SUFFICES ASSUME NEW t \in Nat \ {0} PROVE g * t \in Nat \ {0} /\ g * t < 2 * n * t
    OBVIOUS
  <2> DEFINE m == 2 * n
  <2>1. m \in Nat
    OBVIOUS
  <2> HIDE DEF m, g
  <2>2. (g + 1) * t <= m * t
    BY <1>2, <2>1, ProductMonotone DEF m
  <2>3. (g + 1) * t = g * t + t /\ g * t \in Nat \ {0} /\ m * t \in Nat
    BY <1>2, <2>1
  <2>4. g * t < m * t
    BY <2>2, <2>3
  <2>5. QED
    BY <2>3, <2>4 DEF m
<1>4. CASE ~copy /\ float
  <2> DEFINE a == 2 * n * f + g * fs
             h == 2 * n
  <2>1. fs \in Nat \ {0} /\ h \in Nat
    BY <1>4
  <2>2. g * fs \in Nat \ {0} /\ g * fs < h * fs
    BY <1>3, <2>1
  <2>3. (2 * off) * h <= f * h /\ (f + fs) * h <= (2 * (off + size)) * h
    BY <1>4, <2>1, ProductMonotone
  <2>4. /\ (2 * off) * h = d * off /\ (2 * (off + size)) * h = d * (off + size)
        /\ (f + fs) * h = h * f + h * fs /\ f * h = h * f
    OBVIOUS
  <2>5. Nearest(copy, float, off, size, f, fs, n, i) = a \div d
    BY <1>4 DEF Nearest
  <2>6. a = h * f + g * fs
    OBVIOUS
  <2>7. h * f \in Int /\ h * fs \in Int /\ d * off \in Int /\ d * (off + size) \in Int
    BY <1>2, <2>1
  <2> HIDE DEF a, h, d, g
  <2>8. a \in Int /\ d * off <= a /\ a < d * (off + size)
    BY <2>2, <2>3, <2>4, <2>6, <2>7
  <2>9. QED
    BY <1>2, <2>5, <2>8, QuotientWithin
<1>5. CASE ~copy /\ ~float
  <2> DEFINE a == d * off + g * 2 * size
             h == 2 * size
  <2>1. h \in Nat \ {0} /\ g * h \in Nat \ {0} /\ g * h < 2 * n * h
    <3>1. h \in Nat \ {0}
      OBVIOUS
    <3> HIDE DEF h, g
    <3>2. QED
      BY <1>3, <3>1
  <2>2. 2 * n * h = d * size /\ d * (off + size) = d * off + d * size /\ g * 2 * size = g * h
    OBVIOUS
  <2>3. Nearest(copy, float, off, size, f, fs, n, i) = a \div d
    BY <1>5 DEF Nearest
  <2>4. a = d * off + g * h /\ d * off \in Int /\ d * size \in Int
    BY <2>2
  <2> HIDE DEF a, h, d, g
  <2>5. a \in Int /\ d * off <= a /\ a < d * (off + size)
    BY <2>1, <2>2, <2>4
  <2>6. QED
    BY <1>2, <2>3, <2>5, QuotientWithin
<1>6. QED
  BY <1>1, <1>4, <1>5

(* The floating window of a request lies in its window, as GDAL makes it.  *)
FloatInside(r) ==
  r.float /\ ~SameSize(r) =>
    /\ r.fxs > 0 /\ 2 * r.x_off <= r.fx /\ r.fx + r.fxs <= 2 * (r.x_off + r.x_size)
    /\ r.fys > 0 /\ 2 * r.y_off <= r.fy /\ r.fy + r.fys <= 2 * (r.y_off + r.y_size)

(* The sample that a position asks for is one of the window.               *)
LEMMA RowInside ==
  ASSUME NEW r, Readable(r), FloatInside(r)
  PROVE  /\ \A j \in 0..(r.buf_y - 1) :
              Row(r, j) \in Int /\ r.y_off <= Row(r, j) /\ Row(r, j) < r.y_off + r.y_size
         /\ \A i \in 0..(r.buf_x - 1) :
              Column(r, i) \in Int /\ r.x_off <= Column(r, i) /\ Column(r, i) < r.x_off + r.x_size
<1>1. /\ r.y_off \in Nat /\ r.y_size \in Nat \ {0} /\ r.buf_y \in Nat \ {0} /\ r.fy \in Int /\ r.fys \in Int
      /\ r.x_off \in Nat /\ r.x_size \in Nat \ {0} /\ r.buf_x \in Nat \ {0} /\ r.fx \in Int /\ r.fxs \in Int
      /\ r.float \in BOOLEAN /\ SameSize(r) \in BOOLEAN
  BY ReadableFacts DEF SameSize
<1>2. SameSize(r) => r.buf_x = r.x_size /\ r.buf_y = r.y_size
  BY DEF SameSize
<1>3. ASSUME NEW j \in 0..(r.buf_y - 1)
      PROVE  Row(r, j) \in Int /\ r.y_off <= Row(r, j) /\ Row(r, j) < r.y_off + r.y_size
  <2>1. r.float /\ ~SameSize(r) => r.fys > 0 /\ 2 * r.y_off <= r.fy /\ r.fy + r.fys <= 2 * (r.y_off + r.y_size)
    BY DEF FloatInside
  <2>2. QED
    BY <1>1, <1>2, <2>1, NearestInside, ZenonT(30) DEF Row
<1>4. ASSUME NEW i \in 0..(r.buf_x - 1)
      PROVE  Column(r, i) \in Int /\ r.x_off <= Column(r, i) /\ Column(r, i) < r.x_off + r.x_size
  <2>1. r.float /\ ~SameSize(r) => r.fxs > 0 /\ 2 * r.x_off <= r.fx /\ r.fx + r.fxs <= 2 * (r.x_off + r.x_size)
    BY DEF FloatInside
  <2>2. QED
    BY <1>1, <1>2, <2>1, NearestInside, ZenonT(30) DEF Column
<1>5. QED
  BY <1>3, <1>4

(* In the staging buffer it is where the window was moved to.              *)
LEMMA RowMoves ==
  ASSUME NEW r, Readable(r)
  PROVE  /\ \A j \in Int : Row(Moved(r), j) = Row(r, j) - Staging(r).y_off
         /\ \A i \in Int : Column(Moved(r), i) = Column(r, i) - Staging(r).x_off
<1>1. /\ r.y_off \in Int /\ r.y_size \in Int /\ r.buf_y \in Nat \ {0} /\ r.fy \in Int /\ r.fys \in Int
      /\ r.x_off \in Int /\ r.x_size \in Int /\ r.buf_x \in Nat \ {0} /\ r.fx \in Int /\ r.fxs \in Int
      /\ r.float \in BOOLEAN /\ SameSize(r) \in BOOLEAN
  BY ReadableFacts DEF SameSize
<1>2. PICK ax, ay : ax = Staging(r).x_off /\ ay = Staging(r).y_off
  OBVIOUS
<1>3. ax \in Int /\ ay \in Int
  BY <1>2, StagingFacts
<1>4. PICK m : m = Moved(r)
  OBVIOUS
<1>5. /\ m.x_off = r.x_off - ax /\ m.y_off = r.y_off - ay
      /\ m.fx = (IF r.float THEN r.fx - 2 * ax ELSE r.fx)
      /\ m.fy = (IF r.float THEN r.fy - 2 * ay ELSE r.fy)
      /\ m.fxs = r.fxs /\ m.fys = r.fys /\ m.x_size = r.x_size /\ m.y_size = r.y_size
      /\ m.buf_x = r.buf_x /\ m.buf_y = r.buf_y /\ m.float = r.float
  <2>1. r \in RequestShape
    BY DEF Readable
  <2>2. m = [r EXCEPT !.x_off = r.x_off - ax, !.y_off = r.y_off - ay,
                      !.fx = IF r.float THEN r.fx - 2 * ax ELSE r.fx,
                      !.fy = IF r.float THEN r.fy - 2 * ay ELSE r.fy]
    BY <1>2, <1>4 DEF Moved
  <2>3. QED
    BY <2>1, <2>2 DEF RequestShape
<1>6. SameSize(m) = SameSize(r)
  BY <1>5 DEF SameSize
<1>7. ASSUME NEW j \in Int PROVE Row(m, j) = Row(r, j) - ay
  <2>1. PICK to, g : to = m.y_off /\ g = m.fy
    OBVIOUS
  <2>2. to = r.y_off - ay /\ g = IF r.float THEN r.fy - 2 * ay ELSE r.fy
    BY <1>5, <2>1
  <2>3. Row(m, j) = Nearest(SameSize(r), r.float, to, r.y_size, g, r.fys, r.buf_y, j)
    BY <1>5, <1>6, <2>1 DEF Row
  <2>4. Row(r, j) = Nearest(SameSize(r), r.float, r.y_off, r.y_size, r.fy, r.fys, r.buf_y, j)
    BY DEF Row
  <2>5. Nearest(SameSize(r), r.float, to, r.y_size, g, r.fys, r.buf_y, j)
          = Nearest(SameSize(r), r.float, r.y_off, r.y_size, r.fy, r.fys, r.buf_y, j) - ay
    <3>1. PICK copy, float : copy = SameSize(r) /\ float = r.float
      OBVIOUS
    <3>2. PICK off, size, f, fs, n : /\ off = r.y_off /\ size = r.y_size /\ f = r.fy /\ fs = r.fys
                                     /\ n = r.buf_y
      OBVIOUS
    <3>3. /\ copy \in BOOLEAN /\ float \in BOOLEAN /\ off \in Int /\ size \in Int
          /\ f \in Int /\ fs \in Int /\ n \in Nat \ {0} /\ ay \in Int
      BY <1>1, <1>3, <3>1, <3>2
    <3>4. to = off - ay /\ (float => g = f - 2 * ay) /\ (~float => g = f) /\ to \in Int /\ g \in Int
      BY <2>2, <3>1, <3>2, <3>3
    <3>5. Nearest(copy, float, to, size, g, fs, n, j) = Nearest(copy, float, off, size, f, fs, n, j) - ay
      BY <3>3, <3>4, NearestMoves
    <3>6. QED
      BY <3>1, <3>2, <3>5
  <2>6. QED
    BY <2>3, <2>4, <2>5
<1>8. ASSUME NEW i \in Int PROVE Column(m, i) = Column(r, i) - ax
  <2>1. PICK to, g : to = m.x_off /\ g = m.fx
    OBVIOUS
  <2>2. to = r.x_off - ax /\ g = IF r.float THEN r.fx - 2 * ax ELSE r.fx
    BY <1>5, <2>1
  <2>3. Column(m, i) = Nearest(SameSize(r), r.float, to, r.x_size, g, r.fxs, r.buf_x, i)
    BY <1>5, <1>6, <2>1 DEF Column
  <2>4. Column(r, i) = Nearest(SameSize(r), r.float, r.x_off, r.x_size, r.fx, r.fxs, r.buf_x, i)
    BY DEF Column
  <2>5. Nearest(SameSize(r), r.float, to, r.x_size, g, r.fxs, r.buf_x, i)
          = Nearest(SameSize(r), r.float, r.x_off, r.x_size, r.fx, r.fxs, r.buf_x, i) - ax
    <3>1. PICK copy, float : copy = SameSize(r) /\ float = r.float
      OBVIOUS
    <3>2. PICK off, size, f, fs, n : /\ off = r.x_off /\ size = r.x_size /\ f = r.fx /\ fs = r.fxs
                                     /\ n = r.buf_x
      OBVIOUS
    <3>3. /\ copy \in BOOLEAN /\ float \in BOOLEAN /\ off \in Int /\ size \in Int
          /\ f \in Int /\ fs \in Int /\ n \in Nat \ {0} /\ ax \in Int
      BY <1>1, <1>3, <3>1, <3>2
    <3>4. to = off - ax /\ (float => g = f - 2 * ax) /\ (~float => g = f) /\ to \in Int /\ g \in Int
      BY <2>2, <3>1, <3>2, <3>3
    <3>5. Nearest(copy, float, to, size, g, fs, n, i) = Nearest(copy, float, off, size, f, fs, n, i) - ax
      BY <3>3, <3>4, NearestMoves
    <3>6. QED
      BY <3>1, <3>2, <3>5
  <2>6. QED
    BY <2>3, <2>4, <2>5
<1>9. QED
  BY <1>2, <1>4, <1>7, <1>8

(* So, when the staging buffer has its window, every position finds its    *)
(* sample there.                                                           *)
LEMMA StagedSample ==
  ASSUME NEW r, Readable(r), FloatInside(r), Got(Staging(r)), NEW p \in Positions(r),
         NEW o, o = (p[1] - 1) * Staging(r).band + Row(Moved(r), p[2]) * Staging(r).line
                    + Column(Moved(r), p[3]) * Staging(r).pixel
  PROVE  /\ o \in DOMAIN dst
         /\ dst[o] = SampleAt(1, raster, r.bands[p[1]], Row(r, p[2]), Column(r, p[3]))
<1>1. PICK i, y, x : i = p[1] /\ y = Row(r, p[2]) - Staging(r).y_off /\ x = Column(r, p[3]) - Staging(r).x_off
  OBVIOUS
<1>2. i \in DOMAIN r.bands /\ p[2] \in 0..(r.buf_y - 1) /\ p[3] \in 0..(r.buf_x - 1)
  BY <1>1, PlaceIsNat
<1>3. /\ Row(r, p[2]) \in Int /\ r.y_off <= Row(r, p[2]) /\ Row(r, p[2]) < r.y_off + r.y_size
      /\ Column(r, p[3]) \in Int /\ r.x_off <= Column(r, p[3]) /\ Column(r, p[3]) < r.x_off + r.x_size
  BY <1>2, RowInside
<1>4. PICK s : s = Staging(r)
  OBVIOUS
<1>5. /\ s.x_off \in Nat /\ s.x_off <= r.x_off
      /\ s.x_size \in Nat \ {0} /\ r.x_off + r.x_size <= s.x_off + s.x_size
      /\ s.y_off \in Nat /\ s.y_off <= r.y_off
      /\ s.y_size \in Nat \ {0} /\ r.y_off + r.y_size <= s.y_off + s.y_size
      /\ s.data = 0 /\ s.pixel \in Int /\ s.line \in Int /\ s.band \in Int
  <2>1. raster.bps \in Int
    BY ReadableFacts
  <2>2. s.pixel = raster.bps /\ s.line = raster.bps * s.x_size /\ s.x_size \in Int
    BY <1>4, StagingFacts
  <2>3. s.line \in Int /\ s.pixel \in Int
    BY <2>1, <2>2
  <2>4. QED
    BY <1>4, <2>3, StagingFacts
<1>6. r.x_off \in Nat /\ r.x_size \in Nat /\ r.y_off \in Nat /\ r.y_size \in Nat
      /\ Len(r.bands) \in Nat /\ DOMAIN r.bands = 1..Len(r.bands) /\ r.buf_x \in Nat /\ r.buf_y \in Nat
  BY ReadableFacts
<1>7. y \in 0..(s.y_size - 1) /\ x \in 0..(s.x_size - 1) /\ i \in Int
  <2>1. \A a, n, b, c \in Nat, v \in Int :
          b <= v /\ v < b + c /\ a <= b /\ b + c <= a + n => v - a \in 0..(n - 1)
    OBVIOUS
  <2>2. y \in 0..(s.y_size - 1)
    BY <1>1, <1>3, <1>4, <1>5, <1>6, <2>1
  <2>3. x \in 0..(s.x_size - 1)
    BY <1>1, <1>3, <1>4, <1>5, <1>6, <2>1
  <2>4. i \in Int
    BY <1>2, <1>6
  <2>5. QED
    BY <2>2, <2>3, <2>4
<1>8. s.bands = r.bands /\ s.file = 1 /\ s.h = raster
  BY <1>4 DEF Staging
<1>9. Within(s, i, y, x)
  BY <1>2, <1>7, <1>8 DEF Within
<1>10. /\ Target(s, i, y, x) \in DOMAIN dst
       /\ dst[Target(s, i, y, x)] = SampleAt(1, raster, r.bands[i], s.y_off + y, s.x_off + x)
  BY <1>4, <1>8, <1>9 DEF Got
<1>11. s.y_off + y = Row(r, p[2]) /\ s.x_off + x = Column(r, p[3])
  BY <1>1, <1>3, <1>4, <1>5
<1>12. o = Target(s, i, y, x)
  <2>1. p[2] \in Int /\ p[3] \in Int
    BY <1>2, <1>6
  <2>2. Row(Moved(r), p[2]) = y /\ Column(Moved(r), p[3]) = x
    BY <1>1, <2>1, RowMoves
  <2>3. o = (i - 1) * s.band + y * s.line + x * s.pixel
    BY <1>1, <1>4, <2>2
  <2>4. Target(s, i, y, x) = 0 + (i - 1) * s.band + y * s.line + x * s.pixel
    BY <1>5 DEF Target
  <2>5. (i - 1) * s.band \in Int /\ y * s.line \in Int /\ x * s.pixel \in Int
    BY <1>5, <1>7
  <2>6. QED
    BY <2>3, <2>4, <2>5
<1>13. QED
  BY <1>1, <1>10, <1>11, <1>12

-----------------------------------------------------------------------------
(* What the driver answers.                                                *)

(* A read that can be promised: the edges of the tiles fit in int, the     *)
(* caller gave every position a place of its own where the read is direct, *)
(* and the staging buffer can be counted where it is not.                  *)
ReadFits(r) ==
  /\ EdgesFit(raster)
  /\ Fast(r) => Distinct(r)
  /\ ~Fast(r) => RoomCounts(r) /\ FloatInside(r)

Wanted(r) == {Place(r, p) : p \in Positions(r)}

Answer(r) ==
  Filled(r, [p \in Positions(r) |->
    Typed(r, SampleAt(1, raster, r.bands[p[1]], Row(r, p[2]), Column(r, p[3])))])

(* The places of a block.                                                  *)
Cells(h) == {(j * h.tw + i) * h.bps : j \in 0..(h.tl - 1), i \in 0..(h.tw - 1)}

(* The buffer is a function.                                               *)
IsFun(f) == f = [o \in DOMAIN f |-> f[o]]

LEMMA EmptyIsFun == IsFun(<<>>)
BY DEF IsFun

LEMMA WrittenIsFun == ASSUME NEW t, NEW b PROVE IsFun(Written(t, b))
BY DEF IsFun, Written

LEMMA FilledIsFun ==
  ASSUME NEW r, NEW f
  PROVE  IsFun(Filled(r, f)) /\ DOMAIN Filled(r, f) = Wanted(r)
BY DEF IsFun, Filled, Wanted

LEMMA SameFun ==
  ASSUME NEW f, NEW g, IsFun(f), IsFun(g), DOMAIN f = DOMAIN g, \A o \in DOMAIN f : f[o] = g[o]
  PROVE  f = g
BY DEF IsFun

(* A run of a job that puts its positions apart has got the window.        *)
LEMMA RunGot ==
  ASSUME PlanInv, GeoInv, Apart, DelInv, RunReturns, ~bad, EdgesFit(raster),
         NEW j, job = j, j.h = raster
  PROVE  Got(j)
<1>1. phase = "run" /\ next > Len(tasks) /\ (\A w \in Workers : cur[w] = 0) /\ EdgesFit(job.h)
  BY DEF RunReturns
<1>2. ASSUME NEW i, NEW y, NEW x, Within(j, i, y, x)
      PROVE  /\ Target(j, i, y, x) \in DOMAIN dst
             /\ dst[Target(j, i, y, x)] = SampleAt(j.file, j.h, j.bands[i], j.y_off + y, j.x_off + x)
  <2>1. InWindow(i, y, x) /\ PlaceAt(i, y, x) = Target(j, i, y, x)
    BY <1>2, TargetsOfJob
  <2>2. /\ PlaceAt(i, y, x) \in DOMAIN dst
        /\ dst[PlaceAt(i, y, x)]
             = SampleAt(job.file, job.h, job.bands[i], job.y_off + y, job.x_off + x)
    BY <1>1, <2>1, RunDelivers
  <2>3. QED
    BY <2>1, <2>2
<1>3. QED
  BY <1>2 DEF Got

(* A direct read that has got the window has answered.                     *)
LEMMA StraightAnswers ==
  ASSUME NEW r, Readable(r), Fast(r), Distinct(r), Got(Straight(r)), IsFun(dst),
         DOMAIN dst \subseteq Wanted(r)
  PROVE  dst = Answer(r)
<1> DEFINE F == [p \in Positions(r) |->
                   Typed(r, SampleAt(1, raster, r.bands[p[1]], Row(r, p[2]), Column(r, p[3])))]
<1>1. Answer(r) = Filled(r, F)
  BY DEF Answer
<1>2. ASSUME NEW p \in Positions(r)
      PROVE  Place(r, p) \in DOMAIN dst /\ dst[Place(r, p)] = F[p]
  <2>1. p = <<p[1], p[2], p[3]>>
    BY PlaceIsNat
  <2>2. Within(Straight(r), p[1], p[2], p[3])
        /\ Target(Straight(r), p[1], p[2], p[3]) = Place(r, p)
    BY <2>1, StraightPlaces
  <2>3. /\ Place(r, p) \in DOMAIN dst
        /\ dst[Place(r, p)]
             = SampleAt(1, raster, r.bands[p[1]], r.y_off + p[2], r.x_off + p[3])
    BY <2>2 DEF Got, Straight
  <2>4. Row(r, p[2]) = r.y_off + p[2] /\ Column(r, p[3]) = r.x_off + p[3]
    BY DEF Row, Column, Nearest, Fast
  <2>5. \A cell : Typed(r, cell) = cell
    BY DEF Typed, Fast
  <2>6. QED
    BY <2>3, <2>4, <2>5
<1> HIDE DEF F
<1>3. ASSUME NEW o \in Wanted(r) PROVE o \in DOMAIN dst /\ dst[o] = Filled(r, F)[o]
  <2>1. PICK p \in Positions(r) : o = Place(r, p)
    BY DEF Wanted
  <2>2. PICK q : q = CHOOSE z \in Positions(r) : Place(r, z) = o
    OBVIOUS
  <2>3. q \in Positions(r) /\ Place(r, q) = o
    BY <2>1, <2>2
  <2>4. p = q
    BY <2>1, <2>3 DEF Distinct
  <2>5. Filled(r, F)[o] = F[q]
    BY <2>2 DEF Filled, Wanted
  <2>6. QED
    BY <1>2, <2>1, <2>4, <2>5
<1>4. DOMAIN dst = DOMAIN Filled(r, F)
  BY <1>3, FilledIsFun
<1>5. dst = Filled(r, F)
  BY <1>3, <1>4, FilledIsFun, SameFun
<1>6. QED
  BY <1>1, <1>5

(* What a request is hangs on it and on the header.                        *)
LEMMA RequestSame ==
  ASSUME raster' = raster, req' = req
  PROVE  /\ Readable(req)' <=> Readable(req)
         /\ JobFor(req)' = JobFor(req) /\ Staging(req)' = Staging(req)
         /\ ReadFits(req)' <=> ReadFits(req)
         /\ Answer(req)' = Answer(req)
<1>1. Readable(req)' <=> Readable(req)
  BY DEF Readable, Acceptable
<1>2. Staging(req)' = Staging(req)
  BY DEF Staging
<1>3. JobFor(req)' = JobFor(req)
  BY <1>2 DEF JobFor, Straight
<1>4. ReadFits(req)' <=> ReadFits(req)
  BY <1>2 DEF ReadFits, RoomCounts
<1>5. Answer(req)' = Answer(req)
  BY DEF Answer
<1>6. QED
  BY <1>1, <1>2, <1>3, <1>4, <1>5

(* The buffer stays a function.                                            *)
LEMMA PlanStepFun == ASSUME IsFun(dst), PlanStep PROVE IsFun(dst)'
<1>1. ASSUME NEW w \in Workers, Inflate(w) PROVE IsFun(dst)'
  <2>1. dst' = dst \/ \E b : dst' = Written(tasks[cur[w]], b)
    BY <1>1 DEF Inflate
  <2>2. QED
    BY <2>1, WrittenIsFun
<1>2. ASSUME NEW w \in Workers, Deliver(w) PROVE IsFun(dst)'
  <2> DEFINE t == tasks[cur[w]]
             Summed(b) == IF b.state = "raw" THEN [b EXCEPT !.state = "sample"] ELSE b
  <2>1. \/ dst' = [o \in DOMAIN dst |-> IF o \in Footprint(t) THEN Summed(dst[o]) ELSE dst[o]]
        \/ \E b : dst' = Written(t, b)
    BY <1>2 DEF Deliver
  <2> HIDE DEF t, Summed
  <2>2. ASSUME dst' = [o \in DOMAIN dst |-> IF o \in Footprint(t) THEN Summed(dst[o]) ELSE dst[o]]
        PROVE  IsFun(dst)'
    BY <2>2 DEF IsFun
  <2>3. QED
    BY <2>1, <2>2, WrittenIsFun
<1>3. CASE dst' = dst
  BY <1>3
<1>4. CASE PlanTile \/ PlanOverrun \/ AfterPlanOverrun \/ PlanEnd
  BY <1>4 DEF PlanTile, PlanOverrun, AfterPlanOverrun, PlanEnd, plVars, tileVars
<1>5. QED
  BY <1>1, <1>2, <1>3, <1>4 DEF PlanStep, Fetch, FetchFails

LEMMA AskStepFun == ASSUME IsFun(dst), AskStep PROVE IsFun(dst)'
<1>1. CASE dst' = dst
  BY <1>1
<1>2. CASE dst' = <<>>
  BY <1>2, EmptyIsFun
<1>3. ASSUME NEW r, NEW f, dst' = Filled(r, f) PROVE IsFun(dst)'
  BY <1>3, FilledIsFun
<1>4. ASSUME NEW r, RasterIO(r) PROVE dst' = dst
  BY <1>4 DEF RasterIO, Refused, ReadFast, ReadStaging, NoStagingMemory, RasterIOThrows, BuildPlan,
              plVars, tileVars
<1>5. ASSUME NEW r, NEW b, BandRasterIO(r, b) PROVE dst' = dst
  <2> DEFINE one == [r EXCEPT !.bands = <<b>>, !.band = 0]
  <2>1. RasterIO(one)
    BY <1>5 DEF BandRasterIO
  <2> HIDE DEF one
  <2>2. QED
    BY <1>4, <2>1
<1>6. ASSUME NEW x, NEW y, NEW b, ReadBlock(x, y, b) \/ ReadBlockOverrun(x, y, b) \/ ReadBlockThrows(x, y, b)
      PROVE  dst' = dst
  BY <1>6 DEF ReadBlock, ReadBlockOverrun, ReadBlockThrows, AskBlock, tileVars
<1>7. CASE FastEnd \/ StagingEnd \/ BlockEnd
  <2>1. dst' = dst \/ dst' = <<>>
    BY <1>7 DEF FastEnd, StagingEnd, BlockEnd
  <2>2. QED
    BY <1>1, <1>2, <2>1
<1>8. CASE Resample
  <2>1. \E f : dst' = Filled(req, f)
    BY <1>8 DEF Resample
  <2>2. QED
    BY <1>3, <2>1
<1>9. CASE ResampleFails \/ DriverReturn
  BY <1>2, <1>9 DEF ResampleFails, DriverReturn
<1>10. QED
  BY <1>1, <1>4, <1>5, <1>6, <1>7, <1>8, <1>9 DEF AskStep

LEMMA FunKeeps == ASSUME IsFun(dst), [FENext]_feVars PROVE IsFun(dst)'
<1>1. CASE dst' = dst
  BY <1>1
<1>2. CASE dst' = <<>>
  BY <1>2, EmptyIsFun
<1>3. CASE UNCHANGED plVars
  BY <1>1, <1>3 DEF plVars, tileVars
<1>4. CASE RDNext
  <2>1. CASE PlanStep
    BY <2>1, PlanStepFun
  <2>2. ASSUME NEW c, ReadBegin(c) PROVE UNCHANGED plVars
    BY <2>2 DEF ReadBegin
  <2>3. CASE OpenFails \/ Open
    <3>1. UNCHANGED plVars \/ UNCHANGED tileVars
      BY <2>3 DEF OpenFails, Open, BuildPlan
    <3>2. QED
      BY <1>1, <1>3, <3>1 DEF tileVars
  <2>4. CASE RunEnd \/ ReadReturn
    BY <1>1, <1>2, <2>4 DEF RunEnd, ReadReturn
  <2>5. QED
    BY <1>3, <1>4, <2>1, <2>2, <2>3, <2>4 DEF RDNext, ReadStep
<1>5. CASE DRNext
  <2>1. CASE OpenStep
    <3>1. UNCHANGED plVars
      BY <2>1 DEF OpenStep, Parsed, RegisterDriver, CannotOpen, OpenFile, NoPRead, MakeImage,
                  OpenThrows, OpenDone, CloseImage
    <3>2. QED
      BY <1>3, <3>1
  <2>2. QED
    BY <1>5, <2>1, AskStepFun, PlanStepFun DEF DRNext
<1>6. CASE UNCHANGED feVars
  BY <1>3, <1>6 DEF feVars
<1>7. QED
  BY <1>4, <1>5, <1>6 DEF FENext

-----------------------------------------------------------------------------
(* Blocks.  The one task of a block is the whole tile, straight into it.   *)
BlockJob == [file |-> 1, h |-> raster]

LEMMA BlockTaskFacts ==
  ASSUME raster \in HeaderShape, job = BlockJob, NEW t, t.direct = TRUE, t.at = 0
  PROVE  /\ Rect(t) = (0..(raster.tl - 1)) \X (0..(raster.tw - 1))
         /\ \A p \in Rect(t) : /\ At(t, p) = (p[1] * raster.tw + p[2]) * raster.bps
                               /\ Source(t, p) = <<p[1], p[2]>>
         /\ Footprint(t) = Cells(raster)
         /\ Injective(t)
<1>1. /\ raster.tw \in Nat \ {0} /\ raster.tl \in Nat \ {0} /\ raster.bps \in Nat \ {0}
  <2>1. raster.tw \in 1..U16Max /\ raster.tl \in 1..U16Max /\ raster.bps \in 1..16
    BY DEF HeaderShape
  <2>2. QED
    BY <2>1, WidthAssumption
<1>2. job.h = raster /\ job.file = 1
  BY DEF BlockJob
<1>3. t.direct = TRUE /\ t.at = 0
  OBVIOUS
<1>4. Rect(t) = (0..(raster.tl - 1)) \X (0..(raster.tw - 1))
  BY <1>2, <1>3 DEF Rect
<1>5. ASSUME NEW p \in Rect(t)
      PROVE  /\ At(t, p) = (p[1] * raster.tw + p[2]) * raster.bps
             /\ Source(t, p) = <<p[1], p[2]>>
             /\ p[1] \in 0..(raster.tl - 1) /\ p[2] \in 0..(raster.tw - 1)
             /\ p = <<p[1], p[2]>>
  <2>1. p[1] \in 0..(raster.tl - 1) /\ p[2] \in 0..(raster.tw - 1) /\ p = <<p[1], p[2]>>
    BY <1>4
  <2>2. At(t, p) = 0 + (p[1] * raster.tw + p[2]) * raster.bps
    BY <1>2, <1>3 DEF At
  <2>3. (p[1] * raster.tw + p[2]) * raster.bps \in Int
    BY <1>1, <2>1
  <2>4. Source(t, p) = <<p[1], p[2]>>
    BY <1>3 DEF Source
  <2>5. QED
    BY <2>1, <2>2, <2>3, <2>4
<1>6. Footprint(t) = Cells(raster)
  <2>1. ASSUME NEW o \in Footprint(t) PROVE o \in Cells(raster)
    BY <1>5, <2>1 DEF Footprint, Cells
  <2>2. ASSUME NEW j \in 0..(raster.tl - 1), NEW i \in 0..(raster.tw - 1)
        PROVE  (j * raster.tw + i) * raster.bps \in Footprint(t)
    <3>1. <<j, i>> \in Rect(t)
      BY <1>4
    <3>2. At(t, <<j, i>>) = (j * raster.tw + i) * raster.bps
      BY <1>5, <3>1
    <3>3. QED
      BY <3>1, <3>2 DEF Footprint
  <2>3. QED
    BY <2>1, <2>2 DEF Cells
<1>7. ASSUME NEW p \in Rect(t), NEW q \in Rect(t), At(t, p) = At(t, q) PROVE Source(t, p) = Source(t, q)
  <2>1. PICK w, c : w = raster.tw /\ c = raster.bps
    OBVIOUS
  <2>2. PICK a, i, d, j : a = p[1] /\ i = p[2] /\ d = q[1] /\ j = q[2]
    OBVIOUS
  <2>3. /\ a \in Int /\ d \in Int /\ i \in 0..(w - 1) /\ j \in 0..(w - 1) /\ w \in Nat /\ c \in Nat \ {0}
    BY <1>1, <1>5, <2>1, <2>2
  <2>4. (a * w + i) * c = (d * w + j) * c
    BY <1>5, <1>7, <2>1, <2>2
  <2> DEFINE m == a * w + i
             n == d * w + j
  <2>5. m \in Int /\ n \in Int
    BY <2>3
  <2>6. m = n
    <3> HIDE DEF m, n
    <3>1. m * c + 0 = n * c + 0 /\ 0 \in 0..(c - 1)
      BY <2>3, <2>4, <2>5 DEF m, n
    <3>2. QED
      BY <2>3, <2>5, <3>1, DigitsUnique
  <2>7. a = d /\ i = j
    BY <2>3, <2>6, DigitsUnique
  <2>8. Source(t, p) = <<p[1], p[2]>> /\ Source(t, q) = <<q[1], q[2]>>
    BY <1>5
  <2>9. p[1] = q[1] /\ p[2] = q[2]
    BY <2>2, <2>7
  <2>10. QED
    BY <2>8, <2>9
<1>8. QED
  BY <1>4, <1>5, <1>6, <1>7 DEF Injective

LEMMA PartsOf ==
  ASSUME NEW n \in Nat \ {0}, NEW q \in Int, NEW r \in 0..(n - 1), NEW a, a = q * n + r
  PROVE  a \div n = q /\ (a % n) = r
<1>1. q * n \in Int /\ a \in Int /\ q * n <= a /\ a < q * n + n
  OBVIOUS
<1>2. a \div n = q
  BY <1>1, QuotientIs
<1>3. (a % n) = a - n * (a \div n)
  BY <1>1
<1>4. q * n = n * q
  OBVIOUS
<1>5. QED
  BY <1>1, <1>2, <1>3, <1>4

(* The block that a run has delivered.                                     *)
LEMMA BlockDelivered ==
  ASSUME raster \in HeaderShape, job = BlockJob, NEW x \in Nat, NEW y \in Nat, NEW b,
         NEW t, t = BlockTask(x, y, b), Delivered(t, "sample"),
         IsFun(dst), DOMAIN dst \subseteq Cells(raster)
  PROVE  dst = [o \in Cells(raster) |->
                  LET p == o \div raster.bps
                  IN  SampleAt(1, raster, b, y * raster.tl + p \div raster.tw,
                               x * raster.tw + (p % raster.tw))]
<1> DEFINE G == [o \in Cells(raster) |->
                   LET p == o \div raster.bps
                   IN  SampleAt(1, raster, b, y * raster.tl + p \div raster.tw,
                                x * raster.tw + (p % raster.tw))]
<1>1. PICK w, l, c : w = raster.tw /\ l = raster.tl /\ c = raster.bps
  OBVIOUS
<1>2. w \in Nat \ {0} /\ l \in Nat \ {0} /\ c \in Nat \ {0}
  <2>1. w \in 1..U16Max /\ l \in 1..U16Max /\ c \in 1..16
    BY <1>1 DEF HeaderShape
  <2>2. QED
    BY <2>1, WidthAssumption
<1>7. t.direct = TRUE /\ t.at = 0 /\ x \in Int /\ y \in Int
  BY DEF BlockTask
<1>3. ASSUME NEW j \in 0..(l - 1), NEW i \in 0..(w - 1), NEW o, o = (j * w + i) * c
      PROVE  o \in DOMAIN dst /\ dst[o] = G[o]
  <2>1. /\ o \in DOMAIN dst
        /\ dst[o] = [tile |-> TileOf(t), pos |-> <<j, i>>, state |-> "sample"]
    <3>1. <<j, i>> \in Rect(t) /\ At(t, <<j, i>>) = o /\ Source(t, <<j, i>>) = <<j, i>>
      <4>1. PICK p : p = <<j, i>>
        OBVIOUS
      <4>2. p \in Rect(t) /\ p[1] = j /\ p[2] = i
        BY <1>1, <1>7, <4>1, BlockTaskFacts
      <4>3. At(t, p) = (j * w + i) * c /\ Source(t, p) = <<j, i>>
        BY <1>1, <1>7, <4>2, BlockTaskFacts
      <4>4. QED
        BY <1>3, <4>1, <4>2, <4>3
    <3>2. QED
      BY <3>1 DEF Delivered
  <2>2. PICK p : p = j * w + i
    OBVIOUS
  <2>3. p \in Int /\ o = p * c + 0 /\ 0 \in 0..(c - 1) /\ j \in Int
    BY <1>2, <1>3, <2>2
  <2>4. o \div c = p
    BY <1>2, <2>3, PartsOf
  <2>5. p \div w = j /\ (p % w) = i
    BY <1>2, <2>2, <2>3, PartsOf
  <2>6. PICK u : u = y * l + j
    OBVIOUS
  <2>7. u \div l = y /\ (u % l) = j
    <3>1. l \in Nat \ {0} /\ y \in Int /\ j \in 0..(l - 1)
      BY <1>2, <1>7
    <3>2. QED
      BY <2>6, <3>1, PartsOf
  <2>14. PICK v : v = x * w + i
    OBVIOUS
  <2>8. v \div w = x /\ (v % w) = i
    <3>1. w \in Nat \ {0} /\ x \in Int /\ i \in 0..(w - 1)
      BY <1>2, <1>7
    <3>2. QED
      BY <2>14, <3>1, PartsOf
  <2>9. SampleAt(1, raster, b, u, v)
          = [tile |-> <<1, TileIndex(TilesOver(raster.width, raster.tw), raster.spp, y, x, b - 1)>>,
             pos |-> <<j, i>>, state |-> "sample"]
    BY <1>1, <2>7, <2>8 DEF SampleAt
  <2>10. o \in Cells(raster)
    BY <2>1
  <2>11. G[o] = SampleAt(1, raster, b, u, v)
    BY <1>1, <2>4, <2>5, <2>6, <2>10, <2>14
  <2>12. TileOf(t) = <<1, TileIndex(TilesOver(raster.width, raster.tw), raster.spp, y, x, b - 1)>>
    BY DEF TileOf, BlockTask, BlockJob
  <2>13. QED
    BY <2>1, <2>9, <2>11, <2>12
<1>4. ASSUME NEW o \in Cells(raster) PROVE o \in DOMAIN dst /\ dst[o] = G[o]
  <2>1. PICK j \in 0..(l - 1), i \in 0..(w - 1) : o = (j * w + i) * c
    BY <1>1 DEF Cells
  <2>2. QED
    BY <1>3, <2>1
<1>5. DOMAIN dst = Cells(raster) /\ DOMAIN G = Cells(raster) /\ IsFun(G)
  <2>1. DOMAIN dst = Cells(raster)
    BY <1>4
  <2>2. QED
    BY <2>1 DEF IsFun
<1> HIDE DEF G
<1>6. dst = G
  BY <1>4, <1>5, SameFun
<1>8. QED
  BY <1>6 DEF G

-----------------------------------------------------------------------------
(* The invariant of the driver.  What it was asked for is a window of the  *)
(* image; the plan under way is the plan of that window, or the one task   *)
(* of a block; what the plan has brought is in the staging buffer; and     *)
(* what has been answered is the answer.                                   *)
Asked == dpc \in {"fast", "staging", "staged"} => Readable(req) /\ (Fast(req) <=> dpc = "fast")

Fetching ==
  dpc \in {"fast", "staging"} =>
    /\ phase # "none" /\ job = JobFor(req)
    /\ GeoInv /\ (Apart => DelInv)
    /\ \A o \in DOMAIN dst : Hit(JobFor(req), o)

Blocking ==
  dpc = "block" =>
    /\ phase \in {"run", "overrun"} /\ job = BlockJob /\ DOMAIN dst \subseteq Cells(raster)
    /\ phase = "run" => /\ req.x \in Nat /\ req.y \in Nat
                        /\ tasks = <<BlockTask(req.x, req.y, req.band)>> /\ DelInv

Staged ==
  dpc = "staged" =>
    /\ \A o \in DOMAIN dst : Hit(Staging(req), o)
    /\ ReadFits(req) => Got(Staging(req))

Answered ==
  dpc = "done" =>
    /\ DOMAIN dst # {} => Readable(req) /\ DOMAIN dst \subseteq Wanted(req)
    /\ answer = "ok" /\ ReadFits(req) => dst = Answer(req)

Given == dpc = "given" => DOMAIN dst \subseteq Cells(raster) /\ BlockIsTile

Driving == IsFun(dst) /\ Asked /\ Fetching /\ Blocking /\ Staged /\ Answered /\ Given

DriverInv == ReadInv /\ Driving

LEMMA DriverInitInv == FEInit => DriverInv
<1> SUFFICES ASSUME FEInit PROVE DriverInv
  OBVIOUS
<1>1. dpc = "idle" /\ dst = <<>>
  BY DEF FEInit, DRInit, PLInit
<1>2. QED
  BY <1>1, ReadInitInv, EmptyIsFun
     DEF DriverInv, Driving, Asked, Fetching, Blocking, Staged, Answered, Given

(* The driver has nothing to keep when nothing is asked of it.             *)
LEMMA IdleKeeps ==
  ASSUME dpc' = "idle"
  PROVE  Asked' /\ Fetching' /\ Blocking' /\ Staged' /\ Answered' /\ Given'
BY DEF Asked, Fetching, Blocking, Staged, Answered, Given

(* The header of an open image.                                            *)
LEMMA OpenHeader == ASSUME FEInv, ds = "open" PROVE raster \in HeaderShape
BY DriverAssumption DEF FEInv, DRTypeOK

(* A request: it is refused, or its plan is begun.                         *)
LEMMA RasterIOKeeps ==
  ASSUME DriverInv, NEW r \in RequestShape, RasterIO(r)
  PROVE  Asked' /\ Fetching' /\ Blocking' /\ Staged' /\ Answered' /\ Given'
<1>1. /\ PlanInv /\ raster \in HeaderShape /\ dpc = "idle" /\ phase = "none" /\ raster' = raster /\ req' = r
      /\ rpc = "idle"
  <2>1. PlanInv /\ FEInv /\ ds = "open" /\ UNCHANGED openVars /\ dpc = "idle" /\ phase = "none" /\ req' = r
    BY DEF DriverInv, ReadInv, AllInv, RasterIO
  <2>2. rpc = "idle"
    BY <2>1 DEF DriverInv, ReadInv, Resting
  <2>3. QED
    BY <2>1, <2>2, OpenHeader DEF openVars
<1>2. DOMAIN dst = {} /\ \E S : scratch \in [Workers -> S]
  BY <1>1 DEF DriverInv, ReadInv, Resting
<1>3. CASE UNCHANGED plVars /\ dpc' = "done" /\ answer' # "ok"
  <2>1. DOMAIN dst' = {}
    BY <1>2, <1>3 DEF plVars, tileVars
  <2>2. QED
    BY <1>3, <2>1 DEF Asked, Fetching, Blocking, Staged, Answered, Given
<1>4. CASE ReadFast(r) \/ ReadStaging(r)
  <2>1. /\ Acceptable(r) /\ BuildPlan(JobFor(r))
        /\ dpc' = (IF Fast(r) THEN "fast" ELSE "staging")
    <3>1. CASE ReadFast(r)
      BY <3>1 DEF ReadFast, JobFor, Straight
    <3>2. CASE ReadStaging(r)
      BY <3>2 DEF ReadStaging, JobFor
    <3>3. QED
      BY <1>4, <3>1, <3>2
  <2>2. Readable(r)
    BY <1>1, <2>1 DEF Readable
  <2>3. PICK j : j = JobFor(r)
    OBVIOUS
  <2>4. JobOk(j) /\ BuildPlan(j)
    BY <2>1, <2>2, <2>3, JobForOk
  <2>5. phase' = "plan" /\ job' = j /\ UNCHANGED tileVars
    BY <2>4 DEF BuildPlan
  <2>6. Spaced'
    <3>1. CASE Fast(r)
      <4>1. j.data = 0 /\ j.pixel = r.pixel /\ j.line = r.line /\ j.band = r.band
        BY <2>3, <3>1 DEF JobFor, Straight
      <4>2. r.pixel \in Int /\ r.line \in Int /\ r.band \in Int
        BY <2>2, ReadableFacts
      <4>3. QED
        BY <2>5, <4>1, <4>2 DEF Spaced
    <3>2. CASE ~Fast(r)
      <4>1. j = Staging(r)
        BY <2>3, <3>2 DEF JobFor
      <4>2. j.data = 0 /\ j.pixel = raster.bps /\ j.line = raster.bps * j.x_size /\ j.band \in Int /\ j.x_size \in Int
        BY <2>2, <4>1, StagingFacts
      <4>3. raster.bps \in Int
        BY <2>2, ReadableFacts
      <4>4. j.data \in Int /\ j.pixel \in Int /\ j.line \in Int /\ j.band \in Int
        BY <4>2, <4>3
      <4>5. QED
        BY <2>5, <4>4 DEF Spaced
    <3>3. QED
      BY <3>1, <3>2
  <2>7. GeoInv'
    BY <1>1, <2>4, <2>6, BuildPlanGeo
  <2>8. DelInv'
    <3>1. next = 1
      BY <1>1 DEF DriverInv, ReadInv, AllInv, PlanInv, IsSeq
    <3>2. QED
      BY <1>1, <1>2, <2>5, <3>1, PlanningDelivery
  <2>9. DOMAIN dst' = {}
    BY <1>2, <2>5 DEF tileVars
  <2>10. Readable(req)' /\ job' = JobFor(req)' /\ Fast(req)' = Fast(r)
    <3>1. Readable(req)'
      BY <1>1, <2>2 DEF Readable, Acceptable
    <3>2. JobFor(req)' = JobFor(r)
      BY <1>1 DEF JobFor, Straight, Staging
    <3>3. QED
      BY <1>1, <2>3, <2>5, <3>1, <3>2
  <2>11. Asked'
    BY <1>1, <2>1, <2>10 DEF Asked
  <2>12. Fetching'
    BY <2>5, <2>7, <2>8, <2>9, <2>10 DEF Fetching
  <2>13. QED
    BY <2>1, <2>11, <2>12 DEF Blocking, Staged, Answered, Given
<1>5. QED
  BY <1>3, <1>4 DEF RasterIO, Refused, NoStagingMemory, RasterIOThrows

(* A step of a plan leaves its job, and the plan under way.                *)
LEMMA PlanStepSame ==
  ASSUME PlanInv, PlanStep
  PROVE  job' = job /\ phase # "none" /\ phase' # "none"
         /\ (phase = "run" => phase' = "run" /\ tasks' = tasks)
<1>1. CASE PlanTile \/ PlanOverrun \/ PlanEnd
  BY <1>1 DEF PlanTile, PlanOverrun, PlanEnd
<1>2. CASE AfterPlanOverrun
  BY <1>2 DEF AfterPlanOverrun, plVars, planVars
<1>3. CASE \E w \in Workers : Fetch(w) \/ FetchFails(w) \/ Inflate(w) \/ Deliver(w)
  BY <1>3 DEF Fetch, FetchFails, Inflate, Deliver, planVars
<1>4. QED
  BY <1>1, <1>2, <1>3 DEF PlanStep

(* The plan of a read goes on: it brings the window.                       *)
LEMMA FetchingGoesOn ==
  ASSUME DriverInv, dpc \in {"fast", "staging"}, PlanStep, UNCHANGED <<openVars, askVars>>
  PROVE  Fetching'
<1>1. /\ PlanInv /\ phase # "none" /\ job = JobFor(req) /\ GeoInv /\ (Apart => DelInv)
      /\ \A o \in DOMAIN dst : Hit(JobFor(req), o)
  BY DEF DriverInv, Driving, ReadInv, AllInv, Fetching
<1>2. job' = job /\ phase' # "none"
  BY <1>1, PlanStepSame
<1>3. raster' = raster /\ req' = req /\ dpc' = dpc
  BY DEF openVars, askVars
<1>4. JobFor(req)' = JobFor(req)
  BY <1>3, RequestSame
<1>5. GeoInv'
  BY <1>1, PlanStepGeo
<1>6. Apart' => DelInv'
  <2> SUFFICES ASSUME Apart' PROVE DelInv'
    OBVIOUS
  <2>1. Apart
    BY <1>2, ApartSame
  <2>2. Laid
    BY <1>1, <2>1, GeoLaid
  <2>3. job.h.predictor \in {1, 2}
    <3>1. job.h \in HeaderShape
      BY <1>1 DEF GeoInv, JobOk
    <3>2. QED
      BY <3>1 DEF HeaderShape
  <2>4. QED
    BY <1>1, <2>1, <2>2, <2>3, PlanStepDelivery
<1>7. PICK j : j = JobFor(req)
  OBVIOUS
<1>8. ASSUME NEW a \in 1..Len(tasks), NEW o \in Footprint(tasks[a]) PROVE Hit(j, o)
  <2>1. PICK i, y, x : InWindow(i, y, x) /\ o = PlaceAt(i, y, x)
    BY <1>1, <1>8, TaskPlaces
  <2>2. QED
    BY <1>1, <1>7, <2>1, TargetsOfJob DEF Hit
<1>9. \A o \in DOMAIN dst' : Hit(j, o)
  <2>1. CASE dst' = dst
    BY <1>1, <1>7, <2>1
  <2>2. ASSUME NEW a \in 1..Len(tasks), Touches(tasks[a]) PROVE \A o \in DOMAIN dst' : Hit(j, o)
    BY <1>1, <1>7, <1>8, <2>2 DEF Touches
  <2>3. QED
    BY <1>1, <2>1, <2>2, PlanStepTouches
<1>10. QED
  BY <1>1, <1>2, <1>4, <1>5, <1>6, <1>7, <1>9 DEF Fetching

(* The run of a block goes on: it writes the block.                        *)
LEMMA BlockingGoesOn ==
  ASSUME DriverInv, dpc = "block", phase = "run", PlanStep, UNCHANGED <<openVars, askVars>>
  PROVE  Blocking'
<1>1. PICK t : t = BlockTask(req.x, req.y, req.band)
  OBVIOUS
<1>2. /\ PlanInv /\ phase = "run" /\ job = BlockJob /\ raster \in HeaderShape
      /\ req.x \in Nat /\ req.y \in Nat /\ tasks = <<t>>
      /\ DelInv /\ DOMAIN dst \subseteq Cells(raster)
  <2>1. PlanInv /\ FEInv /\ ds = "open"
    BY DEF DriverInv, ReadInv, AllInv, FEInv, DRTypeOK
  <2>2. QED
    BY <1>1, <2>1, OpenHeader DEF DriverInv, Driving, Blocking
<1>3. Len(tasks) = 1 /\ tasks[1] = t
  <2>1. Len(<<t>>) = 1 /\ <<t>>[1] = t
    OBVIOUS
  <2>2. QED
    BY <1>2, <2>1
<1>4. job' = job /\ phase' = "run" /\ tasks' = tasks
  BY <1>2, PlanStepSame
<1>5. raster' = raster /\ req' = req /\ dpc' = dpc
  BY DEF openVars, askVars
<1>6. t.direct = TRUE /\ t.at = 0
  BY <1>1 DEF BlockTask
<1>7. Footprint(t) = Cells(raster) /\ Injective(t)
  BY <1>2, <1>6, BlockTaskFacts
<1>8. Laid
  <2>1. \A a, b \in 1..Len(tasks) : ~(a < b)
    BY <1>3
  <2>2. \A a \in 1..Len(tasks) : a = 1
    BY <1>3
  <2>3. QED
    BY <1>3, <1>7, <2>1, <2>2 DEF Laid, Separate
<1>9. job.h.predictor \in {1, 2}
  BY <1>2 DEF BlockJob, HeaderShape
<1>10. DelInv'
  BY <1>2, <1>8, <1>9, PlanStepDelivery
<1>11. DOMAIN dst' \subseteq Cells(raster)
  <2>1. ASSUME NEW a \in 1..Len(tasks), Touches(tasks[a]) PROVE DOMAIN dst' \subseteq Cells(raster)
    <3>1. tasks[a] = t
      BY <1>3
    <3>2. QED
      BY <1>2, <1>7, <2>1, <3>1 DEF Touches
  <2>2. QED
    BY <1>2, <2>1, PlanStepTouches
<1>12. Cells(raster)' = Cells(raster) /\ BlockJob' = BlockJob
       /\ BlockTask(req.x, req.y, req.band)' = BlockTask(req.x, req.y, req.band)
  BY <1>5 DEF Cells, BlockJob, BlockTask
<1>13. QED
  BY <1>1, <1>2, <1>4, <1>5, <1>10, <1>11, <1>12 DEF Blocking

(* Nothing more is written once the tables have been left.                 *)
LEMMA OverrunGoesOn ==
  ASSUME DriverInv, dpc = "block", phase = "overrun", PlanStep, UNCHANGED <<openVars, askVars>>
  PROVE  Blocking'
<1>1. job = BlockJob /\ DOMAIN dst \subseteq Cells(raster)
  BY DEF DriverInv, Driving, Blocking
<1>2. UNCHANGED plVars
  BY DEF PlanStep, PlanTile, PlanOverrun, AfterPlanOverrun, PlanEnd, Fetch, FetchFails, Inflate, Deliver
<1>3. phase' = "overrun" /\ job' = job /\ dst' = dst /\ raster' = raster
  BY <1>2 DEF plVars, planVars, tileVars, openVars
<1>4. Cells(raster)' = Cells(raster) /\ BlockJob' = BlockJob
  BY <1>3 DEF BlockJob
<1>5. QED
  BY <1>1, <1>3, <1>4 DEF Blocking

LEMMA PlanGoesOn ==
  ASSUME DriverInv, dpc \in {"fast", "staging", "block"}, PlanStep, UNCHANGED <<openVars, askVars>>
  PROVE  Asked' /\ Fetching' /\ Blocking' /\ Staged' /\ Answered' /\ Given'
<1>1. raster' = raster /\ req' = req /\ dpc' = dpc
  BY DEF openVars, askVars
<1>2. Asked'
  <2>1. Readable(req)' <=> Readable(req)
    BY <1>1, RequestSame
  <2>2. Fast(req)' = Fast(req)
    BY <1>1
  <2>3. QED
    BY <1>1, <2>1, <2>2 DEF DriverInv, Driving, Asked
<1>3. Fetching' /\ Blocking'
  <2>1. CASE dpc = "block"
    <3>1. phase \in {"run", "overrun"}
      BY <2>1 DEF DriverInv, Driving, Blocking
    <3>2. QED
      BY <1>1, <2>1, <3>1, BlockingGoesOn, OverrunGoesOn DEF Fetching
  <2>2. CASE dpc # "block"
    BY <1>1, <2>2, FetchingGoesOn DEF Blocking
  <2>3. QED
    BY <2>1, <2>2
<1>4. Staged' /\ Answered' /\ Given'
  BY <1>1 DEF Staged, Answered, Given
<1>5. QED
  BY <1>2, <1>3, <1>4

(* A run of a read has returned: where nothing failed, the window is got.  *)
LEMMA FetchingEnds ==
  ASSUME DriverInv, dpc \in {"fast", "staging"}, RunReturns, ~bad, ReadFits(req)
  PROVE  Got(JobFor(req))
<1>1. PICK j : j = JobFor(req)
  OBVIOUS
<1>2. /\ PlanInv /\ job = j /\ GeoInv /\ (Apart => DelInv)
      /\ Readable(req) /\ (Fast(req) <=> dpc = "fast")
  BY <1>1 DEF DriverInv, Driving, ReadInv, AllInv, Fetching, Asked
<1>3. j.h = raster
  BY <1>1, <1>2, JobForOk
<1>4. Apart
  <2>1. CASE Fast(req)
    BY <1>1, <1>2, <2>1, StraightApart DEF JobFor, ReadFits
  <2>2. CASE ~Fast(req)
    BY <1>1, <1>2, <2>2, StagingApart DEF JobFor, ReadFits
  <2>3. QED
    BY <2>1, <2>2
<1>5. EdgesFit(raster)
  BY DEF ReadFits
<1>6. Got(j)
  BY <1>2, <1>3, <1>4, <1>5, RunGot
<1>7. QED
  BY <1>1, <1>6

(* A direct read has ended.                                                *)
LEMMA FastEndKeeps ==
  ASSUME DriverInv, FastEnd
  PROVE  Asked' /\ Fetching' /\ Blocking' /\ Staged' /\ Answered' /\ Given'
<1>1. /\ dpc = "fast" /\ RunReturns /\ dpc' = "done" /\ dst' = dst /\ raster' = raster /\ req' = req
      /\ answer' = (IF bad THEN "failed" ELSE "ok")
  BY DEF FastEnd, openVars
<1>2. /\ Readable(req) /\ Fast(req) /\ IsFun(dst) /\ \A o \in DOMAIN dst : Hit(Straight(req), o)
  BY <1>1 DEF DriverInv, Driving, Asked, Fetching, JobFor
<1>3. DOMAIN dst \subseteq Wanted(req)
  <2> SUFFICES ASSUME NEW o \in DOMAIN dst PROVE o \in Wanted(req)
    OBVIOUS
  <2>1. PICK i, y, x : Within(Straight(req), i, y, x) /\ o = Target(Straight(req), i, y, x)
    BY <1>2 DEF Hit
  <2>2. PICK r : r = req
    OBVIOUS
  <2>3. <<i, y, x>> \in Positions(r) /\ o = Place(r, <<i, y, x>>)
    BY <1>2, <2>1, <2>2, StraightPlaces
  <2>4. QED
    BY <2>2, <2>3 DEF Wanted
<1>4. ASSUME answer' = "ok", ReadFits(req) PROVE dst = Answer(req)
  <2>1. ~bad
    BY <1>1, <1>4
  <2>2. Got(Straight(req))
    BY <1>1, <1>2, <1>4, <2>1, FetchingEnds DEF JobFor
  <2>3. Distinct(req)
    BY <1>2, <1>4 DEF ReadFits
  <2>4. QED
    BY <1>2, <1>3, <2>2, <2>3, StraightAnswers
<1>5. Answered'
  <2>1. (Readable(req)' <=> Readable(req)) /\ (ReadFits(req)' <=> ReadFits(req)) /\ Answer(req)' = Answer(req)
    BY <1>1, RequestSame
  <2>2. Wanted(req)' = Wanted(req)
    BY <1>1
  <2>3. QED
    BY <1>1, <1>2, <1>3, <1>4, <2>1, <2>2 DEF Answered
<1>6. QED
  BY <1>1, <1>5 DEF Asked, Fetching, Blocking, Staged, Given

(* The staging buffer has its window.                                      *)
LEMMA StagingEndKeeps ==
  ASSUME DriverInv, StagingEnd
  PROVE  Asked' /\ Fetching' /\ Blocking' /\ Staged' /\ Answered' /\ Given'
<1>1. /\ dpc = "staging" /\ RunReturns /\ raster' = raster /\ req' = req
      /\ \/ bad /\ dpc' = "done" /\ answer' = "failed" /\ dst' = <<>>
         \/ ~bad /\ dpc' = "staged" /\ dst' = dst
  BY DEF StagingEnd, openVars
<1>2. Readable(req) /\ ~Fast(req) /\ \A o \in DOMAIN dst : Hit(Staging(req), o)
  BY <1>1 DEF DriverInv, Driving, Asked, Fetching, JobFor
<1>3. (Readable(req)' <=> Readable(req)) /\ (ReadFits(req)' <=> ReadFits(req)) /\ Staging(req)' = Staging(req)
  BY <1>1, RequestSame
<1>4. Fast(req)' = Fast(req)
  BY <1>1
<1>5. CASE bad /\ dpc' = "done" /\ answer' = "failed" /\ dst' = <<>>
  <2>1. DOMAIN dst' = {}
    BY <1>5
  <2>2. QED
    BY <1>5, <2>1 DEF Asked, Fetching, Blocking, Staged, Answered, Given
<1>6. CASE ~bad /\ dpc' = "staged" /\ dst' = dst
  <2>1. PICK s : s = Staging(req)
    OBVIOUS
  <2>2. ReadFits(req) => Got(s)
    BY <1>1, <1>2, <1>6, <2>1, FetchingEnds DEF JobFor
  <2>3. Got(s) => Got(s)'
    BY <1>6 DEF Got
  <2>4. Staged'
    BY <1>2, <1>3, <1>6, <2>1, <2>2, <2>3 DEF Staged
  <2>5. Asked'
    BY <1>2, <1>3, <1>4, <1>6 DEF Asked
  <2>6. QED
    BY <1>6, <2>4, <2>5 DEF Fetching, Blocking, Answered, Given
<1>7. QED
  BY <1>1, <1>5, <1>6

(* The caller gets its samples out of the staging buffer.                  *)
LEMMA ResampleKeeps ==
  ASSUME DriverInv, Resample
  PROVE  Asked' /\ Fetching' /\ Blocking' /\ Staged' /\ Answered' /\ Given'
<1>1. PICK r : r = req
  OBVIOUS
<1> DEFINE From(p) == (p[1] - 1) * Staging(r).band + Row(Moved(r), p[2]) * Staging(r).line
                      + Column(Moved(r), p[3]) * Staging(r).pixel
           P == [p \in Positions(r) |-> IF From(p) \in DOMAIN dst THEN Typed(r, dst[From(p)]) ELSE Stale]
           F == [p \in Positions(r) |->
                   Typed(r, SampleAt(1, raster, r.bands[p[1]], Row(r, p[2]), Column(r, p[3])))]
<1>2. /\ dpc = "staged" /\ dpc' = "done" /\ answer' = "ok" /\ raster' = raster /\ req' = req
      /\ dst' = Filled(r, P)
  BY <1>1 DEF Resample, openVars
<1>3. Readable(r) /\ ~Fast(r) /\ (ReadFits(r) => Got(Staging(r)))
  BY <1>1, <1>2 DEF DriverInv, Driving, Asked, Staged
<1>4. ASSUME ReadFits(r) PROVE P = F
  <2>1. FloatInside(r) /\ Got(Staging(r))
    BY <1>3, <1>4 DEF ReadFits
  <2>2. ASSUME NEW p \in Positions(r)
        PROVE  /\ From(p) \in DOMAIN dst
               /\ dst[From(p)] = SampleAt(1, raster, r.bands[p[1]], Row(r, p[2]), Column(r, p[3]))
    <3>1. PICK o : o = From(p)
      OBVIOUS
    <3>2. /\ o \in DOMAIN dst
          /\ dst[o] = SampleAt(1, raster, r.bands[p[1]], Row(r, p[2]), Column(r, p[3]))
      BY <1>3, <2>1, <3>1, StagedSample
    <3>3. QED
      BY <3>1, <3>2
  <2> HIDE DEF From
  <2>3. QED
    BY <2>2
<1>5. DOMAIN dst' = Wanted(r)
  <2> HIDE DEF P
  <2>1. QED
    BY <1>2, FilledIsFun
<1>6. ReadFits(r) => dst' = Answer(r)
  <2> HIDE DEF P, F
  <2>1. Answer(r) = Filled(r, F)
    BY DEF Answer, F
  <2>2. QED
    BY <1>2, <1>4, <2>1
<1>7. Answered'
  <2>1. (Readable(req)' <=> Readable(r)) /\ (ReadFits(req)' <=> ReadFits(r)) /\ Answer(req)' = Answer(r)
        /\ Wanted(req)' = Wanted(r)
    BY <1>1, <1>2, RequestSame
  <2> HIDE DEF P, F
  <2>2. QED
    BY <1>2, <1>3, <1>5, <1>6, <2>1 DEF Answered
<1>8. QED
  BY <1>2, <1>7 DEF Asked, Fetching, Blocking, Staged, Given

(* A block is asked for.                                                   *)
LEMMA ReadBlockKeeps ==
  ASSUME DriverInv, NEW x \in Nat, NEW y \in Nat, NEW b, ReadBlock(x, y, b)
  PROVE  Asked' /\ Fetching' /\ Blocking' /\ Staged' /\ Answered' /\ Given'
<1>1. /\ PlanInv /\ dpc = "idle" /\ phase = "none" /\ dpc' = "block" /\ phase' = "run"
      /\ tasks' = <<BlockTask(x, y, b)>> /\ job' = BlockJob /\ raster' = raster
      /\ req' = [x |-> x, y |-> y, band |-> b] /\ UNCHANGED tileVars /\ ds = "open"
  BY DEF DriverInv, ReadInv, AllInv, ReadBlock, AskBlock, openVars, BlockJob
<1>2. DOMAIN dst = {} /\ \E S : scratch \in [Workers -> S]
  BY <1>1 DEF DriverInv, ReadInv, Resting, AllInv, FEInv, DRTypeOK
<1>3. DelInv'
  <2>1. next = 1
    BY <1>1 DEF PlanInv, IsSeq
  <2>2. QED
    BY <1>1, <1>2, <2>1, PlanningDelivery
<1>4. req'.x = x /\ req'.y = y /\ req'.band = b
  BY <1>1
<1>5. BlockJob' = BlockJob /\ BlockTask(req.x, req.y, req.band)' = BlockTask(x, y, b)
  BY <1>1, <1>4 DEF BlockJob, BlockTask
<1>6. DOMAIN dst' = {}
  BY <1>1, <1>2 DEF tileVars
<1>7. Blocking'
  BY <1>1, <1>3, <1>4, <1>5, <1>6 DEF Blocking
<1>8. QED
  BY <1>1, <1>7 DEF Asked, Fetching, Staged, Answered, Given

(* It cannot be looked up, or the plan for it does not fit memory.         *)
LEMMA BlockNotReadKeeps ==
  ASSUME DriverInv, NEW x, NEW y, NEW b, ReadBlockOverrun(x, y, b) \/ ReadBlockThrows(x, y, b)
  PROVE  Asked' /\ Fetching' /\ Blocking' /\ Staged' /\ Answered' /\ Given'
<1>1. dpc = "idle" /\ ds = "open" /\ dst' = dst /\ raster' = raster
  BY DEF ReadBlockOverrun, ReadBlockThrows, AskBlock, openVars, tileVars
<1>2. DOMAIN dst' = {}
  BY <1>1 DEF DriverInv, ReadInv, Resting, AllInv, FEInv, DRTypeOK
<1>3. CASE ReadBlockOverrun(x, y, b)
  <2>1. dpc' = "block" /\ phase' = "overrun" /\ job' = BlockJob'
    BY <1>1, <1>3 DEF ReadBlockOverrun, BlockJob
  <2>2. QED
    BY <1>2, <2>1 DEF Asked, Fetching, Blocking, Staged, Answered, Given
<1>4. CASE ReadBlockThrows(x, y, b)
  <2>1. dpc' = "given" /\ answer' = "thrown"
    BY <1>4 DEF ReadBlockThrows
  <2>2. QED
    BY <1>2, <2>1 DEF Asked, Fetching, Blocking, Staged, Answered, Given, BlockIsTile
<1>5. QED
  BY <1>3, <1>4

(* It has been read.                                                       *)
LEMMA BlockEndKeeps ==
  ASSUME DriverInv, BlockEnd
  PROVE  Asked' /\ Fetching' /\ Blocking' /\ Staged' /\ Answered' /\ Given'
<1>1. PICK x, y, b : x = req.x /\ y = req.y /\ b = req.band
  OBVIOUS
<1>2. PICK t : t = BlockTask(x, y, b)
  OBVIOUS
<1>3. /\ dpc = "block" /\ RunReturns /\ dpc' = "given" /\ answer' = (IF bad THEN "failed" ELSE "ok")
      /\ raster' = raster /\ req' = req /\ dst' = dst /\ ds = "open" /\ raster \in HeaderShape
  <2>1. FEInv /\ dpc = "block"
    BY DEF DriverInv, ReadInv, AllInv, BlockEnd
  <2>2. ds = "open"
    BY <2>1 DEF FEInv, DRTypeOK
  <2>3. QED
    BY <2>1, <2>2, OpenHeader DEF BlockEnd, openVars
<1>4. /\ job = BlockJob /\ x \in Nat /\ y \in Nat /\ tasks = <<t>> /\ DelInv
      /\ DOMAIN dst \subseteq Cells(raster) /\ IsFun(dst) /\ PlanInv
  BY <1>1, <1>2, <1>3 DEF DriverInv, Driving, Blocking, ReadInv, AllInv, RunReturns
<1>5. ASSUME ~bad
      PROVE  dst = [o \in Cells(raster) |->
                      LET p == o \div raster.bps
                      IN  SampleAt(1, raster, b, y * raster.tl + p \div raster.tw,
                                   x * raster.tw + (p % raster.tw))]
  <2>1. Len(tasks) = 1 /\ tasks[1] = t
    <3>1. Len(<<t>>) = 1 /\ <<t>>[1] = t
      OBVIOUS
    <3>2. QED
      BY <1>4, <3>1
  <2>2. next > 1 /\ next \in Int /\ \A w \in Workers : cur[w] = 0
    BY <1>3, <1>4, <2>1 DEF RunReturns, PlanInv
  <2>3. 1 \in 1..(next - 1)
    BY <2>2
  <2>4. Finished
    BY <1>4, <1>5 DEF DelInv
  <2>5. \A w \in Workers : cur[w] # 1
    BY <2>2
  <2>6. Delivered(tasks[1], "sample")
    BY <2>3, <2>4, <2>5 DEF Finished
  <2>7. Delivered(t, "sample")
    BY <2>1, <2>6
  <2>8. QED
    BY <1>2, <1>3, <1>4, <2>7, BlockDelivered
<1>6. Cells(raster)' = Cells(raster)
  BY <1>3
<1>7. BlockIsTile'
  <2> SUFFICES ASSUME answer' = "ok" PROVE BlockIsTile'
    BY DEF BlockIsTile
  <2>1. dst' = [o \in Cells(raster') |->
                  LET p == o \div raster'.bps
                  IN  SampleAt(1, raster', req'.band, req'.y * raster'.tl + p \div raster'.tw,
                               req'.x * raster'.tw + (p % raster'.tw))]
    BY <1>1, <1>3, <1>5
  <2>2. QED
    BY <2>1 DEF BlockIsTile, Cells
<1>8. Given'
  BY <1>3, <1>4, <1>6, <1>7 DEF Given
<1>9. QED
  BY <1>3, <1>8 DEF Asked, Fetching, Blocking, Staged, Answered

(* What does not go on with the plan.                                      *)
LEMMA AskKeeps ==
  ASSUME DriverInv, AskStep
  PROVE  Asked' /\ Fetching' /\ Blocking' /\ Staged' /\ Answered' /\ Given'
<1>1. ASSUME NEW r \in Requests, RasterIO(r)
      PROVE  Asked' /\ Fetching' /\ Blocking' /\ Staged' /\ Answered' /\ Given'
  <2>1. r \in RequestShape
    BY DriverAssumption
  <2>2. QED
    BY <1>1, <2>1, RasterIOKeeps
<1>2. ASSUME NEW r \in Requests, NEW b \in 1..raster.spp, BandRasterIO(r, b)
      PROVE  Asked' /\ Fetching' /\ Blocking' /\ Staged' /\ Answered' /\ Given'
  <2> DEFINE one == [r EXCEPT !.bands = <<b>>, !.band = 0]
  <2>1. RasterIO(one)
    BY <1>2 DEF BandRasterIO
  <2>2. one \in RequestShape
    <3>1. r \in RequestShape
      BY DriverAssumption
    <3>2. b \in Int
      <4>1. raster \in HeaderShape
        BY <2>1, OpenHeader DEF RasterIO, DriverInv, ReadInv, AllInv
      <4>2. QED
        BY <4>1 DEF HeaderShape
    <3>3. <<b>> \in Seq(Int) /\ 0 \in Int
      BY <3>2
    <3>4. QED
      BY <3>1, <3>3 DEF RequestShape
  <2> HIDE DEF one
  <2>3. QED
    BY <2>1, <2>2, RasterIOKeeps
<1>3. ASSUME NEW x \in 0..U16Max, NEW y \in 0..U16Max, NEW b,
             ReadBlock(x, y, b) \/ ReadBlockOverrun(x, y, b) \/ ReadBlockThrows(x, y, b)
      PROVE  Asked' /\ Fetching' /\ Blocking' /\ Staged' /\ Answered' /\ Given'
  BY <1>3, ReadBlockKeeps, BlockNotReadKeeps
<1>4. CASE ResampleFails
  <2>1. DOMAIN dst' = {} /\ dpc' = "done" /\ answer' = "failed"
    BY <1>4 DEF ResampleFails
  <2>2. QED
    BY <2>1 DEF Asked, Fetching, Blocking, Staged, Answered, Given
<1>5. CASE DriverReturn
  BY <1>5, IdleKeeps DEF DriverReturn
<1>6. QED
  BY <1>1, <1>2, <1>3, <1>4, <1>5, FastEndKeeps, StagingEndKeeps, ResampleKeeps, BlockEndKeeps
     DEF AskStep

LEMMA NothingKeeps ==
  ASSUME DriverInv, UNCHANGED feVars
  PROVE  Asked' /\ Fetching' /\ Blocking' /\ Staged' /\ Answered' /\ Given'
<1>1. /\ UNCHANGED plVars /\ raster' = raster /\ req' = req /\ dpc' = dpc /\ answer' = answer
  BY DEF feVars, openVars, askVars
<1>2. /\ UNCHANGED planVars /\ phase' = phase /\ job' = job /\ tasks' = tasks /\ dst' = dst
  BY <1>1 DEF plVars, planVars, tileVars
<1>3. /\ Readable(req)' <=> Readable(req)
      /\ JobFor(req)' = JobFor(req) /\ Staging(req)' = Staging(req)
      /\ ReadFits(req)' <=> ReadFits(req)
      /\ Answer(req)' = Answer(req)
  BY <1>1, RequestSame
<1>4. Fast(req)' = Fast(req) /\ Wanted(req)' = Wanted(req) /\ Cells(raster)' = Cells(raster)
      /\ BlockJob' = BlockJob /\ BlockTask(req.x, req.y, req.band)' = BlockTask(req.x, req.y, req.band)
  BY <1>1 DEF BlockJob, BlockTask
<1>5. Asked'
  BY <1>1, <1>3, <1>4 DEF DriverInv, Driving, Asked
<1>6. GeoInv => GeoInv'
  BY <1>2, GeoSame
<1>7. DelInv => DelInv'
  BY <1>1, DeliverySame
<1>8. Apart' <=> Apart
  BY <1>2, ApartSame
<1>9. Fetching'
  <2>1. PICK j : j = JobFor(req)
    OBVIOUS
  <2>2. QED
    BY <1>1, <1>2, <1>3, <1>6, <1>7, <1>8, <2>1 DEF DriverInv, Driving, Fetching
<1>10. Blocking'
  BY <1>1, <1>2, <1>4, <1>7 DEF DriverInv, Driving, Blocking
<1>11. Staged'
  <2>1. PICK s : s = Staging(req)
    OBVIOUS
  <2>2. Got(s) => Got(s)'
    BY <1>2 DEF Got
  <2>3. QED
    BY <1>1, <1>2, <1>3, <2>1, <2>2 DEF DriverInv, Driving, Staged
<1>12. Answered'
  BY <1>1, <1>2, <1>3, <1>4 DEF DriverInv, Driving, Answered
<1>13. Given'
  <2>1. BlockIsTile => BlockIsTile'
    BY <1>1, <1>2 DEF BlockIsTile
  <2>2. QED
    BY <1>1, <1>2, <1>4, <2>1 DEF DriverInv, Driving, Given
<1>14. QED
  BY <1>5, <1>9, <1>10, <1>11, <1>12, <1>13

(* Every step keeps the invariant.                                         *)
LEMMA DriverNextInv == DriverInv /\ [FENext]_feVars => DriverInv'
<1> SUFFICES ASSUME DriverInv, [FENext]_feVars PROVE DriverInv'
  OBVIOUS
<1>1. ReadInv' /\ IsFun(dst)'
  BY ReadNextInv, FunKeeps DEF DriverInv, Driving
<1>2. FEInv
  BY DEF DriverInv, ReadInv, AllInv
<1>3. Asked' /\ Fetching' /\ Blocking' /\ Staged' /\ Answered' /\ Given'
  <2>1. CASE UNCHANGED feVars
    BY <2>1, NothingKeeps
  <2>2. CASE ds \in {"unregistered", "none"} /\ UNCHANGED <<openVars, askVars>>
    <3>1. dpc = "idle" /\ dpc' = dpc
      BY <1>2, <2>2 DEF FEInv, DRTypeOK, askVars
    <3>2. QED
      BY <3>1, IdleKeeps
  <2>3. CASE OpenStep
    <3>1. dpc = "idle" /\ UNCHANGED askVars
      BY <1>2, <2>3 DEF FEInv, DRTypeOK, OpenStep, Parsed, RegisterDriver, CannotOpen, OpenFile, NoPRead,
                        MakeImage, OpenThrows, OpenDone, CloseImage
    <3>2. QED
      BY <3>1, IdleKeeps DEF askVars
  <2>4. QED
    BY <2>1, <2>2, <2>3, AskKeeps, PlanGoesOn DEF FENext, DRNext
<1>4. QED
  BY <1>1, <1>3 DEF DriverInv, Driving

LEMMA DriverInvariant == FESpec => []DriverInv
BY DriverInitInv, DriverNextInv, PTL DEF FESpec

(* A block that was read is the tile of its place, decoded, edge tiles     *)
(* included, whatever the image.                                           *)
THEOREM FEBlockIsTile == FESpec => []BlockIsTile
<1>1. DriverInv => BlockIsTile
  BY DEF DriverInv, Driving, Given, BlockIsTile
<1>2. QED
  BY <1>1, DriverInvariant, PTL

(* There is one way out of the buffers of the driver: a staged read whose  *)
(* window has more bytes than size_t can count, for which the buffer comes *)
(* out too small (MCStagingWrap shows it).  Otherwise every byte written   *)
(* is in the caller's buffer, in the staging buffer or in GDAL's block,    *)
(* whatever fails and whatever the edges of the tiles overflow to.         *)
THEOREM FEDriverWritesInside ==
  FESpec => [](~DriverWritesInside => dpc \in {"staging", "staged"} /\ ~RoomCounts(req))
<1>1. DriverInv => (~DriverWritesInside => dpc \in {"staging", "staged"} /\ ~RoomCounts(req))
  <2> SUFFICES ASSUME DriverInv, dpc \in {"staging", "staged"} => RoomCounts(req), NEW o \in DOMAIN dst
               PROVE  /\ o >= 0
                      /\ dpc \in {"staging", "staged"} => o + raster.bps <= StagingRoom(req)
                      /\ dpc = "block" => o + raster.bps <= raster.tw * raster.tl * raster.bps
                      /\ dpc = "fast" => \E p \in Positions(req) : o = Place(req, p)
    BY DEF DriverWritesInside
  <2>1. /\ ReadInv /\ Driving /\ FEInv /\ CallInv
        /\ dpc \in {"idle", "fast", "staging", "staged", "block", "given", "done"}
        /\ (dpc # "idle" => raster \in HeaderShape)
    <3>1. FEInv /\ CallInv
      BY DEF DriverInv, ReadInv, AllInv
    <3>2. QED
      BY <3>1, OpenHeader DEF DriverInv, FEInv, DRTypeOK
  <2>2. CASE dpc = "idle"
    <3>1. rpc # "idle" /\ rpc \in {"open", "work", "done"}
      BY <2>1, <2>2 DEF ReadInv, Resting, CallInv
    <3>2. Granted(call) /\ o \in Spotted(call)
      BY <2>1, <3>1 DEF ReadInv, Filling
    <3>3. PICK e \in Requested(call) : o = Bytes(call) * Spot(call, e)
      BY <3>2 DEF Spotted
    <3>4. o >= 0
      BY <3>2, <3>3, SpotInside
    <3>5. QED
      BY <2>2, <3>4
  <2>3. CASE dpc \in {"staging", "staged"}
    <3>1. Readable(req) /\ RoomCounts(req) /\ Hit(Staging(req), o)
      BY <2>1, <2>3 DEF Driving, Asked, Fetching, Staged, JobFor
    <3>2. o \in Nat /\ o + raster.bps <= StagingRoom(req)
      BY <3>1, StagingInside
    <3>3. QED
      BY <2>3, <3>2
  <2>4. CASE dpc \in {"block", "given"}
    <3>1. raster \in HeaderShape /\ o \in Cells(raster)
      BY <2>1, <2>4 DEF Driving, Blocking, Given
    <3>2. PICK w, l, b : w = raster.tw /\ l = raster.tl /\ b = raster.bps
      OBVIOUS
    <3>3. w \in Nat \ {0} /\ l \in Nat \ {0} /\ b \in Nat \ {0}
      <4>1. w \in 1..U16Max /\ l \in 1..U16Max /\ b \in 1..16
        BY <3>1, <3>2 DEF HeaderShape
      <4>2. QED
        BY <4>1, WidthAssumption
    <3>4. PICK j \in 0..(l - 1), i \in 0..(w - 1) : o = (j * w + i) * b
      BY <3>1, <3>2 DEF Cells
    <3>5. j * w + i \in 0..(l * w - 1)
      BY <3>3, DigitFits
    <3>6. o \in Nat /\ o + b <= w * l * b
      <4> DEFINE p == j * w + i
                 m == l * w
      <4>1. p \in 0..(m - 1) /\ m \in Nat
        BY <3>3, <3>5
      <4>2. w * l * b = m * b
        BY <3>3
      <4>3. o = p * b
        BY <3>4
      <4> HIDE DEF p, m
      <4>4. (p + 1) * b <= m * b /\ (p + 1) * b = p * b + b /\ p * b \in Nat
        BY <3>3, <4>1, ProductMonotone
      <4>5. QED
        BY <4>2, <4>3, <4>4
    <3>7. QED
      BY <2>4, <3>2, <3>6
  <2>5. CASE dpc \in {"fast", "done"}
    <3>1. Readable(req) /\ o \in Wanted(req)
      <4>1. CASE dpc = "done"
        BY <2>1, <4>1 DEF Driving, Answered
      <4>2. CASE dpc = "fast"
        <5>1. Readable(req) /\ Fast(req) /\ Hit(Straight(req), o)
          BY <2>1, <4>2 DEF Driving, Asked, Fetching, JobFor
        <5>2. PICK r : r = req
          OBVIOUS
        <5>3. PICK i, y, x : Within(Straight(r), i, y, x) /\ o = Target(Straight(r), i, y, x)
          BY <5>1, <5>2 DEF Hit
        <5>4. <<i, y, x>> \in Positions(r) /\ o = Place(r, <<i, y, x>>)
          BY <5>1, <5>2, <5>3, StraightPlaces
        <5>5. QED
          BY <5>1, <5>2, <5>4 DEF Wanted
      <4>3. QED
        BY <2>5, <4>1, <4>2
    <3>2. PICK p \in Positions(req) : o = Place(req, p)
      BY <3>1 DEF Wanted
    <3>3. o >= 0
      BY <3>1, <3>2, PlaceIsNat
    <3>4. QED
      BY <2>5, <3>2, <3>3
  <2>6. QED
    BY <2>1, <2>2, <2>3, <2>4, <2>5
<1>2. QED
  BY <1>1, DriverInvariant, PTL

(* A read that succeeds gives at every position the sample that the same   *)
(* read of the whole image would give there, and touches nothing else, as  *)
(* long as the edges of the tiles fit in int; where it is direct, as long  *)
(* as the caller's positions have places of their own; where it is staged, *)
(* as long as the bytes of the staging window can be counted in size_t and *)
(* a floating window lies in the window.                                   *)
THEOREM FEDriverReadExact ==
  FESpec => [](dpc = "done" /\ answer = "ok" /\ ReadFits(req) => DriverReadExact)
<1>1. DriverInv => (dpc = "done" /\ answer = "ok" /\ ReadFits(req) => DriverReadExact)
  BY DEF DriverInv, Driving, Answered, Answer, DriverReadExact
<1>2. QED
  BY <1>1, DriverInvariant, PTL


(* Two tasks of any plan have no byte of the buffer in common, so that the *)
(* workers may write it without a lock: stateless reads, direct and staged *)
(* ones, and blocks; as long as the caller gave every position of a direct *)
(* read a place of its own, and the bytes of a staging window can be       *)
(* counted in size_t.                                                      *)
THEOREM FEWorkersApart ==
  FESpec => []((dpc = "fast" => Distinct(req)) /\ (dpc = "staging" => RoomCounts(req)) => TasksDisjoint)
<1>1. DriverInv => ((dpc = "fast" => Distinct(req)) /\ (dpc = "staging" => RoomCounts(req)) => TasksDisjoint)
  <2> SUFFICES ASSUME DriverInv, dpc = "fast" => Distinct(req), dpc = "staging" => RoomCounts(req),
                      phase = "run"
               PROVE  TasksDisjoint
    BY DEF TasksDisjoint
  <2>1. ReadInv /\ Driving
    BY DEF DriverInv
  <2>2. ASSUME GeoInv, Apart PROVE TasksDisjoint
    <3>1. Separate /\ DOMAIN tasks = 1..Len(tasks)
      BY <2>2 DEF GeoInv, IsSeq
    <3>2. QED
      BY <3>1 DEF TasksDisjoint, Separate
  <2>3. CASE rpc = "work"
    BY <2>1, <2>2, <2>3 DEF ReadInv, Working
  <2>4. CASE dpc = "fast"
    <3>1. Readable(req) /\ Fast(req) /\ job = Straight(req) /\ GeoInv
      BY <2>1, <2>4 DEF Driving, Asked, Fetching, JobFor
    <3>2. QED
      BY <2>2, <2>4, <3>1, StraightApart
  <2>5. CASE dpc = "staging"
    <3>1. Readable(req) /\ job = Staging(req) /\ GeoInv
      BY <2>1, <2>5 DEF Driving, Asked, Fetching, JobFor
    <3>2. QED
      BY <2>2, <2>5, <3>1, StagingApart
  <2>6. CASE dpc = "block"
    <3>1. PICK t : t = BlockTask(req.x, req.y, req.band)
      OBVIOUS
    <3>2. tasks = <<t>>
      BY <2>1, <2>6, <3>1 DEF Driving, Blocking
    <3>3. DOMAIN <<t>> = {1}
      OBVIOUS
    <3>4. DOMAIN tasks = {1}
      BY <3>2, <3>3
    <3>5. QED
      BY <3>4 DEF TasksDisjoint
  <2>7. QED
    BY <2>1, <2>3, <2>4, <2>5, <2>6 DEF ReadInv, Resting
<1>2. QED
  BY <1>1, DriverInvariant, PTL

-----------------------------------------------------------------------------
(* The cache of the blocks, for any number of threads and blocks.          *)

(* How deep a thread is at each place.                                     *)
LEMMA DepthOfPlaces ==
  ASSUME NEW to \in Places
  PROVE  /\ DepthOf(to) \in Nat
         /\ DepthOf(to) = 0 <=> to = "out"
         /\ DepthOf(to) = 2 <=> to \in {"getTry", "getFlush"}
         /\ to \in Places \ {"out", "getTry", "getFlush"} => DepthOf(to) = 1
BY DEF DepthOf, Places

(* What a step at the mutex leaves of the invariant that says who is       *)
(* inside and how deep.                                                    *)
LEMMA LockKeepsMutexInv ==
  ASSUME BCTypeOK, MutexInv, NEW t \in Threads, NEW to \in Places, Lock(t), Goto(t, to),
         DepthOf(to) = DepthOf(tpc[t]) + 1
  PROVE  MutexInv'
<1>1. tpc' \in [Threads -> Places] /\ tpc'[t] = to
  BY DEF BCTypeOK, Goto
<1>2. depth = DepthOf(tpc[t])
  <2>1. CASE owner = t
    BY <2>1, BlockAssumption DEF MutexInv
  <2>2. CASE owner = NoThread
    BY <2>2, BlockAssumption DEF MutexInv, DepthOf
  <2>3. QED
    BY <2>1, <2>2 DEF Lock, Free
<1>3. \A u \in Threads : tpc'[u] # "out" => owner' = u
  BY BlockAssumption DEF BCTypeOK, MutexInv, Lock, Free, Goto
<1>4. to # "out"
  <2>1. DepthOf(tpc[t]) \in Nat
    BY DepthOfPlaces DEF BCTypeOK
  <2>2. QED
    BY <2>1, DepthOfPlaces
<1>5. QED
  BY <1>1, <1>2, <1>3, <1>4, BlockAssumption DEF MutexInv, Lock

LEMMA UnlockKeepsMutexInv ==
  ASSUME BCTypeOK, MutexInv, NEW t \in Threads, NEW to \in Places, tpc[t] # "out",
         Unlock, Goto(t, to), DepthOf(to) + 1 = DepthOf(tpc[t])
  PROVE  MutexInv'
<1>1. tpc' \in [Threads -> Places] /\ tpc'[t] = to
  BY DEF BCTypeOK, Goto
<1>2. owner = t /\ depth = DepthOf(tpc[t])
  BY BlockAssumption DEF MutexInv
<1>3. \A u \in Threads : u # t => tpc'[u] = "out"
  BY <1>2 DEF BCTypeOK, MutexInv, Goto
<1>4. DepthOf(to) \in Nat /\ (DepthOf(to) = 0 <=> to = "out")
  BY DepthOfPlaces
<1>5. QED
  BY <1>1, <1>2, <1>3, <1>4, BlockAssumption DEF MutexInv, Unlock

LEMMA StayKeepsMutexInv ==
  ASSUME BCTypeOK, MutexInv, NEW t \in Threads, NEW to \in Places, tpc[t] # "out",
         UNCHANGED <<owner, depth>>, Goto(t, to), DepthOf(to) = DepthOf(tpc[t]), to # "out"
  PROVE  MutexInv'
<1>1. tpc' \in [Threads -> Places] /\ tpc'[t] = to
  BY DEF BCTypeOK, Goto
<1>2. owner = t
  BY DEF MutexInv
<1>3. QED
  BY <1>1, <1>2, BlockAssumption DEF MutexInv, BCTypeOK, Goto

-----------------------------------------------------------------------------
LEMMA OnwardKeeps ==
  ASSUME BCInv, NEW t \in Threads, Onward(t)
  PROVE  BCInv'
<1> USE BlockAssumption DEF BCInv
<1>0. tpc[t] # "out" /\ owner = t /\ (\A u \in Threads : u # t => tpc[u] = "out") /\ at[t] \in Blocks
  BY DEF MutexInv, BCTypeOK, Onward, GetCallsTry, Try, AdoptBlock, BlockRead, BlockFails,
         GetCallsFlush, Flush, Leave
<1>1. CASE GetCallsTry(t)
  <2>1. BCTypeOK'
    BY <1>1 DEF GetCallsTry, BCTypeOK, Lock, Goto, Places
  <2>2. MutexInv'
    BY <1>1, LockKeepsMutexInv DEF GetCallsTry, DepthOf, Places
  <2>3. OwnBlockInv' /\ FreshIsBeingRead' /\ RefIsDecoded'
    BY <1>1, <1>0 DEF GetCallsTry, Lock, Goto, BCTypeOK, OwnBlockInv, FreshIsBeingRead, RefIsDecoded
  <2>4. QED
    BY <2>1, <2>2, <2>3
<1>2. CASE Try(t)
  <2>1. BCTypeOK'
    BY <1>2, <1>0 DEF Try, BCTypeOK, MutexInv, DepthOf, Unlock, Goto, Places
  <2>2. MutexInv'
    BY <1>2, <1>0, UnlockKeepsMutexInv DEF Try, DepthOf, Places
  <2>3. \A p \in Blocks : cache[p] # "fresh"
    BY <1>2, <1>0 DEF Try, FreshIsBeingRead
  <2>4. OwnBlockInv' /\ FreshIsBeingRead'
    BY <1>2, <1>0, <2>3 DEF Try, Goto, BCTypeOK, OwnBlockInv, FreshIsBeingRead
  <2>5. RefIsDecoded'
    BY <1>2, <1>0, <2>3 DEF Try, Goto, BCTypeOK, RefIsDecoded
  <2>6. QED
    BY <2>1, <2>2, <2>4, <2>5
<1>3. CASE AdoptBlock(t)
  <2>1. BCTypeOK'
    BY <1>3, <1>0 DEF AdoptBlock, BCTypeOK, Goto, Places
  <2>2. MutexInv'
    BY <1>3, <1>0, StayKeepsMutexInv DEF AdoptBlock, DepthOf, Places
  <2>3. OwnBlockInv' /\ FreshIsBeingRead' /\ RefIsDecoded'
    BY <1>3, <1>0 DEF AdoptBlock, Goto, BCTypeOK, OwnBlockInv, FreshIsBeingRead, RefIsDecoded
  <2>4. QED
    BY <2>1, <2>2, <2>3
<1>4. CASE BlockRead(t)
  <2>1. BCTypeOK'
    BY <1>4, <1>0 DEF BlockRead, BCTypeOK, Goto, Places
  <2>2. MutexInv'
    BY <1>4, <1>0, StayKeepsMutexInv DEF BlockRead, DepthOf, Places
  <2>3. OwnBlockInv' /\ FreshIsBeingRead' /\ RefIsDecoded'
    BY <1>4, <1>0 DEF BlockRead, Goto, BCTypeOK, OwnBlockInv, FreshIsBeingRead, RefIsDecoded
  <2>4. QED
    BY <2>1, <2>2, <2>3
<1>5. CASE BlockFails(t)
  <2>1. BCTypeOK'
    BY <1>5, <1>0 DEF BlockFails, BCTypeOK, Goto, Places
  <2>2. MutexInv'
    BY <1>5, <1>0, StayKeepsMutexInv DEF BlockFails, DepthOf, Places
  <2>3. OwnBlockInv' /\ FreshIsBeingRead' /\ RefIsDecoded'
    BY <1>5, <1>0 DEF BlockFails, Goto, BCTypeOK, OwnBlockInv, FreshIsBeingRead, RefIsDecoded
  <2>4. QED
    BY <2>1, <2>2, <2>3
<1>6. CASE GetCallsFlush(t)
  <2>1. BCTypeOK'
    BY <1>6 DEF GetCallsFlush, BCTypeOK, Lock, Goto, Places
  <2>2. MutexInv'
    BY <1>6, LockKeepsMutexInv DEF GetCallsFlush, DepthOf, Places
  <2>3. OwnBlockInv' /\ FreshIsBeingRead' /\ RefIsDecoded'
    BY <1>6, <1>0 DEF GetCallsFlush, Lock, Goto, BCTypeOK, OwnBlockInv, FreshIsBeingRead, RefIsDecoded
  <2>4. QED
    BY <2>1, <2>2, <2>3
<1>7. CASE Flush(t)
  <2>1. BCTypeOK'
    BY <1>7, <1>0 DEF Flush, BCTypeOK, MutexInv, DepthOf, Unlock, Goto, Places
  <2>2. MutexInv'
    BY <1>7, <1>0, UnlockKeepsMutexInv DEF Flush, DepthOf, Places
  <2>3. \A p \in Blocks : cache'[p] # "fresh"
    BY <1>7, <1>0 DEF Flush, FreshIsBeingRead, OwnBlockInv, BCTypeOK
  <2>4. OwnBlockInv' /\ FreshIsBeingRead'
    BY <1>7, <1>0, <2>3 DEF Flush, Goto, BCTypeOK, OwnBlockInv, FreshIsBeingRead
  <2>5. RefIsDecoded'
    BY <1>7, <1>0, <2>3 DEF Flush, Goto, BCTypeOK, RefIsDecoded
  <2>6. QED
    BY <2>1, <2>2, <2>4, <2>5
<1>8. CASE Leave(t)
  <2>1. BCTypeOK'
    BY <1>8, <1>0 DEF Leave, BCTypeOK, MutexInv, DepthOf, Unlock, Goto, Places
  <2>2. MutexInv'
    BY <1>8, <1>0, UnlockKeepsMutexInv DEF Leave, DepthOf, Places
  <2>3. OwnBlockInv' /\ FreshIsBeingRead' /\ RefIsDecoded'
    BY <1>8, <1>0 DEF Leave, Goto, BCTypeOK, OwnBlockInv, FreshIsBeingRead, RefIsDecoded
  <2>4. QED
    BY <2>1, <2>2, <2>3
<1>9. QED
  BY <1>1, <1>2, <1>3, <1>4, <1>5, <1>6, <1>7, <1>8 DEF Onward

LEMMA EnterKeeps ==
  ASSUME BCInv, NEW t \in Threads, NEW p \in Blocks, NEW to \in {"get", "try", "flush"},
         Enter(t, p, to)
  PROVE  BCInv'
<1> USE BlockAssumption DEF BCInv
<1>1. BCTypeOK'
  BY DEF Enter, BCTypeOK, Lock, Goto, Places
<1>2. MutexInv'
  BY LockKeepsMutexInv DEF Enter, DepthOf, Places
<1>3. owner = NoThread
  BY DEF Enter, Lock, Free, MutexInv
<1>4. OwnBlockInv' /\ FreshIsBeingRead' /\ RefIsDecoded'
  BY <1>3 DEF Enter, Goto, BCTypeOK, MutexInv, OwnBlockInv, FreshIsBeingRead, RefIsDecoded
<1>5. QED
  BY <1>1, <1>2, <1>4

LEMMA DropLockKeeps ==
  ASSUME BCInv, NEW t \in Threads, NEW p \in Blocks, DropLock(t, p)
  PROVE  BCInv'
<1> USE BlockAssumption DEF BCInv
<1>1. BCTypeOK' /\ MutexInv'
  BY DEF DropLock, BCTypeOK, MutexInv
<1>2. OwnBlockInv' /\ FreshIsBeingRead' /\ RefIsDecoded'
  BY DEF DropLock, BCTypeOK, OwnBlockInv, FreshIsBeingRead, RefIsDecoded
<1>3. QED
  BY <1>1, <1>2

LEMMA EvictKeeps ==
  ASSUME BCInv, NEW p \in Blocks, Evict(p)
  PROVE  BCInv'
<1> USE BlockAssumption DEF BCInv
<1>1. BCTypeOK' /\ MutexInv'
  BY DEF Evict, BCTypeOK, MutexInv
<1>2. OwnBlockInv' /\ FreshIsBeingRead' /\ RefIsDecoded'
  BY DEF Evict, BCTypeOK, OwnBlockInv, FreshIsBeingRead, RefIsDecoded
<1>3. QED
  BY <1>1, <1>2

(* The invariant of the block cache is inductive.                          *)
THEOREM BCInvariant == BCSpec => []BCInv
<1>1. BCInit => BCInv
  BY BlockAssumption DEF BCInit, BCInv, BCTypeOK, MutexInv, OwnBlockInv, FreshIsBeingRead,
     RefIsDecoded, Places
<1>2. BCInv /\ [BCNext]_bcVars => BCInv'
  <2> SUFFICES ASSUME BCInv, [BCNext]_bcVars PROVE BCInv'
    OBVIOUS
  <2>1. CASE UNCHANGED bcVars
    BY <2>1 DEF bcVars, BCInv, BCTypeOK, MutexInv, OwnBlockInv, FreshIsBeingRead, RefIsDecoded
  <2>2. ASSUME NEW t \in Threads, Onward(t) PROVE BCInv'
    BY <2>2, OnwardKeeps
  <2>3. ASSUME NEW t \in Threads, NEW p \in Blocks,
               EnterGet(t, p) \/ EnterTry(t, p) \/ EnterFlush(t, p)
        PROVE  BCInv'
    BY <2>3, EnterKeeps DEF EnterGet, EnterTry, EnterFlush
  <2>4. ASSUME NEW t \in Threads, NEW p \in Blocks, DropLock(t, p) PROVE BCInv'
    BY <2>4, DropLockKeeps
  <2>5. ASSUME NEW p \in Blocks, Evict(p) PROVE BCInv'
    BY <2>5, EvictKeeps
  <2>6. QED
    BY <2>1, <2>2, <2>3, <2>4, <2>5 DEF BCNext
<1>3. QED
  BY <1>1, <1>2, PTL DEF BCSpec

(* A block a thread was given is decoded and stays.                        *)
THEOREM BCRefIsDecoded == BCSpec => []RefIsDecoded
<1>1. BCInv => RefIsDecoded
  BY DEF BCInv
<1>2. QED
  BY <1>1, BCInvariant, PTL

(* An unread block is in the cache only while it is being read.            *)
THEOREM BCFreshIsBeingRead == BCSpec => []FreshIsBeingRead
<1>1. BCInv => FreshIsBeingRead
  BY DEF BCInv
<1>2. QED
  BY <1>1, BCInvariant, PTL

=============================================================================
