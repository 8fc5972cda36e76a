---------------------------- MODULE FrontEndsProofs ----------------------------
(***************************************************************************)
(* What is proved about the plans, the stateless reads and the GDAL        *)
(* driver, for images, windows and workers of every size, every call and   *)
(* every request: no task leaves the tile buffer or the tables of its      *)
(* image, whatever an int that overflows is given as, and planning leaves  *)
(* the tables only where uint64 cannot count the tiles; a file is open     *)
(* exactly as long as something owns it; and the staging window of a       *)
(* resampled read holds what was asked for.                                *)
(***************************************************************************)
EXTENDS FrontEnds, ArithmeticProofs

(* uint32 is wide enough to round a positive int up to tiles.              *)
LEMMA TilesOverIsCeil ==
  ASSUME NEW e \in 1..IntMax, NEW t \in 1..U16Max
  PROVE  TilesOver(e, t) = (e + t - 1) \div t /\ (e + t - 1) \div t \in Nat
<1>1. e + t - 1 \in 0..U32Max
  BY WidthAssumption
<1>2. U32(e + t - 1) = e + t - 1
  BY <1>1, NoWrap, WidthAssumption DEF U32
<1>3. QED
  BY <1>2, RoundUp, WidthAssumption DEF TilesOver

(* The index of a tile of the grid, wrapped or not, is in the tables.      *)
LEMMA TileIndexBelow ==
  ASSUME NEW D \in Nat, NEW A \in Nat, NEW S \in Nat,
         NEW r \in 0..(D - 1), NEW c \in 0..(A - 1), NEW s \in 0..(S - 1)
  PROVE  TileIndex(A, S, r, c, s) \in Nat /\ TileIndex(A, S, r, c, s) < A * D * S
  BY IndexBelow, WidthAssumption DEF TileIndex, U32, GridIndex

LEMMA MinOfTwo ==
  ASSUME NEW a \in Int, NEW b \in Int
  PROVE  Min({a, b}) \in {a, b} /\ Min({a, b}) <= a /\ Min({a, b}) <= b
<1>1. \E x \in {a, b} : \A y \in {a, b} : x <= y
  OBVIOUS
<1>2. QED
  BY <1>1 DEF Min

LEMMA MaxOfTwo ==
  ASSUME NEW a \in Int, NEW b \in Int
  PROVE  Max({a, b}) \in {a, b} /\ a <= Max({a, b}) /\ b <= Max({a, b})
<1>1. \E x \in {a, b} : \A y \in {a, b} : x >= y
  OBVIOUS
<1>2. QED
  BY <1>1 DEF Max

LEMMA MinOfThree ==
  ASSUME NEW a \in Int, NEW b \in Int, NEW c \in Int
  PROVE  Min({a, b, c}) \in Int /\ Min({a, b, c}) <= a /\ Min({a, b, c}) <= b /\ Min({a, b, c}) <= c
<1>1. \E x \in {a, b, c} : \A y \in {a, b, c} : x <= y
  OBVIOUS
<1>2. Min({a, b, c}) \in {a, b, c} /\ \A y \in {a, b, c} : Min({a, b, c}) <= y
  BY <1>1 DEF Min
<1>3. QED
  BY <1>2

-----------------------------------------------------------------------------
(* What build_plan is given: a window inside the image, and bands of it.   *)
IsSeq(s) == \E S : s \in Seq(S)

JobOk(j) ==
  /\ j.h \in HeaderShape
  /\ j.x_off \in Nat /\ j.x_size \in Nat \ {0} /\ j.x_off + j.x_size <= j.h.width
  /\ j.y_off \in Nat /\ j.y_size \in Nat \ {0} /\ j.y_off + j.y_size <= j.h.length
  /\ IsSeq(j.bands) /\ \A i \in DOMAIN j.bands : j.bands[i] \in 1..j.h.spp

(* A task inside its tile, and inside the grid of tiles or the tables of   *)
(* the header.                                                             *)
RectOk(h, t) ==
  /\ t.src_x >= 0 /\ t.w > 0 /\ t.src_x + t.w <= h.tw
  /\ t.src_y >= 0 /\ t.h > 0 /\ t.src_y + t.h <= h.tl

InGrid(h, t) ==
  /\ t.idx \in Nat
  /\ t.idx < TilesOver(h.width, h.tw) * TilesOver(h.length, h.tl) * h.spp

TaskOk(h, t) == t.idx < Entries(h) /\ RectOk(h, t)

Planning ==
  /\ JobOk(job)
  /\ tx \in Nat /\ tx < TileEnd(job.x_off, job.x_size, job.h.tw)
  /\ ty \in Nat

PlanInv ==
  /\ phase \in {"none", "plan", "run", "overrun"} /\ bad \in BOOLEAN
  /\ phase = "overrun" => Wraps(job.h)
  /\ IsSeq(tasks) /\ (phase = "none" => tasks = <<>>)
  /\ next \in 1..(Len(tasks) + 1)
  /\ cur \in [Workers -> 0..(next - 1)]
  /\ stage \in [Workers -> {"idle", "fetched", "inflated"}]
  /\ \A w \in Workers : (stage[w] = "idle") <=> (cur[w] = 0)
  /\ phase = "plan" => Planning
  /\ phase # "none" => \A i \in 1..Len(tasks) : TaskOk(job.h, tasks[i])

LEMMA PlanInvTypes == ASSUME PlanInv PROVE PlanTypeOK
<1>1. Len(tasks) \in Nat /\ DOMAIN tasks = 1..Len(tasks)
  BY DEF PlanInv, IsSeq
<1>2. ASSUME NEW t \in ToSet(tasks) PROVE TaskOk(job.h, t)
  <2>1. PICK i \in 1..Len(tasks) : t = tasks[i]
    BY <1>1 DEF ToSet
  <2>2. phase # "none"
    BY <1>1, <2>1 DEF PlanInv
  <2>3. QED
    BY <2>1, <2>2 DEF PlanInv
<1>3. QED
  BY <1>1, <1>2 DEF PlanTypeOK, TaskOk, RectOk, PlanInv

LEMMA PlanInitInv == PLInit => PlanInv
<1>1. IsSeq(<<>>) /\ Len(<<>>) = 0
  BY DEF IsSeq
<1> SUFFICES ASSUME PLInit PROVE PlanInv
  OBVIOUS
<1>2. tasks = <<>> /\ next = 1 /\ phase = "none" /\ bad = FALSE
  BY DEF PLInit
<1>3. cur \in [Workers -> 0..(next - 1)] /\ stage \in [Workers -> {"idle", "fetched", "inflated"}]
  BY <1>2 DEF PLInit
<1>4. next \in 1..(Len(tasks) + 1) /\ IsSeq(tasks)
  BY <1>1, <1>2
<1>5. \A w \in Workers : (stage[w] = "idle") <=> (cur[w] = 0)
  BY DEF PLInit
<1>6. QED
  BY <1>2, <1>3, <1>4, <1>5 DEF PlanInv

-----------------------------------------------------------------------------
(* Planning.                                                               *)

LEMMA BuildPlanPreserves == ASSUME PlanInv, NEW j, JobOk(j), BuildPlan(j) PROVE PlanInv'
<1>1. phase = "none" /\ tasks = <<>> /\ job' = j /\ phase' = "plan" /\ UNCHANGED <<tasks, tileVars>>
  BY DEF BuildPlan, PlanInv
<1>2. j.x_off \in Nat /\ j.y_off \in Nat /\ j.x_size \in Nat \ {0}
      /\ j.h.tw \in Nat \ {0} /\ j.h.tl \in Nat \ {0}
  BY DEF JobOk, HeaderShape
<1>3. tx' \in Nat /\ ty' \in Nat
  BY <1>2, RoundDown DEF BuildPlan
<1>4. tx' < TileEnd(j.x_off, j.x_size, j.h.tw)
  <2>1. j.x_off + j.x_size \in Nat /\ j.x_off + 1 <= j.x_off + j.x_size
    BY <1>2
  <2>2. QED
    BY <1>2, <2>1, QuotientBelow DEF BuildPlan, TileEnd
<1>5. Planning'
  BY <1>1, <1>3, <1>4 DEF Planning
<1>6. Len(tasks) = 0
  BY <1>1
<1>7. QED
  BY <1>1, <1>5, <1>6 DEF PlanInv, tileVars

(* The tiles of a window are tiles of the image.                           *)
LEMMA TileInGrid ==
  ASSUME NEW off \in Nat, NEW size \in Nat \ {0}, NEW tile \in 1..U16Max, NEW extent \in 1..IntMax,
         off + size <= extent, NEW t \in Nat, t < TileEnd(off, size, tile)
  PROVE  t \in 0..(TilesOver(extent, tile) - 1) /\ TilesOver(extent, tile) \in Nat
<1>1. /\ TilesOver(extent, tile) = (extent + tile - 1) \div tile
      /\ (extent + tile - 1) \div tile \in Nat
  BY TilesOverIsCeil
<1>2. /\ off + size + tile - 1 \in Nat /\ extent + tile - 1 \in Nat
      /\ off + size + tile - 1 <= extent + tile - 1 /\ tile \in Nat \ {0}
  BY WidthAssumption
<1>3. TileEnd(off, size, tile) <= (extent + tile - 1) \div tile
  BY <1>2, QuotientMonotone DEF TileEnd
<1>4. TileEnd(off, size, tile) \in Nat
  BY <1>2 DEF TileEnd
<1>5. QED
  BY <1>1, <1>3, <1>4

(* One axis of a task: however the edge of the tile came out of int.       *)
LEMMA ClipInTile ==
  ASSUME NEW t \in Nat, NEW tile \in Nat, NEW off \in Int, NEW end \in Int, NEW extent \in Int,
         NEW edge \in IntSum(t * tile, tile)
  PROVE  /\ Max({t * tile, off}) \in Int /\ t * tile <= Max({t * tile, off})
         /\ ClipEnd(edge, end, extent) \in Int /\ ClipEnd(edge, end, extent) <= t * tile + tile
<1>1. t * tile \in Nat
  OBVIOUS
<1>2. Max({t * tile, off}) \in Int /\ t * tile <= Max({t * tile, off})
  <2> DEFINE p == t * tile
  <2>1. p \in Int
    BY <1>1
  <2> HIDE DEF p
  <2>2. Max({p, off}) \in Int /\ p <= Max({p, off})
    BY <2>1, MaxOfTwo
  <2>3. QED
    BY <2>2 DEF p
<1>3. edge \in Int /\ edge <= t * tile + tile
  BY <1>1, WidthAssumption DEF IntSum
<1>4. ClipEnd(edge, end, extent) \in Int /\ ClipEnd(edge, end, extent) <= edge
  BY <1>3, MinOfThree DEF ClipEnd
<1>5. QED
  BY <1>1, <1>2, <1>3, <1>4

LEMMA TasksOfOk ==
  ASSUME Planning, MoreTiles,
         NEW right \in IntSum(tx * job.h.tw, job.h.tw), NEW bottom \in IntSum(ty * job.h.tl, job.h.tl)
  PROVE  /\ IsSeq(TasksOf(right, bottom))
         /\ \A i \in DOMAIN TasksOf(right, bottom) :
              InGrid(job.h, TasksOf(right, bottom)[i]) /\ RectOk(job.h, TasksOf(right, bottom)[i])
<1> DEFINE h == job.h
           A == TilesOver(h.width, h.tw)
           D == TilesOver(h.length, h.tl)
           px == tx * h.tw
           py == ty * h.tl
           ix0 == Max({px, job.x_off})
           iy0 == Max({py, job.y_off})
           ix1 == ClipEnd(right, job.x_off + job.x_size, h.width)
           iy1 == ClipEnd(bottom, job.y_off + job.y_size, h.length)
<1>1. /\ h.width \in 1..IntMax /\ h.length \in 1..IntMax /\ h.tw \in 1..U16Max /\ h.tl \in 1..U16Max
      /\ h.spp \in 1..U16Max
  BY DEF Planning, JobOk, HeaderShape
<1>2. tx \in 0..(A - 1) /\ A \in Nat /\ ty \in 0..(D - 1) /\ D \in Nat
  BY <1>1, TileInGrid DEF Planning, JobOk, MoreTiles
<1>3. /\ ix0 \in Int /\ px <= ix0 /\ ix1 \in Int /\ ix1 <= px + h.tw
      /\ iy0 \in Int /\ py <= iy0 /\ iy1 \in Int /\ iy1 <= py + h.tl
  <2>1. h.tw \in Nat /\ h.tl \in Nat /\ h.width \in Int /\ h.length \in Int
        /\ tx \in Nat /\ ty \in Nat /\ job.x_off \in Int /\ job.y_off \in Int
        /\ job.x_off + job.x_size \in Int /\ job.y_off + job.y_size \in Int
    BY <1>1 DEF Planning, JobOk
  <2>2. QED
    BY <2>1, ClipInTile
<1>4. px \in Int /\ py \in Int
  BY <1>1, <1>2
<1>5. CASE ix1 <= ix0 \/ iy1 <= iy0
  <2>1. TasksOf(right, bottom) = <<>>
    BY <1>5 DEF TasksOf
  <2>2. QED
    BY <2>1 DEF IsSeq
<1>6. CASE ~(ix1 <= ix0 \/ iy1 <= iy0)
  <2> DEFINE T == TasksOf(right, bottom)
  <2>1. DOMAIN T = DOMAIN job.bands
    BY <1>6 DEF TasksOf
  <2>2. PICK S : job.bands \in Seq(S)
    BY DEF Planning, JobOk, IsSeq
  <2>3. DOMAIN job.bands = 1..Len(job.bands) /\ Len(job.bands) \in Nat
    BY <2>2
  <2>4. T = [i \in 1..Len(job.bands) |-> T[i]]
    BY <1>6, <2>3 DEF TasksOf
  <2>5. IsSeq(T)
    <3>1. T \in Seq({T[i] : i \in 1..Len(job.bands)})
      BY <2>3, <2>4
    <3>2. QED
      BY <3>1 DEF IsSeq
  <2>6. ASSUME NEW i \in DOMAIN job.bands PROVE InGrid(h, T[i]) /\ RectOk(h, T[i])
    <3>1. /\ T[i].idx = TileIndex(A, h.spp, ty, tx, job.bands[i] - 1)
          /\ T[i].src_x = ix0 - px /\ T[i].src_y = iy0 - py
          /\ T[i].w = ix1 - ix0 /\ T[i].h = iy1 - iy0
      BY <1>6 DEF TasksOf
    <3>2. h.spp \in Nat /\ job.bands[i] - 1 \in 0..(h.spp - 1)
      BY <1>1 DEF Planning, JobOk
    <3>3. /\ TileIndex(A, h.spp, ty, tx, job.bands[i] - 1) \in Nat
          /\ TileIndex(A, h.spp, ty, tx, job.bands[i] - 1) < A * D * h.spp
      BY <1>2, <3>2, TileIndexBelow
    <3> HIDE DEF ix0, ix1, iy0, iy1, px, py, T, A, D
    <3>4. /\ ix0 - px >= 0 /\ ix1 - ix0 > 0 /\ (ix0 - px) + (ix1 - ix0) <= h.tw
          /\ iy0 - py >= 0 /\ iy1 - iy0 > 0 /\ (iy0 - py) + (iy1 - iy0) <= h.tl
      BY <1>1, <1>3, <1>4, <1>6
    <3>5. QED
      BY <3>1, <3>3, <3>4 DEF InGrid, RectOk, A, D
  <2>7. QED
    BY <2>1, <2>5, <2>6
<1>7. QED
  BY <1>5, <1>6

LEMMA GridSize ==
  ASSUME NEW h \in HeaderShape
  PROVE  /\ TilesOver(h.width, h.tw) * TilesOver(h.length, h.tl) * h.spp \in Nat
         /\ Entries(h) \in Nat
<1>1. /\ h.width \in 1..IntMax /\ h.length \in 1..IntMax
      /\ h.tw \in 1..U16Max /\ h.tl \in 1..U16Max /\ h.spp \in 1..U16Max
  BY DEF HeaderShape
<1>2. TilesOver(h.width, h.tw) \in Nat /\ TilesOver(h.length, h.tl) \in Nat /\ h.spp \in Nat
  BY <1>1, TilesOverIsCeil
<1>3. TilesOver(h.width, h.tw) * TilesOver(h.length, h.tl) * h.spp \in Nat
  BY <1>2
<1>4. QED
  BY <1>3, WrapIsSmaller, WidthAssumption DEF Entries, TileProduct, U64

(* An index of the grid is in the tables, unless uint64 wrapped their size. *)
LEMMA GridInTables ==
  ASSUME NEW h \in HeaderShape, NEW t, InGrid(h, t), ~Wraps(h)
  PROVE  t.idx < Entries(h)
<1> DEFINE n == TilesOver(h.width, h.tw) * TilesOver(h.length, h.tl) * h.spp
<1>1. n \in Nat /\ ~(n > U64Max)
  BY GridSize DEF Wraps
<1> HIDE DEF n
<1>2. n % (U64Max + 1) = n
  BY <1>1, NoWrap, WidthAssumption
<1>3. Entries(h) = n
  BY <1>2 DEF Entries, TileProduct, U64, n
<1>4. QED
  BY <1>3 DEF InGrid, n

LEMMA PlanOverrunPreserves == ASSUME PlanInv, PlanOverrun PROVE PlanInv'
<1>1. /\ phase = "plan" /\ MoreTiles /\ Planning /\ phase' = "overrun"
      /\ UNCHANGED <<job, ty, tx, tasks, tileVars>>
  BY DEF PlanOverrun, PlanInv
<1>2. PICK right \in IntSum(tx * job.h.tw, job.h.tw), bottom \in IntSum(ty * job.h.tl, job.h.tl) :
        ~InTables(TasksOf(right, bottom))
  BY DEF PlanOverrun
<1> DEFINE T == TasksOf(right, bottom)
<1>3. PICK i \in DOMAIN T : ~(T[i].idx < Entries(job.h))
  BY <1>2 DEF InTables, ToSet
<1>4. InGrid(job.h, T[i])
  BY <1>1, <1>3, TasksOfOk
<1>5. Wraps(job.h)
  BY <1>1, <1>3, <1>4, GridInTables DEF Planning, JobOk
<1>6. QED
  BY <1>1, <1>5 DEF PlanInv, tileVars

LEMMA PlanTilePreserves == ASSUME PlanInv, PlanTile PROVE PlanInv'
<1>1. phase = "plan" /\ MoreTiles /\ Planning /\ UNCHANGED <<phase, job, tileVars>>
  BY DEF PlanTile, PlanInv
<1>2. PICK right \in IntSum(tx * job.h.tw, job.h.tw), bottom \in IntSum(ty * job.h.tl, job.h.tl) :
        InTables(TasksOf(right, bottom)) /\ tasks' = tasks \o TasksOf(right, bottom)
  BY DEF PlanTile
<1> DEFINE T == TasksOf(right, bottom)
<1>3. IsSeq(T) /\ \A i \in DOMAIN T : TaskOk(job.h, T[i])
  <2>1. IsSeq(T) /\ \A i \in DOMAIN T : RectOk(job.h, T[i])
    BY <1>1, TasksOfOk
  <2> HIDE DEF T
  <2>2. InTables(T)
    BY <1>2 DEF T
  <2>3. \A i \in DOMAIN T : T[i].idx < Entries(job.h)
    BY <2>2 DEF InTables, ToSet
  <2>4. QED
    BY <2>1, <2>3 DEF TaskOk
<1> HIDE DEF T
<1>4. PICK S, U : tasks \in Seq(S) /\ T \in Seq(U)
  BY <1>3 DEF PlanInv, IsSeq
<1>5. /\ tasks \in Seq(S \cup U) /\ T \in Seq(S \cup U) /\ tasks' = tasks \o T
  BY <1>2, <1>4 DEF T
<1>6. /\ tasks' \in Seq(S \cup U)
      /\ Len(tasks') = Len(tasks) + Len(T) /\ Len(tasks) \in Nat /\ Len(T) \in Nat
      /\ \A i \in 1..Len(tasks') : IF i <= Len(tasks) THEN tasks'[i] = tasks[i]
                                     ELSE tasks'[i] = T[i - Len(tasks)]
  BY <1>5
<1>7. \A i \in 1..Len(tasks') : TaskOk(job.h, tasks'[i])
  <2> SUFFICES ASSUME NEW i \in 1..Len(tasks') PROVE TaskOk(job.h, tasks'[i])
    OBVIOUS
  <2>1. CASE i <= Len(tasks)
    <3>1. i \in 1..Len(tasks) /\ tasks'[i] = tasks[i]
      BY <1>6, <2>1
    <3>2. QED
      BY <1>1, <3>1 DEF PlanInv
  <2>2. CASE ~(i <= Len(tasks))
    <3>1. i - Len(tasks) \in DOMAIN T /\ tasks'[i] = T[i - Len(tasks)]
      BY <1>4, <1>6, <2>2
    <3>2. QED
      BY <1>3, <3>1
  <2>3. QED
    BY <2>1, <2>2
<1>8. Planning'
  <2>1. tx' \in Nat /\ tx' < TileEnd(job.x_off, job.x_size, job.h.tw) /\ ty' \in Nat
    <3>1. CASE tx + 1 < TileEnd(job.x_off, job.x_size, job.h.tw)
      BY <1>1, <3>1 DEF PlanTile, Planning
    <3>2. CASE ~(tx + 1 < TileEnd(job.x_off, job.x_size, job.h.tw))
      <4>1. tx' = job.x_off \div job.h.tw /\ ty' = ty + 1
        BY <3>2 DEF PlanTile
      <4>2. /\ job.x_off \in Nat /\ job.x_size \in Nat \ {0} /\ job.h.tw \in Nat \ {0}
            /\ job.x_off + job.x_size \in Nat /\ job.x_off + 1 <= job.x_off + job.x_size
        BY <1>1 DEF Planning, JobOk, HeaderShape
      <4>3. job.x_off \div job.h.tw < TileEnd(job.x_off, job.x_size, job.h.tw)
        BY <4>2, QuotientBelow DEF TileEnd
      <4>4. job.x_off \div job.h.tw \in Nat
        BY <4>2, RoundDown
      <4>5. QED
        BY <1>1, <4>1, <4>3, <4>4 DEF Planning
    <3>3. QED
      BY <3>1, <3>2
  <2>2. QED
    BY <1>1, <2>1 DEF Planning
<1>9. next \in 1..(Len(tasks') + 1) /\ next' = next
  BY <1>1, <1>6 DEF PlanInv, tileVars
<1>10. IsSeq(tasks')
  BY <1>6 DEF IsSeq
<1>11. QED
  BY <1>1, <1>7, <1>8, <1>9, <1>10 DEF PlanInv, tileVars

-----------------------------------------------------------------------------
(* The workers.                                                            *)

LEMMA PlanStepPreserves == ASSUME PlanInv, PlanStep PROVE PlanInv'
<1> USE DEF PlanInv, planVars, tileVars
<1>1. CASE PlanTile
  BY <1>1, PlanTilePreserves
<1>2. CASE PlanEnd
  BY <1>2 DEF PlanEnd
<1>3. Len(tasks) \in Nat
  BY DEF IsSeq
<1>4. ASSUME NEW w \in Workers, Fetch(w) PROVE PlanInv'
  BY <1>3, <1>4 DEF Fetch, Planning
<1>5. ASSUME NEW w \in Workers, FetchFails(w) PROVE PlanInv'
  BY <1>3, <1>5 DEF FetchFails, Planning
<1>6. ASSUME NEW w \in Workers, Inflate(w) PROVE PlanInv'
  <2>1. UNCHANGED <<phase, job, ty, tx, tasks, next>>
    BY <1>6 DEF Inflate
  <2>2. \/ stage' = [stage EXCEPT ![w] = "inflated"] /\ UNCHANGED <<cur, bad>>
        \/ Fail(w)
    BY <1>6 DEF Inflate
  <2>3. stage[w] = "fetched"
    BY <1>6 DEF Inflate
  <2>4. bad' \in BOOLEAN /\ cur' \in [Workers -> 0..(next - 1)]
    <3>1. 0 \in 0..(next - 1)
      BY <1>3
    <3>2. bad \in BOOLEAN /\ cur \in [Workers -> 0..(next - 1)]
      OBVIOUS
    <3> HIDE DEF PlanInv
    <3>3. QED
      BY <2>2, <3>1, <3>2 DEF Fail
  <2>5. stage' \in [Workers -> {"idle", "fetched", "inflated"}]
    BY <2>2 DEF Fail
  <2>6. \A v \in Workers : (stage'[v] = "idle") <=> (cur'[v] = 0)
    BY <2>2, <2>3 DEF Fail
  <2>7. QED
    BY <2>1, <2>4, <2>5, <2>6 DEF Planning
<1>7. ASSUME NEW w \in Workers, Deliver(w) PROVE PlanInv'
  BY <1>7 DEF Deliver, Planning
<1>8. CASE PlanOverrun
  BY <1>8, PlanOverrunPreserves
<1>9. CASE AfterPlanOverrun
  BY <1>9 DEF AfterPlanOverrun, plVars, Planning
<1>10. QED
  BY <1>1, <1>2, <1>4, <1>5, <1>6, <1>7, <1>8, <1>9 DEF PlanStep

LEMMA RunReturnsPreserves == ASSUME PlanInv, RunReturns PROVE PlanInv'
<1>1. Len(<<>>) = 0 /\ IsSeq(<<>>)
  BY DEF IsSeq
<1>2. next' = 1 /\ tasks' = <<>> /\ phase' = "none" /\ bad' = FALSE
  BY DEF RunReturns
<1>3. cur' \in [Workers -> 0..(next' - 1)]
  <2>1. \A w \in Workers : cur[w] = 0
    BY DEF RunReturns
  <2>2. cur \in [Workers -> 0..0]
    BY <2>1 DEF PlanInv
  <2>3. QED
    BY <1>2, <2>2 DEF RunReturns
<1>4. next' \in 1..(Len(tasks') + 1)
  BY <1>1, <1>2
<1>5. /\ stage' \in [Workers -> {"idle", "fetched", "inflated"}]
      /\ \A w \in Workers : (stage'[w] = "idle") <=> (cur'[w] = 0)
  BY DEF RunReturns, PlanInv
<1>6. IsSeq(tasks')
  BY <1>1, <1>2
<1>7. QED
  BY <1>2, <1>3, <1>4, <1>5, <1>6 DEF PlanInv

-----------------------------------------------------------------------------
(* One axis of the staging window.                                         *)
LEMMA AxisCovered ==
  ASSUME NEW off \in Nat, NEW size \in Nat, NEW tile \in Nat \ {0}, NEW extent \in Nat,
         off + size <= extent
  PROVE  /\ AlignedOff(off, tile) \in Nat /\ AlignedOff(off, tile) <= off
         /\ AlignedEnd(off, size, tile, extent) \in Nat
         /\ off + size <= AlignedEnd(off, size, tile, extent)
         /\ AlignedEnd(off, size, tile, extent) <= extent
<1>1. off + size \in Nat
  OBVIOUS
<1>2. /\ ((off + size + tile - 1) \div tile) * tile \in Nat
      /\ off + size <= ((off + size + tile - 1) \div tile) * tile
  BY <1>1, RoundUp
<1>3. AlignedOff(off, tile) \in Nat /\ AlignedOff(off, tile) <= off
  BY RoundDown DEF AlignedOff
<1> DEFINE up == ((off + size + tile - 1) \div tile) * tile
<1>4. AlignedEnd(off, size, tile, extent) \in {extent, up} /\ AlignedEnd(off, size, tile, extent) <= extent
  <2>1. up \in Int /\ extent \in Int
    BY <1>2
  <2> HIDE DEF up
  <2>2. Min({extent, up}) \in {extent, up} /\ Min({extent, up}) <= extent
    BY <2>1, MinOfTwo
  <2>3. QED
    BY <2>2 DEF AlignedEnd, up
<1>5. QED
  BY <1>1, <1>2, <1>3, <1>4

-----------------------------------------------------------------------------
(* What a request has to be for its staging window to exist; the dataset   *)
(* it is about stays open until the answer.                                *)
Windowed(r) ==
  /\ r.x_off \in Nat /\ r.x_size \in Nat /\ r.x_off + r.x_size <= raster.width
  /\ r.y_off \in Nat /\ r.y_size \in Nat /\ r.y_off + r.y_size <= raster.length

StagedInv == dpc \in {"staging", "staged"} => Windowed(req)

FEInv == DRTypeOK /\ StagedInv

LEMMA FEInitInv == FEInit => FEInv
BY DriverAssumption DEF FEInit, DRInit, FEInv, DRTypeOK, StagedInv

(* Image::Open and GDALClose.                                              *)
LEMMA OpenPreserves == ASSUME FEInv, OpenStep PROVE FEInv'
<1> USE DEF FEInv, DRTypeOK, StagedInv, Windowed, openVars, askVars
<1>1. ASSUME NEW h \in Rasters, Parsed(h) PROVE FEInv'
  BY <1>1, DriverAssumption DEF Parsed
<1>2. CASE RegisterDriver
  BY <1>2 DEF RegisterDriver
<1>3. CASE CannotOpen
  BY <1>3 DEF CannotOpen
<1>4. CASE OpenFile
  BY <1>4 DEF OpenFile
<1>5. CASE NoPRead
  BY <1>5 DEF NoPRead
<1>6. CASE MakeImage
  BY <1>6 DEF MakeImage
<1>7. CASE OpenThrows
  BY <1>7 DEF OpenThrows
<1>8. CASE OpenDone
  BY <1>8 DEF OpenDone
<1>9. CASE CloseImage
  BY <1>9 DEF CloseImage
<1>10. QED
  BY <1>1, <1>2, <1>3, <1>4, <1>5, <1>6, <1>7, <1>8, <1>9 DEF OpenStep

(* A request, whole or for one band, passes the checks before it is staged. *)
LEMMA RasterIOPreserves ==
  ASSUME FEInv, NEW r, RasterIO(r), r.x_off \in Int, r.x_size \in Int, r.y_off \in Int, r.y_size \in Int
  PROVE  FEInv'
<1>1. ds = "open" /\ req' = r /\ UNCHANGED <<ds, files, raster>>
  BY DEF RasterIO, openVars
<1>2. DRTypeOK'
  <2>1. /\ dpc' \in {"done", "fast", "staging"}
        /\ answer' \in {"refused", "failed", "thrown"} \/ answer' = answer
    BY DEF RasterIO, Refused, ReadFast, ReadStaging, NoStagingMemory, RasterIOThrows
  <2>2. QED
    BY <1>1, <2>1 DEF FEInv, DRTypeOK
<1>3. dpc' \in {"staging", "staged"} => Acceptable(r)
  BY DEF RasterIO, Refused, ReadFast, ReadStaging, NoStagingMemory, RasterIOThrows
<1>4. ASSUME Acceptable(r) PROVE Windowed(r)
  BY <1>4 DEF Acceptable, Windowed
<1>5. StagedInv'
  BY <1>1, <1>3, <1>4 DEF StagedInv, Windowed
<1>6. QED
  BY <1>2, <1>5 DEF FEInv

LEMMA AskPreserves == ASSUME FEInv, AskStep PROVE FEInv'
<1>1. ASSUME NEW r \in Requests, RasterIO(r) PROVE FEInv'
  <2>1. r.x_off \in Int /\ r.x_size \in Int /\ r.y_off \in Int /\ r.y_size \in Int
    BY DriverAssumption DEF RequestShape
  <2>2. QED
    BY <1>1, <2>1, RasterIOPreserves
<1>2. ASSUME NEW r \in Requests, NEW b, BandRasterIO(r, b) PROVE FEInv'
  <2> DEFINE one == [r EXCEPT !.bands = <<b>>, !.band = 0]
  <2>1. one.x_off \in Int /\ one.x_size \in Int /\ one.y_off \in Int /\ one.y_size \in Int
    BY DriverAssumption DEF RequestShape
  <2>2. RasterIO(one)
    BY <1>2 DEF BandRasterIO
  <2> HIDE DEF one
  <2>3. QED
    BY <2>1, <2>2, RasterIOPreserves
<1> USE DEF FEInv, DRTypeOK, StagedInv, Windowed, openVars
<1>3. ASSUME NEW x, NEW y, NEW b, ReadBlock(x, y, b) \/ ReadBlockOverrun(x, y, b) \/ ReadBlockThrows(x, y, b)
      PROVE FEInv'
  BY <1>3 DEF AskBlock, ReadBlock, ReadBlockOverrun, ReadBlockThrows
<1>4. CASE FastEnd
  BY <1>4 DEF FastEnd
<1>5. CASE StagingEnd
  BY <1>5 DEF StagingEnd
<1>6. CASE Resample
  BY <1>6 DEF Resample
<1>7. CASE ResampleFails
  BY <1>7 DEF ResampleFails
<1>8. CASE BlockEnd
  BY <1>8 DEF BlockEnd
<1>9. CASE DriverReturn
  BY <1>9 DEF DriverReturn
<1>10. QED
  BY <1>1, <1>2, <1>3, <1>4, <1>5, <1>6, <1>7, <1>8, <1>9 DEF AskStep

LEMMA FENextInv == FEInv /\ [FENext]_feVars => FEInv'
<1> SUFFICES ASSUME FEInv, [FENext]_feVars PROVE FEInv'
  OBVIOUS
<1>1. CASE UNCHANGED <<openVars, askVars>>
  BY <1>1 DEF FEInv, DRTypeOK, StagedInv, Windowed, openVars, askVars
<1>2. CASE DRNext
  BY <1>1, <1>2, OpenPreserves, AskPreserves DEF DRNext
<1>3. QED
  BY <1>1, <1>2 DEF FENext, feVars, openVars, askVars

LEMMA FEInvariant == FESpec => []FEInv
BY FEInitInv, FENextInv, PTL DEF FESpec

(* Whichever way Image::Open ended, whatever threw on the way, a file is   *)
(* open exactly as long as something owns it.                              *)
THEOREM FEFileOwned == FESpec => []DRTypeOK
<1>1. FEInv => DRTypeOK
  BY DEF FEInv
<1>2. QED
  BY <1>1, FEInvariant, PTL

(* The staging window has every sample the request asks for and stays      *)
(* inside the image, for images and tiles of every size.                   *)
THEOREM FEStagingCovers == FESpec => []StagingCovers
<1>1. FEInv => StagingCovers
  <2> SUFFICES ASSUME FEInv, dpc \in {"staging", "staged"} PROVE StagingCovers
    BY DEF StagingCovers
  <2>1. Windowed(req)
    BY DEF FEInv, StagedInv
  <2>2. raster \in Rasters
    BY DEF FEInv, DRTypeOK
  <2>3. raster.tw \in Nat \ {0} /\ raster.tl \in Nat \ {0} /\ raster.width \in Nat /\ raster.length \in Nat
    BY <2>2, DriverAssumption DEF HeaderShape
  <2>4. /\ AlignedOff(req.x_off, raster.tw) \in Nat /\ AlignedOff(req.x_off, raster.tw) <= req.x_off
        /\ AlignedEnd(req.x_off, req.x_size, raster.tw, raster.width) \in Nat
        /\ req.x_off + req.x_size <= AlignedEnd(req.x_off, req.x_size, raster.tw, raster.width)
        /\ AlignedEnd(req.x_off, req.x_size, raster.tw, raster.width) <= raster.width
    BY <2>1, <2>3, AxisCovered DEF Windowed
  <2>5. /\ AlignedOff(req.y_off, raster.tl) \in Nat /\ AlignedOff(req.y_off, raster.tl) <= req.y_off
        /\ AlignedEnd(req.y_off, req.y_size, raster.tl, raster.length) \in Nat
        /\ req.y_off + req.y_size <= AlignedEnd(req.y_off, req.y_size, raster.tl, raster.length)
        /\ AlignedEnd(req.y_off, req.y_size, raster.tl, raster.length) <= raster.length
    BY <2>1, <2>3, AxisCovered DEF Windowed
  <2>6. /\ Staging(req).x_off = AlignedOff(req.x_off, raster.tw)
        /\ Staging(req).y_off = AlignedOff(req.y_off, raster.tl)
        /\ Staging(req).x_size = AlignedEnd(req.x_off, req.x_size, raster.tw, raster.width)
                                 - AlignedOff(req.x_off, raster.tw)
        /\ Staging(req).y_size = AlignedEnd(req.y_off, req.y_size, raster.tl, raster.length)
                                 - AlignedOff(req.y_off, raster.tl)
    BY DEF Staging
  <2>7. QED
    BY <2>4, <2>5, <2>6 DEF StagingCovers
<1>2. QED
  BY <1>1, FEInvariant, PTL

-----------------------------------------------------------------------------
(* The plans.  A call of shortcog_read_stack has passed its checks by the  *)
(* time an image is opened, and k stays inside the pattern's images.       *)
CallInv ==
  /\ rpc \in {"idle", "open", "work", "done"}
  /\ rpc = "idle" => k = 1
  /\ rpc \in {"open", "work"} => /\ call \in Calls /\ PicksOk(call)
                                 /\ k \in 1..Len(call.picks)

AllInv == PlanInv /\ CallInv /\ FEInv

LEMMA ReadCallPreserves == ASSUME CallInv, ReadStep PROVE CallInv'
<1>1. ASSUME NEW c \in Calls, ReadBegin(c) PROVE CallInv'
  <2>1. call' = c /\ k' = k /\ k = 1 /\ rpc' \in {"done", "open"}
    BY <1>1 DEF ReadBegin, Finish, CallInv
  <2>2. rpc' = "open" => LayoutOk(c) /\ PicksOk(c)
    BY <1>1 DEF ReadBegin, Finish
  <2>3. ASSUME LayoutOk(c) PROVE 1 \in 1..Len(c.picks)
    <3>1. Size(c)["n"] > 0 /\ Size(c)["n"] = Len(c.picks)
      BY <2>3 DEF LayoutOk, Axes, Size
    <3>2. c.picks \in Seq(Int)
      BY ReadAssumption DEF CallShape
    <3>3. QED
      BY <3>1, <3>2
  <2>4. QED
    BY <2>1, <2>2, <2>3 DEF CallInv, PicksOk
<1>2. CASE OpenFails
  BY <1>2 DEF OpenFails, Finish, CallInv
<1>3. CASE Open
  BY <1>3 DEF Open, Finish, CallInv, PicksOk
<1>4. CASE RunEnd
  <2>1. call' = call /\ call \in Calls /\ PicksOk(call) /\ k \in 1..Len(call.picks)
    BY <1>4 DEF RunEnd, CallInv
  <2>2. Len(call.picks) \in Nat
    BY <2>1, ReadAssumption DEF CallShape
  <2>3. \/ rpc' = "done"
        \/ rpc' = "open" /\ k < Len(call.picks) /\ k' = k + 1
    <3>1. k = Len(call.picks) \/ k < Len(call.picks)
      BY <2>1, <2>2
    <3>2. CASE bad
      BY <1>4, <3>2 DEF RunEnd, Finish
    <3>3. CASE ~bad /\ k = Len(call.picks)
      BY <1>4, <2>1, <2>2, <3>3 DEF RunEnd, Finish
    <3>4. CASE ~bad /\ k < Len(call.picks)
      BY <1>4, <2>1, <2>2, <3>4 DEF RunEnd, Finish
    <3>5. QED
      BY <3>1, <3>2, <3>3, <3>4
  <2>4. QED
    BY <2>1, <2>3, <2>2 DEF CallInv, PicksOk
<1>5. CASE ReadReturn
  BY <1>5 DEF ReadReturn, CallInv
<1>6. QED
  BY <1>1, <1>2, <1>3, <1>4, <1>5 DEF ReadStep

(* A window of a stateless read is one build_plan can be given.            *)
LEMMA WindowJobOk == ASSUME CallInv, rpc = "open", RequestOk(Image, call) PROVE JobOk(WindowJob)
<1>1. call \in CallShape /\ PicksOk(call) /\ k \in 1..Len(call.picks)
  BY ReadAssumption DEF CallInv
<1>2. call.picks[k] \in 1..Len(call.images)
  <2>1. DOMAIN call.picks = 1..Len(call.picks)
    BY <1>1 DEF CallShape
  <2>2. call.picks[k] \in ToSet(call.picks)
    BY <1>1, <2>1 DEF ToSet
  <2>3. QED
    BY <1>1, <2>2 DEF PicksOk
<1>3. Image \in HeaderShape
  BY <1>1, <1>2, SMTT(30) DEF Image, CallShape
<1>4. call.bands \in Seq(Int) /\ call.x_off \in Int /\ call.x_size \in Int
      /\ call.y_off \in Int /\ call.y_size \in Int
  BY <1>1 DEF CallShape
<1>5. \A i \in DOMAIN call.bands : call.bands[i] \in 1..Image.spp
  BY DEF RequestOk, ToSet
<1>6. /\ WindowJob.h = Image /\ WindowJob.bands = call.bands
      /\ WindowJob.x_off = call.x_off /\ WindowJob.x_size = call.x_size
      /\ WindowJob.y_off = call.y_off /\ WindowJob.y_size = call.y_size
  BY DEF WindowJob
<1>7. /\ call.x_off \in Nat /\ call.x_size \in Nat \ {0} /\ call.x_off + call.x_size <= Image.width
      /\ call.y_off \in Nat /\ call.y_size \in Nat \ {0} /\ call.y_off + call.y_size <= Image.length
  BY <1>4 DEF RequestOk
<1>8. IsSeq(call.bands)
  BY <1>4 DEF IsSeq
<1>9. QED
  BY <1>3, <1>5, <1>6, <1>7, <1>8 DEF JobOk

LEMMA ReadPlanPreserves == ASSUME PlanInv, CallInv, ReadStep PROVE PlanInv'
<1> USE DEF PlanInv, planVars, Planning
<1>1. CASE UNCHANGED plVars
  BY <1>1 DEF plVars, tileVars
<1>2. CASE Open
  <2>1. \/ UNCHANGED plVars
        \/ BuildPlan(WindowJob) /\ RequestOk(Image, call) /\ rpc = "open"
    BY <1>2 DEF Open
  <2>2. ASSUME BuildPlan(WindowJob), RequestOk(Image, call), rpc = "open" PROVE PlanInv'
    BY <2>2, WindowJobOk, BuildPlanPreserves
  <2>3. QED
    BY <1>1, <2>1, <2>2
<1>3. CASE RunReturns
  BY <1>3, RunReturnsPreserves
<1>4. CASE ReadReturn
  BY <1>4 DEF ReadReturn
<1>5. QED
  BY <1>1, <1>2, <1>3, <1>4 DEF ReadStep, ReadBegin, OpenFails, RunEnd

(* So is a window of the driver, direct or staged.                         *)
LEMMA RequestJobsOk ==
  ASSUME NEW r, Acceptable(r), raster \in HeaderShape, IsSeq(r.bands),
         r.x_off \in Int, r.x_size \in Int, r.y_off \in Int, r.y_size \in Int
  PROVE  /\ JobOk([file |-> 1, h |-> raster, bands |-> r.bands,
                   x_off |-> r.x_off, y_off |-> r.y_off, x_size |-> r.x_size, y_size |-> r.y_size,
                   data |-> 0, pixel |-> r.pixel, line |-> r.line, band |-> r.band])
         /\ JobOk(Staging(r))
<1>1. /\ r.x_off \in Nat /\ r.x_size \in Nat \ {0} /\ r.x_off + r.x_size <= raster.width
      /\ r.y_off \in Nat /\ r.y_size \in Nat \ {0} /\ r.y_off + r.y_size <= raster.length
  BY DEF Acceptable
<1>2. \A i \in DOMAIN r.bands : r.bands[i] \in 1..raster.spp
  BY DEF Acceptable, ToSet
<1>3. raster.tw \in Nat \ {0} /\ raster.tl \in Nat \ {0} /\ raster.width \in Nat /\ raster.length \in Nat
  BY DEF HeaderShape
<1> DEFINE ax == AlignedOff(r.x_off, raster.tw)
           ay == AlignedOff(r.y_off, raster.tl)
           ex == AlignedEnd(r.x_off, r.x_size, raster.tw, raster.width)
           ey == AlignedEnd(r.y_off, r.y_size, raster.tl, raster.length)
<1>4. /\ ax \in Nat /\ ax <= r.x_off /\ ex \in Nat /\ r.x_off + r.x_size <= ex /\ ex <= raster.width
      /\ ay \in Nat /\ ay <= r.y_off /\ ey \in Nat /\ r.y_off + r.y_size <= ey /\ ey <= raster.length
  BY <1>1, <1>3, AxisCovered
<1>5. /\ Staging(r).h = raster /\ Staging(r).bands = r.bands
      /\ Staging(r).x_off = ax /\ Staging(r).y_off = ay
      /\ Staging(r).x_size = ex - ax /\ Staging(r).y_size = ey - ay
  BY DEF Staging
<1> HIDE DEF ax, ay, ex, ey
<1>6. /\ ex - ax \in Nat \ {0} /\ ax + (ex - ax) <= raster.width
      /\ ey - ay \in Nat \ {0} /\ ay + (ey - ay) <= raster.length
  BY <1>1, <1>3, <1>4
<1>7. JobOk(Staging(r))
  BY <1>2, <1>4, <1>5, <1>6 DEF JobOk
<1>8. QED
  BY <1>1, <1>2, <1>7 DEF JobOk

LEMMA RasterIOPlan ==
  ASSUME PlanInv, FEInv, NEW r, RasterIO(r), IsSeq(r.bands),
         r.x_off \in Int, r.x_size \in Int, r.y_off \in Int, r.y_size \in Int
  PROVE  PlanInv'
<1>1. raster \in HeaderShape
  BY DriverAssumption DEF RasterIO, FEInv, DRTypeOK
<1>2. CASE UNCHANGED plVars
  BY <1>2 DEF plVars, planVars, tileVars, PlanInv, Planning
<1>3. CASE ReadFast(r)
  BY <1>1, <1>3, RequestJobsOk, BuildPlanPreserves DEF ReadFast
<1>4. CASE ReadStaging(r)
  BY <1>1, <1>4, RequestJobsOk, BuildPlanPreserves DEF ReadStaging
<1>5. QED
  BY <1>2, <1>3, <1>4 DEF RasterIO, Refused, NoStagingMemory, RasterIOThrows

(* The one task of a block is its whole tile, a tile of the grid.          *)
LEMMA BlockTaskOk ==
  ASSUME FEInv, NEW x \in Nat, NEW y \in Nat, NEW b, AskBlock(x, y, b)
  PROVE  /\ raster \in HeaderShape
         /\ InGrid(raster, BlockTask(x, y, b)) /\ RectOk(raster, BlockTask(x, y, b))
<1>1. /\ raster \in HeaderShape /\ x < TilesOver(raster.width, raster.tw)
      /\ y < TilesOver(raster.length, raster.tl) /\ b \in 1..raster.spp
  BY DriverAssumption DEF AskBlock, FEInv, DRTypeOK
<1>2. /\ raster.width \in 1..IntMax /\ raster.tw \in 1..U16Max
      /\ raster.length \in 1..IntMax /\ raster.tl \in 1..U16Max /\ raster.spp \in 1..U16Max
  BY <1>1 DEF HeaderShape
<1>3. TilesOver(raster.width, raster.tw) \in Nat /\ TilesOver(raster.length, raster.tl) \in Nat
  BY <1>2, TilesOverIsCeil
<1>4. InGrid(raster, BlockTask(x, y, b))
  <2>1. raster.spp \in Nat /\ b - 1 \in 0..(raster.spp - 1)
    BY <1>1, <1>2
  <2>2. x \in 0..(TilesOver(raster.width, raster.tw) - 1) /\ y \in 0..(TilesOver(raster.length, raster.tl) - 1)
    BY <1>1, <1>3
  <2>3. QED
    BY <1>3, <2>1, <2>2, TileIndexBelow DEF BlockTask, InGrid
<1>5. RectOk(raster, BlockTask(x, y, b))
  BY <1>2 DEF RectOk, BlockTask
<1>6. QED
  BY <1>1, <1>4, <1>5

LEMMA ReadBlockPlan ==
  ASSUME PlanInv, FEInv, NEW x \in Nat, NEW y \in Nat, NEW b, ReadBlock(x, y, b)
  PROVE  PlanInv'
<1>1. /\ phase' = "run" /\ tasks' = <<BlockTask(x, y, b)>> /\ job'.h = raster
      /\ phase = "none" /\ UNCHANGED tileVars
  BY DEF ReadBlock, AskBlock
<1>2. TaskOk(raster, BlockTask(x, y, b))
  BY BlockTaskOk DEF ReadBlock, TaskOk
<1>3. IsSeq(tasks') /\ Len(tasks') = 1 /\ tasks'[1] = BlockTask(x, y, b)
  <2> DEFINE t == BlockTask(x, y, b)
  <2>1. tasks' = <<t>>
    BY <1>1
  <2> HIDE DEF t
  <2>2. <<t>> \in Seq({t}) /\ Len(<<t>>) = 1 /\ <<t>>[1] = t
    OBVIOUS
  <2>3. QED
    BY <2>1, <2>2 DEF IsSeq, t
<1>4. next = 1
  BY <1>1 DEF PlanInv
<1>5. QED
  BY <1>1, <1>2, <1>3, <1>4 DEF PlanInv, tileVars

LEMMA ReadBlockOverrunPlan ==
  ASSUME PlanInv, FEInv, NEW x \in Nat, NEW y \in Nat, NEW b, ReadBlockOverrun(x, y, b)
  PROVE  PlanInv'
<1>1. /\ AskBlock(x, y, b) /\ ~(BlockTask(x, y, b).idx < Entries(raster))
  <2>1. BlockTask(x, y, b).idx \in Nat /\ BlockTask(x, y, b).idx >= Entries(raster)
    BY BlockTaskOk DEF ReadBlockOverrun, InGrid
  <2>2. Entries(raster) \in Nat
    BY BlockTaskOk, GridSize DEF ReadBlockOverrun
  <2>3. QED
    BY <2>1, <2>2 DEF ReadBlockOverrun
<1>2. Wraps(raster)
  BY <1>1, BlockTaskOk, GridInTables
<1>3. /\ phase' = "overrun" /\ job'.h = raster /\ phase = "none" /\ UNCHANGED <<tasks, tileVars>>
  BY DEF ReadBlockOverrun, AskBlock
<1>4. Len(tasks') = 0 /\ Len(tasks) = 0
  BY <1>3 DEF PlanInv
<1>5. QED
  BY <1>2, <1>3, <1>4 DEF PlanInv, tileVars

LEMMA DriverPlanPreserves == ASSUME PlanInv, FEInv, AskStep PROVE PlanInv'
<1>1. ASSUME NEW r \in Requests, RasterIO(r) PROVE PlanInv'
  <2>1. /\ r.x_off \in Int /\ r.x_size \in Int /\ r.y_off \in Int /\ r.y_size \in Int
        /\ IsSeq(r.bands)
    BY DriverAssumption DEF RequestShape, IsSeq
  <2>2. QED
    BY <1>1, <2>1, RasterIOPlan
<1>2. ASSUME NEW r \in Requests, NEW b, BandRasterIO(r, b) PROVE PlanInv'
  <2> DEFINE one == [r EXCEPT !.bands = <<b>>, !.band = 0]
  <2>1. /\ one.x_off \in Int /\ one.x_size \in Int /\ one.y_off \in Int /\ one.y_size \in Int
        /\ one.bands = <<b>>
    BY DriverAssumption DEF RequestShape
  <2>2. RasterIO(one)
    BY <1>2 DEF BandRasterIO
  <2>3. IsSeq(<<b>>)
    <3>1. <<b>> \in Seq({b})
      OBVIOUS
    <3>2. QED
      BY <3>1 DEF IsSeq
  <2> HIDE DEF one
  <2>4. QED
    BY <2>1, <2>2, <2>3, RasterIOPlan
<1>3. ASSUME NEW x \in 0..U16Max, NEW y \in 0..U16Max, NEW b,
             ReadBlock(x, y, b) \/ ReadBlockOverrun(x, y, b) \/ ReadBlockThrows(x, y, b)
      PROVE PlanInv'
  <2>1. CASE ReadBlockThrows(x, y, b)
    BY <2>1 DEF ReadBlockThrows, AskBlock, tileVars, PlanInv, Planning
  <2>2. QED
    BY <1>3, <2>1, ReadBlockPlan, ReadBlockOverrunPlan
<1>4. CASE RunReturns
  BY <1>4, RunReturnsPreserves
<1>5. CASE UNCHANGED <<planVars, next, cur, stage, bad>>
  BY <1>5 DEF PlanInv, Planning, planVars
<1>6. QED
  BY <1>1, <1>2, <1>3, <1>4, <1>5
     DEF AskStep, FastEnd, StagingEnd, BlockEnd, Resample, ResampleFails, DriverReturn

LEMMA AllInitInv == FEInit => AllInv
BY FEInitInv, PlanInitInv DEF FEInit, RDInit, AllInv, CallInv

LEMMA AllNextInv == AllInv /\ [FENext]_feVars => AllInv'
<1> SUFFICES ASSUME AllInv, [FENext]_feVars PROVE AllInv'
  OBVIOUS
<1>1. FEInv'
  BY FENextInv DEF AllInv
<1>2. CallInv'
  <2>1. CASE UNCHANGED readVars
    BY <2>1 DEF AllInv, CallInv, readVars, PicksOk
  <2>2. CASE ReadStep
    BY <2>2, ReadCallPreserves DEF AllInv
  <2>3. QED
    BY <2>1, <2>2 DEF FENext, RDNext, feVars
<1>3. PlanInv'
  <2>1. CASE UNCHANGED plVars
    BY <2>1 DEF AllInv, plVars, planVars, tileVars, PlanInv, Planning
  <2>2. CASE PlanStep
    BY <2>2, PlanStepPreserves DEF AllInv
  <2>3. CASE ReadStep
    BY <2>3, ReadPlanPreserves DEF AllInv
  <2>4. CASE AskStep
    BY <2>4, DriverPlanPreserves DEF AllInv
  <2>5. CASE OpenStep
    <3>1. UNCHANGED plVars
      BY <2>5 DEF OpenStep, Parsed, RegisterDriver, CannotOpen, OpenFile, NoPRead, MakeImage,
                  OpenThrows, OpenDone, CloseImage
    <3>2. QED
      BY <2>1, <3>1
  <2>6. QED
    BY <2>1, <2>2, <2>3, <2>4, <2>5 DEF FENext, RDNext, DRNext, feVars
<1>4. QED
  BY <1>1, <1>2, <1>3 DEF AllInv

(* No task of a plan, stateless or of the driver, reads outside the tile   *)
(* buffer or the tables of its header, even where the edge of a tile       *)
(* overflows int; planning itself leaves the tables for no image whose     *)
(* tiles uint64 can count; and a worker's task is one that was handed out. *)
THEOREM FEPlanInside == FESpec => []PlanTypeOK
<1>1. FESpec => []AllInv
  BY AllInitInv, AllNextInv, PTL DEF FESpec
<1>2. AllInv => PlanTypeOK
  BY PlanInvTypes DEF AllInv
<1>3. QED
  BY <1>1, <1>2, PTL
=============================================================================
