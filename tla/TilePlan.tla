------------------------------ MODULE TilePlan ------------------------------
(***************************************************************************)
(* build_plan (core/src/read.cpp) and execute_task (core/src/plan.cpp):    *)
(* from a window of one image to samples in memory.  The stateless reads   *)
(* (module Read) and the GDAL driver (module Driver) share it.  Offsets    *)
(* and spacings are bytes, as in the code; the content of a tile is its    *)
(* identity and what has been done to it, so that a sample in the wrong    *)
(* place, a sample that has not been through the predictor and a leftover  *)
(* are told apart.                                                         *)
(*                                                                         *)
(* Tasks are taken in order by any idle worker, which is what Executor     *)
(* promises; the decoding of two tiles overlaps.                           *)
(***************************************************************************)
EXTENDS BlobFormat, SequencesExt

CONSTANTS
  Workers,   (* threads that decode                                        *)
  NoJob

(* What a header holds of an image; bps stands for its sample type.        *)
HeaderShape == [width : 1..IntMax, length : 1..IntMax, tw : 1..U16Max, tl : 1..U16Max,
                bps : 1..16, spp : 1..U16Max, predictor : {1, 2}]

VARIABLES
  phase,     (* "none", "plan", "run" or "overrun"                         *)
  job,       (* the arguments of build_plan                                *)
  ty, tx,    (* the tile being planned                                     *)
  tasks,
  next,      (* the first task nobody has taken                            *)
  cur,       (* the task of each worker, 0 when it has none                *)
  stage,     (* "idle", "fetched" or "inflated"                            *)
  scratch,   (* the worker's tile buffer                                   *)
  dst,       (* what has been written, by byte offset from the buffer      *)
  bad        (* a task of this plan failed                                 *)

planVars == <<phase, job, ty, tx, tasks>>
tileVars == <<next, cur, stage, scratch, dst, bad>>
plVars == <<planVars, tileVars>>

Stale == [tile |-> <<0, 0>>, state |-> "stale"]

PLInit ==
  /\ phase = "none" /\ job = NoJob
  /\ ty = 0 /\ tx = 0 /\ tasks = <<>> /\ next = 1
  /\ cur = [w \in Workers |-> 0] /\ stage = [w \in Workers |-> "idle"]
  /\ scratch = [w \in Workers |-> Stale]
  /\ dst = <<>> /\ bad = FALSE

-----------------------------------------------------------------------------
(* build_plan.  A job is the window [x_off, y_off, x_size, y_size] of bands *)
(* of the image (file, h), and where its samples go: the byte offset data  *)
(* and the spacings pixel, line and band.                                  *)

BuildPlan(j) ==
  /\ phase = "none"
  /\ phase' = "plan" /\ job' = j
  /\ ty' = j.y_off \div j.h.tl /\ tx' = j.x_off \div j.h.tw
  /\ UNCHANGED <<tasks, tileVars>>

(* The end of the tiles that meet [off, off + size), as in int64.          *)
TileEnd(off, size, tile) == (off + size + tile - 1) \div tile

(* a + b in int: beyond IntMax it is undefined, and the build either keeps *)
(* the wider sum in a register or wraps it.                                *)
IntSum(a, b) == IF a + b <= IntMax THEN {a + b} ELSE {a + b, a + b - 2 * (IntMax + 1)}

(* slip: the tile's own edge is left out.                                  *)
ClipEndLoose(edge, end, extent) == Min({end, extent})

ClipEnd(edge, end, extent) == Min({edge, end, extent})

Contiguous == job.pixel = job.h.bps /\ job.line = job.h.tw * job.h.bps

(* slip: a clipped tile goes straight to the buffer too.                   *)
DirectIfContiguous(px, py, ix0, iy0, ix1, iy1, right, bottom) == Contiguous

Direct(px, py, ix0, iy0, ix1, iy1, right, bottom) ==
  Contiguous /\ ix0 = px /\ iy0 = py /\ ix1 = right /\ iy1 = bottom

(* The part of tile (ty, tx) the window asks for, once per band.           *)
TasksOf(right, bottom) ==
  LET h == job.h
      px == tx * h.tw
      py == ty * h.tl
      ix0 == Max({px, job.x_off})
      iy0 == Max({py, job.y_off})
      ix1 == ClipEnd(right, job.x_off + job.x_size, h.width)
      iy1 == ClipEnd(bottom, job.y_off + job.y_size, h.length)
      Task(i) ==
        [idx |-> TileIndex(TilesOver(h.width, h.tw), h.spp, ty, tx, job.bands[i] - 1),
         direct |-> Direct(px, py, ix0, iy0, ix1, iy1, right, bottom),
         at |-> job.data + (iy0 - job.y_off) * job.line + (ix0 - job.x_off) * job.pixel
                + (i - 1) * job.band,
         src_x |-> ix0 - px, src_y |-> iy0 - py, w |-> ix1 - ix0, h |-> iy1 - iy0]
  IN  IF ix1 <= ix0 \/ iy1 <= iy0 THEN <<>> ELSE [i \in DOMAIN job.bands |-> Task(i)]

MoreTiles == ty < TileEnd(job.y_off, job.y_size, job.h.tl)

(* The entries of tile_byte_counts: what parse_blob made the blob have, a  *)
(* product taken in uint64.                                                *)
Entries(h) == TileProduct(TilesOver(h.width, h.tw), TilesOver(h.length, h.tl), h.spp)

Wraps(h) == TilesOver(h.width, h.tw) * TilesOver(h.length, h.tl) * h.spp > U64Max

InTables(ts) == \A t \in ToSet(ts) : t.idx < Entries(job.h)

PlanTile ==
  /\ phase = "plan" /\ MoreTiles
  /\ \E right \in IntSum(tx * job.h.tw, job.h.tw), bottom \in IntSum(ty * job.h.tl, job.h.tl) :
       InTables(TasksOf(right, bottom)) /\ tasks' = tasks \o TasksOf(right, bottom)
  /\ IF tx + 1 < TileEnd(job.x_off, job.x_size, job.h.tw)
     THEN tx' = tx + 1 /\ UNCHANGED ty
     ELSE tx' = job.x_off \div job.h.tw /\ ty' = ty + 1
  /\ UNCHANGED <<phase, job, tileVars>>

(* The offset and the size of a tile are read past the end of the tables.  *)
(* What the process does from here on is undefined, and nothing is said    *)
(* about it.                                                               *)
PlanOverrun ==
  /\ phase = "plan" /\ MoreTiles
  /\ \E right \in IntSum(tx * job.h.tw, job.h.tw), bottom \in IntSum(ty * job.h.tl, job.h.tl) :
       ~InTables(TasksOf(right, bottom))
  /\ phase' = "overrun"
  /\ UNCHANGED <<job, ty, tx, tasks, tileVars>>

AfterPlanOverrun == phase = "overrun" /\ UNCHANGED plVars

PlanEnd ==
  /\ phase = "plan" /\ ~MoreTiles
  /\ phase' = "run"
  /\ UNCHANGED <<job, ty, tx, tasks, tileVars>>

-----------------------------------------------------------------------------
(* execute_task.                                                           *)

TileOf(t) == <<job.file, t.idx>>

(* The pixels of a tile that a task delivers, and where each one goes.     *)
Rect(t) == IF t.direct THEN (0..(job.h.tl - 1)) \X (0..(job.h.tw - 1))
                       ELSE (0..(t.h - 1)) \X (0..(t.w - 1))

At(t, p) == t.at + (IF t.direct THEN (p[1] * job.h.tw + p[2]) * job.h.bps
                                ELSE p[1] * job.line + p[2] * job.pixel)

Footprint(t) == {At(t, p) : p \in Rect(t)}

(* Where in the tile each pixel comes from.                                *)
Source(t, p) == IF t.direct THEN <<p[1], p[2]>> ELSE <<t.src_y + p[1], t.src_x + p[2]>>

(* The buffer with the task's pixels in it, taken from a tile buffer b.    *)
Written(t, b) ==
  LET Cell(o) == LET p == CHOOSE q \in Rect(t) : At(t, q) = o
                 IN  [tile |-> b.tile, pos |-> Source(t, p), state |-> b.state]
  IN  [o \in Footprint(t) \cup DOMAIN dst |-> IF o \in Footprint(t) THEN Cell(o) ELSE dst[o]]

(* One task fails: its worker is done with it.                             *)
Fail(w) == /\ bad' = TRUE
           /\ cur' = [cur EXCEPT ![w] = 0] /\ stage' = [stage EXCEPT ![w] = "idle"]

(* The worker reads the compressed bytes of the next task.                 *)
Fetch(w) ==
  /\ phase = "run" /\ cur[w] = 0 /\ next <= Len(tasks)
  /\ next' = next + 1
  /\ cur' = [cur EXCEPT ![w] = next] /\ stage' = [stage EXCEPT ![w] = "fetched"]
  /\ UNCHANGED <<planVars, scratch, dst, bad>>

(* No context, no memory for a buffer, or a short read; or the task is not *)
(* started because another one of this plan failed.                        *)
FetchFails(w) ==
  /\ phase = "run" /\ cur[w] = 0 /\ next <= Len(tasks)
  /\ next' = next + 1 /\ bad' = TRUE
  /\ UNCHANGED <<planVars, cur, stage, scratch, dst>>

(* slip: a frame shorter than the tile is accepted.                        *)
AcceptedIfNoError(produced) == produced # "error"

(* ZSTD_decompressDCtx returned, and produced exactly tile_bytes.          *)
Accepted(produced) == produced = "whole"

(* Decompression into the caller's buffer or the worker's scratch.  A      *)
(* frame that ends early leaves what was there before in the rest of it.   *)
Inflate(w) ==
  /\ phase = "run" /\ stage[w] = "fetched"
  /\ \E produced \in {"whole", "short", "error"} :
       LET t == tasks[cur[w]]
           b == IF produced = "whole"
                THEN [tile |-> TileOf(t), state |-> IF job.h.predictor = 2 THEN "raw" ELSE "sample"]
                ELSE Stale
       IN  /\ IF t.direct THEN dst' = Written(t, b) /\ UNCHANGED scratch
                          ELSE scratch' = [scratch EXCEPT ![w] = b] /\ UNCHANGED dst
           /\ IF Accepted(produced)
              THEN stage' = [stage EXCEPT ![w] = "inflated"] /\ UNCHANGED <<cur, bad>>
              ELSE Fail(w)
  /\ UNCHANGED <<planVars, next>>

(* The predictor, in place, and copy_rect.                                 *)
Deliver(w) ==
  /\ phase = "run" /\ stage[w] = "inflated"
  /\ LET t == tasks[cur[w]]
         Summed(b) == IF b.state = "raw" THEN [b EXCEPT !.state = "sample"] ELSE b
     IN  IF t.direct
         THEN /\ dst' = [o \in DOMAIN dst |-> IF o \in Footprint(t) THEN Summed(dst[o]) ELSE dst[o]]
              /\ UNCHANGED scratch
         ELSE /\ scratch' = [scratch EXCEPT ![w] = Summed(@)]
              /\ dst' = Written(t, Summed(scratch[w]))
  /\ cur' = [cur EXCEPT ![w] = 0] /\ stage' = [stage EXCEPT ![w] = "idle"]
  /\ UNCHANGED <<planVars, next, bad>>

PlanStep ==
  \/ PlanTile \/ PlanOverrun \/ AfterPlanOverrun \/ PlanEnd
  \/ \E w \in Workers : Fetch(w) \/ FetchFails(w) \/ Inflate(w) \/ Deliver(w)

(* Executor::run returns.  What the scratch buffers hold is nothing the    *)
(* next plan may rely on.  The caller says what becomes of dst.            *)
RunReturns ==
  /\ phase = "run" /\ next > Len(tasks) /\ \A w \in Workers : cur[w] = 0
  /\ phase' = "none" /\ job' = NoJob /\ ty' = 0 /\ tx' = 0 /\ tasks' = <<>>
  /\ next' = 1 /\ bad' = FALSE /\ scratch' = [w \in Workers |-> Stale]
  /\ UNCHANGED <<cur, stage>>

-----------------------------------------------------------------------------
(* The state is well formed; no task reads outside the tile buffer or the  *)
(* tables of the header; and planning leaves the tables for no image but   *)
(* one whose tiles uint64 cannot count.                                    *)
PlanTypeOK ==
  /\ phase \in {"none", "plan", "run", "overrun"} /\ bad \in BOOLEAN
  /\ phase = "overrun" => Wraps(job.h)
  /\ next \in 1..(Len(tasks) + 1)
  /\ \A w \in Workers : /\ cur[w] \in 0..(next - 1)
                        /\ stage[w] \in {"idle", "fetched", "inflated"}
                        /\ (stage[w] = "idle") <=> (cur[w] = 0)
  /\ \A t \in ToSet(tasks) :
       LET h == job.h IN
       /\ t.idx < Entries(h)
       /\ t.src_x >= 0 /\ t.w > 0 /\ t.src_x + t.w <= h.tw
       /\ t.src_y >= 0 /\ t.h > 0 /\ t.src_y + t.h <= h.tl

(* Two tasks of a plan have no byte of the buffer in common: the workers   *)
(* write it without a lock.                                                *)
TasksDisjoint ==
  phase = "run" =>
    \A i, j \in DOMAIN tasks : i < j => Footprint(tasks[i]) \cap Footprint(tasks[j]) = {}

(* Where Header::tile_index looks for the sample at (row, col) of a band;  *)
(* that no other tile is there is GridIndexable of module Parser.          *)
SampleAt(file, h, band, row, col) ==
  [tile |-> <<file, TileIndex(TilesOver(h.width, h.tw), h.spp, row \div h.tl, col \div h.tw, band - 1)>>,
   pos |-> <<row % h.tl, col % h.tw>>, state |-> "sample"]
=============================================================================
