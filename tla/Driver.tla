-------------------------------- MODULE Driver --------------------------------
(***************************************************************************)
(* The GDAL driver (core/src/image.cpp): Image::Open, Image::IRasterIO and *)
(* Band::IRasterIO with read_native and read_via_mem, and Band::IReadBlock *)
(* for one block; the block cache around it is module BlockCache.  The     *)
(* samples are fetched by a plan (module TilePlan), by one worker when the *)
(* dataset has no pool.  What GDAL's in-memory dataset does with a staging *)
(* buffer is external: it copies, or picks the nearest sample.             *)
(***************************************************************************)
EXTENDS TilePlan

CONSTANTS
  Rasters,   (* headers of the files there are                             *)
  Requests,  (* arguments of IRasterIO                                     *)
  NoRaster, NoRequest

(* type is whether the buffer has the sample type of the file; fx, fxs and *)
(* fy, fys are dfXOff, dfXSize, dfYOff, dfYSize in half pixels, and float  *)
(* is bFloatingPointWindowValidity.                                        *)
RequestShape ==
  [write : BOOLEAN, null : BOOLEAN, x_off : Int, x_size : Int, y_off : Int, y_size : Int,
   buf_x : Nat \ {0}, buf_y : Nat \ {0}, type : {"native", "other"}, bands : Seq(Int),
   pixel : Int, line : Int, band : Int,
   float : BOOLEAN, fx : Int, fxs : Int, fy : Int, fys : Int]

ASSUME DriverAssumption ==
  /\ Rasters \subseteq HeaderShape /\ NoRaster \notin Rasters
  /\ Requests \subseteq RequestShape /\ NoRequest \notin Requests

VARIABLES
  ds,        (* "unregistered", or how far Image::Open is: "none",         *)
             (* "parsed", "file", "image" or "open"                        *)
  files,     (* how many VSILFILE are open                                 *)
  raster,    (* header_                                                    *)
  dpc,       (* "idle", "fast", "staging", "staged", "block" or "done"     *)
  req,
  answer     (* "none", "ok", "refused", "failed" or "thrown": an          *)
             (* exception leaves the driver, which catches none but one    *)

openVars == <<ds, files, raster>>
askVars == <<dpc, req, answer>>
drVars == <<openVars, askVars, plVars>>

DRInit ==
  /\ PLInit
  /\ ds = "unregistered" /\ files = 0 /\ raster = NoRaster
  /\ dpc = "idle" /\ req = NoRequest /\ answer = "none"

(* register_driver: GDAL may call Image::Open from now on.  Another call   *)
(* finds the driver by its name and changes nothing.                       *)
RegisterDriver ==
  /\ ds = "unregistered"
  /\ ds' = "none"
  /\ UNCHANGED <<files, raster, askVars, plVars>>

-----------------------------------------------------------------------------
(* Image::Open.  An option missing, update access, a header that does not  *)
(* decode or parse, an unreasonable band count, or bad_alloc on the way:   *)
(* the call ends and nothing was acquired, so it is no step of its own.    *)

Parsed(h) ==
  /\ ds = "none"
  /\ ds' = "parsed" /\ raster' = h
  /\ UNCHANGED <<files, askVars, plVars>>

CannotOpen ==
  /\ ds = "parsed"
  /\ ds' = "none" /\ raster' = NoRaster
  /\ UNCHANGED <<files, askVars, plVars>>

OpenFile ==
  /\ ds = "parsed"
  /\ ds' = "file" /\ files' = files + 1
  /\ UNCHANGED <<raster, askVars, plVars>>

(* slip: the handle that was found wanting is left open.                   *)
NoPReadLeaks ==
  /\ ds = "file"
  /\ ds' = "none" /\ raster' = NoRaster
  /\ UNCHANGED <<files, askVars, plVars>>

(* No PRead: the handle is closed by hand.  Nobody owns it yet.            *)
NoPRead ==
  /\ ds = "file"
  /\ ds' = "none" /\ raster' = NoRaster /\ files' = files - 1
  /\ UNCHANGED <<askVars, plVars>>

(* The shared_ptr takes the handle, and the image takes the shared_ptr.    *)
MakeImage ==
  /\ ds = "file"
  /\ ds' = "image"
  /\ UNCHANGED <<files, raster, askVars, plVars>>

(* An allocation of the shared_ptr, the image or a band throws, or   *)
(* the first thread of the pool cannot be made: the owner of the handle    *)
(* closes it.                                                              *)
OpenThrows ==
  /\ ds \in {"file", "image"}
  /\ ds' = "none" /\ raster' = NoRaster /\ files' = files - 1
  /\ UNCHANGED <<askVars, plVars>>

OpenDone ==
  /\ ds = "image"
  /\ ds' = "open"
  /\ UNCHANGED <<files, raster, askVars, plVars>>

(* GDALClose: ~Image releases the file.                                    *)
CloseImage ==
  /\ ds = "open" /\ dpc = "idle"
  /\ ds' = "none" /\ raster' = NoRaster /\ files' = files - 1
  /\ UNCHANGED <<askVars, plVars>>

-----------------------------------------------------------------------------
(* Image::IRasterIO.                                                       *)

(* slip: the spacing of bands is trusted.                                  *)
AcceptableAnyBand(r) ==
  /\ ~r.write /\ ~r.null /\ r.bands # <<>>
  /\ r.pixel > 0 /\ r.line > 0
  /\ r.x_off >= 0 /\ r.x_size > 0 /\ r.x_off + r.x_size <= raster.width
  /\ r.y_off >= 0 /\ r.y_size > 0 /\ r.y_off + r.y_size <= raster.length
  /\ \A b \in ToSet(r.bands) : b \in 1..raster.spp

Acceptable(r) ==
  /\ ~r.write /\ ~r.null /\ r.bands # <<>>
  /\ r.pixel > 0 /\ r.line > 0 /\ (Len(r.bands) > 1 => r.band > 0)
  /\ r.x_off >= 0 /\ r.x_size > 0 /\ r.x_off + r.x_size <= raster.width
  /\ r.y_off >= 0 /\ r.y_size > 0 /\ r.y_off + r.y_size <= raster.length
  /\ \A b \in ToSet(r.bands) : b \in 1..raster.spp

SameSize(r) == r.x_size = r.buf_x /\ r.y_size = r.buf_y

Fast(r) == SameSize(r) /\ r.type = "native"

Refused(r) ==
  /\ ~Acceptable(r)
  /\ dpc' = "done" /\ answer' = "refused"
  /\ UNCHANGED plVars

(* read_native on the caller's buffer.                                     *)
ReadFast(r) ==
  /\ Acceptable(r) /\ Fast(r)
  /\ BuildPlan([file |-> 1, h |-> raster, bands |-> r.bands,
                x_off |-> r.x_off, y_off |-> r.y_off, x_size |-> r.x_size, y_size |-> r.y_size,
                data |-> 0, pixel |-> r.pixel, line |-> r.line, band |-> r.band])
  /\ dpc' = "fast" /\ UNCHANGED answer

(* slip: the size is rounded up to tiles, not the end.                     *)
AlignedEndOfSize(off, size, tile, extent) ==
  Min({extent, (off \div tile) * tile + ((size + tile - 1) \div tile) * tile})

(* The staging window: whole tiles, cut at the image; the end in int64.    *)
AlignedOff(off, tile) == (off \div tile) * tile
AlignedEnd(off, size, tile, extent) ==
  Min({extent, ((off + size + tile - 1) \div tile) * tile})

Staging(r) ==
  LET ax == AlignedOff(r.x_off, raster.tw)
      ay == AlignedOff(r.y_off, raster.tl)
      w == AlignedEnd(r.x_off, r.x_size, raster.tw, raster.width) - ax
      l == AlignedEnd(r.y_off, r.y_size, raster.tl, raster.length) - ay
  IN  [file |-> 1, h |-> raster, bands |-> r.bands,
       x_off |-> ax, y_off |-> ay, x_size |-> w, y_size |-> l, data |-> 0,
       pixel |-> raster.bps, line |-> raster.bps * w, band |-> U64(w * l * raster.bps)]

(* The size of the staging buffer: a product in size_t that nothing checks. *)
StagingRoom(r) == U64(Staging(r).band * Len(r.bands))

ReadStaging(r) ==
  /\ Acceptable(r) /\ ~Fast(r)
  /\ BuildPlan(Staging(r))
  /\ dpc' = "staging" /\ UNCHANGED answer

(* bad_alloc of the staging buffer, the one exception that is caught.      *)
NoStagingMemory(r) ==
  /\ Acceptable(r) /\ ~Fast(r)
  /\ dpc' = "done" /\ answer' = "failed"
  /\ UNCHANGED plVars

(* length_error of a staging buffer beyond max_size, or bad_alloc of the   *)
(* plan or its executor, on either path.                                   *)
RasterIOThrows(r) ==
  /\ Acceptable(r)
  /\ dpc' = "done" /\ answer' = "thrown"
  /\ UNCHANGED plVars

RasterIO(r) ==
  /\ ds = "open" /\ dpc = "idle" /\ phase = "none"
  /\ req' = r
  /\ Refused(r) \/ ReadFast(r) \/ ReadStaging(r) \/ NoStagingMemory(r) \/ RasterIOThrows(r)
  /\ UNCHANGED openVars

(* Band::IRasterIO: one band, and no spacing of bands.                     *)
BandRasterIO(r, b) == RasterIO([r EXCEPT !.bands = <<b>>, !.band = 0])

FastEnd ==
  /\ dpc = "fast" /\ RunReturns
  /\ dpc' = "done" /\ answer' = IF bad THEN "failed" ELSE "ok"
  /\ UNCHANGED <<openVars, req, dst>>

StagingEnd ==
  /\ dpc = "staging" /\ RunReturns
  /\ IF bad THEN dpc' = "done" /\ answer' = "failed" /\ dst' = <<>>
            ELSE dpc' = "staged" /\ UNCHANGED <<answer, dst>>
  /\ UNCHANGED <<openVars, req>>

-----------------------------------------------------------------------------
(* MEMDataset::RasterIO over the staging buffer (external), with the       *)
(* window moved into it.                                                   *)

(* The sample GDAL takes for position i of n: the window begins at off, or *)
(* at f half pixels where a floating window of fs half pixels is given.    *)
Nearest(copy, float, off, size, f, fs, n, i) ==
  CASE copy -> off + i
    [] ~copy /\ float -> (2 * n * f + (2 * i + 1) * fs) \div (4 * n)
    [] ~copy /\ ~float -> (4 * n * off + (2 * i + 1) * 2 * size) \div (4 * n)

(* slip: the floating window is handed on as it came.                      *)
MovedUnlessFloat(r) ==
  [r EXCEPT !.x_off = @ - Staging(r).x_off, !.y_off = @ - Staging(r).y_off]

(* The request in coordinates of the staging buffer.                       *)
Moved(r) ==
  LET s == Staging(r)
  IN  [r EXCEPT !.x_off = @ - s.x_off, !.y_off = @ - s.y_off,
                !.fx = IF r.float THEN @ - 2 * s.x_off ELSE @,
                !.fy = IF r.float THEN @ - 2 * s.y_off ELSE @]

Column(r, i) == Nearest(SameSize(r), r.float, r.x_off, r.x_size, r.fx, r.fxs, r.buf_x, i)
Row(r, j) == Nearest(SameSize(r), r.float, r.y_off, r.y_size, r.fy, r.fys, r.buf_y, j)

(* The positions of the caller's buffer and their places.                  *)
Positions(r) == (1..Len(r.bands)) \X (0..(r.buf_y - 1)) \X (0..(r.buf_x - 1))
Place(r, p) == (p[1] - 1) * r.band + p[2] * r.line + p[3] * r.pixel

(* A buffer of the caller filled with cell f(p) at every position p.       *)
Filled(r, f) ==
  [o \in {Place(r, p) : p \in Positions(r)} |-> f[CHOOSE p \in Positions(r) : Place(r, p) = o]]

Typed(r, cell) == IF r.type = "native" THEN cell ELSE [cell EXCEPT !.state = "converted"]

Resample ==
  LET m == Moved(req)
      s == Staging(req)
      From(p) == (p[1] - 1) * s.band + Row(m, p[2]) * s.line + Column(m, p[3]) * s.pixel
      Picked(p) == IF From(p) \in DOMAIN dst THEN Typed(req, dst[From(p)]) ELSE Stale
  IN  /\ dpc = "staged"
      /\ dst' = Filled(req, [p \in Positions(req) |-> Picked(p)])
      /\ dpc' = "done" /\ answer' = "ok"
      /\ UNCHANGED <<openVars, req, planVars, next, cur, stage, scratch, bad>>

(* The in-memory dataset or one of its bands cannot be made, or its read   *)
(* fails.                                                                  *)
ResampleFails ==
  /\ dpc = "staged"
  /\ dpc' = "done" /\ answer' = "failed" /\ dst' = <<>>
  /\ UNCHANGED <<openVars, req, planVars, next, cur, stage, scratch, bad>>

-----------------------------------------------------------------------------
(* Band::IReadBlock.                                                       *)

(* slip: the block is looked up with row and column exchanged.             *)
BlockTransposed(x, y, b) ==
  [idx |-> TileIndex(TilesOver(raster.width, raster.tw), raster.spp, x, y, b - 1),
   direct |-> TRUE, at |-> 0, src_x |-> 0, src_y |-> 0, w |-> raster.tw, h |-> raster.tl]

(* One task, for the whole tile, straight into GDAL's block.               *)
BlockTask(x, y, b) ==
  [idx |-> TileIndex(TilesOver(raster.width, raster.tw), raster.spp, y, x, b - 1),
   direct |-> TRUE, at |-> 0, src_x |-> 0, src_y |-> 0, w |-> raster.tw, h |-> raster.tl]

(* GDAL asks for blocks of the grid only; the block is remembered as the   *)
(* request for its samples.                                                *)
AskBlock(x, y, b) ==
  /\ ds = "open" /\ dpc = "idle" /\ phase = "none"
  /\ x < TilesOver(raster.width, raster.tw) /\ y < TilesOver(raster.length, raster.tl)
  /\ b \in 1..raster.spp
  /\ req' = [x |-> x, y |-> y, band |-> b]
  /\ UNCHANGED <<openVars, ty, tx, tileVars>>

ReadBlock(x, y, b) ==
  /\ AskBlock(x, y, b) /\ BlockTask(x, y, b).idx < Entries(raster)
  /\ phase' = "run" /\ tasks' = <<BlockTask(x, y, b)>>
  /\ job' = [file |-> 1, h |-> raster]
  /\ dpc' = "block" /\ UNCHANGED answer

(* As PlanOverrun: offset and size are read past the end of the tables.    *)
ReadBlockOverrun(x, y, b) ==
  /\ AskBlock(x, y, b) /\ BlockTask(x, y, b).idx >= Entries(raster)
  /\ phase' = "overrun" /\ job' = [file |-> 1, h |-> raster]
  /\ dpc' = "block" /\ UNCHANGED <<answer, tasks>>

(* bad_alloc of the plan or its executor.                                  *)
ReadBlockThrows(x, y, b) ==
  /\ AskBlock(x, y, b)
  /\ dpc' = "given" /\ answer' = "thrown"
  /\ UNCHANGED <<phase, job, tasks>>

BlockEnd ==
  /\ dpc = "block" /\ RunReturns
  /\ dpc' = "given" /\ answer' = IF bad THEN "failed" ELSE "ok"
  /\ UNCHANGED <<openVars, req, dst>>

DriverReturn ==
  /\ dpc \in {"done", "given"}
  /\ dpc' = "idle" /\ req' = NoRequest /\ answer' = "none" /\ dst' = <<>>
  /\ UNCHANGED <<openVars, planVars, next, cur, stage, scratch, bad>>

-----------------------------------------------------------------------------
OpenStep ==
  \/ \E h \in Rasters : Parsed(h)
  \/ RegisterDriver \/ CannotOpen \/ OpenFile \/ NoPRead \/ MakeImage \/ OpenThrows \/ OpenDone \/ CloseImage

AskStep ==
  \/ ds = "open" /\ dpc = "idle" /\
       \/ \E r \in Requests : RasterIO(r) \/ (\E b \in 1..raster.spp : BandRasterIO(r, b))
       \/ \E x, y \in 0..U16Max, b \in 1..raster.spp :
            ReadBlock(x, y, b) \/ ReadBlockOverrun(x, y, b) \/ ReadBlockThrows(x, y, b)
  \/ FastEnd \/ StagingEnd \/ Resample \/ ResampleFails \/ BlockEnd \/ DriverReturn

DRNext ==
  \/ OpenStep
  \/ AskStep
  \/ dpc \in {"fast", "staging", "block"} /\ PlanStep /\ UNCHANGED <<openVars, askVars>>

DRSpec == DRInit /\ [][DRNext]_drVars

-----------------------------------------------------------------------------
(* The state is well formed; and whichever way Image::Open ended, a file   *)
(* is open exactly as long as something owns it.                           *)
DRTypeOK ==
  /\ ds \in {"unregistered", "none", "parsed", "file", "image", "open"}
  /\ raster \in Rasters \cup {NoRaster} /\ (raster = NoRaster <=> ds \in {"unregistered", "none"})
  /\ dpc \in {"idle", "fast", "staging", "staged", "block", "given", "done"}
  /\ answer \in {"none", "ok", "refused", "failed", "thrown"}
  /\ dpc # "idle" => ds = "open"
  /\ files = IF ds \in {"file", "image", "open"} THEN 1 ELSE 0

(* The staging window has every sample the request asks for, lies inside   *)
(* the image, and stays within int although it is rounded up to tiles.     *)
StagingCovers ==
  dpc \in {"staging", "staged"} =>
    LET s == Staging(req) IN
    /\ 0 <= s.x_off /\ s.x_off <= req.x_off
    /\ req.x_off + req.x_size <= s.x_off + s.x_size /\ s.x_off + s.x_size <= raster.width
    /\ 0 <= s.y_off /\ s.y_off <= req.y_off
    /\ req.y_off + req.y_size <= s.y_off + s.y_size /\ s.y_off + s.y_size <= raster.length

(* Every byte written is in the caller's buffer, in the staging buffer or  *)
(* in GDAL's block.                                                        *)
DriverWritesInside ==
  \A o \in DOMAIN dst :
    /\ o >= 0
    /\ dpc \in {"staging", "staged"} => o + raster.bps <= StagingRoom(req)
    /\ dpc = "block" => o + raster.bps <= raster.tw * raster.tl * raster.bps
    /\ dpc = "fast" => \E p \in Positions(req) : o = Place(req, p)

(* A read that succeeds, direct or staged, gives at every position the     *)
(* sample that the same read of the whole image would give there, and      *)
(* touches nothing else.                                                   *)
DriverReadExact ==
  dpc = "done" /\ answer = "ok" =>
    dst = Filled(req, [p \in Positions(req) |->
            Typed(req, SampleAt(1, raster, req.bands[p[1]], Row(req, p[2]), Column(req, p[3])))])

(* A block that was read is the tile of its place, decoded, edge tiles     *)
(* included.                                                               *)
BlockIsTile ==
  dpc = "given" /\ answer = "ok" =>
    dst = [o \in {(j * raster.tw + i) * raster.bps : j \in 0..(raster.tl - 1), i \in 0..(raster.tw - 1)} |->
             LET p == o \div raster.bps
             IN  SampleAt(1, raster, req.band, req.y * raster.tl + p \div raster.tw,
                          req.x * raster.tw + (p % raster.tw))]
=============================================================================
