------------------------------ MODULE Builder -------------------------------
(***************************************************************************)
(* build_blob_from_file (core/src/builder.cpp): from a GeoTIFF to the blob *)
(* that a catalog keeps.  GDAL, external to the repository, is seen only   *)
(* through what it answers about a file: a record of the answers, and the  *)
(* BLOCK_SIZE and BLOCK_OFFSET it reports of the tiles <<row, col, sample>>*)
(* it knows.                                                               *)
(***************************************************************************)
EXTENDS BlobFormat

CONSTANTS
  Files,     (* what may be found at the path                              *)
  NoFile, NoBuilt

(* A raster has pixels, and its tiles end within the offsets of a file.    *)
FileShape(f) ==
  /\ {f.opens, f.bigtiff, f.raster, f.subdatasets, f.zstd, f.mask, f.cog} \subseteq BOOLEAN
  /\ {f.width, f.length} \subseteq 1..IntMax
  /\ {f.bands, f.overviews, f.tw, f.tl, f.predictor} \subseteq Nat
  /\ \A p \in DOMAIN f.tile :
       /\ f.tile[p].offset \in Nat /\ f.tile[p].size \in Nat
       /\ f.tile[p].offset + f.tile[p].size + Framing <= U64Max

ASSUME FileAssumption == \A f \in Files : FileShape(f)

VARIABLES
  bpc,       (* "idle", "profile", "walk", "overrun" or "done"             *)
  file,      (* the file at the path                                       *)
  row, col, sample,      (* the loops of collect_tile_byte_counts          *)
  expected,  (* expected_offset                                            *)
  found,     (* counts, the byte counts collected so far                   *)
  built      (* the blob returned, NoBuilt when the file was refused       *)

bdVars == <<bpc, file, row, col, sample, expected, found, built>>

-----------------------------------------------------------------------------
(* The profile.  Every failed rule ends the call with a message; the       *)
(* messages differ and nothing else.                                       *)

Format(f) == SampleEncoding[f.type][1]
Across(f) == TilesOver(f.width, f.tw)
Down(f) == TilesOver(f.length, f.tl)
Tiles(f) == TileProduct(Across(f), Down(f), f.bands)
Origin == <<0, 0, 0>>

Conforms(f) ==
  /\ f.opens /\ f.bigtiff /\ f.raster
  /\ ~f.subdatasets
  /\ f.bands \in 1..U16Max
  /\ f.zstd
  /\ f.bands > 1 => f.interleave = "TILE"
  /\ ~f.mask /\ f.overviews = 0
  /\ f.tw \in 1..U16Max /\ f.tl \in 1..U16Max
  /\ f.cog
  /\ f.type \in GdalTypes
  /\ f.predictor \in {1, 2}
  /\ ~(f.predictor = 2 /\ Format(f) \in {5, 6})
  /\ Origin \in DOMAIN f.tile
  /\ Tiles(f) <= U32Max

-----------------------------------------------------------------------------
BDInit ==
  /\ bpc = "idle" /\ file = NoFile /\ built = NoBuilt
  /\ row = 0 /\ col = 0 /\ sample = 0 /\ expected = 0 /\ found = <<>>

BuildBegin ==
  /\ bpc = "idle"
  /\ bpc' = "profile" /\ file' \in Files
  /\ UNCHANGED <<row, col, sample, expected, found, built>>

RefuseFile ==
  /\ bpc = "profile" /\ ~Conforms(file)
  /\ bpc' = "done"
  /\ UNCHANGED <<file, row, col, sample, expected, found, built>>

(* counts.resize(n), and the offset the first tile must have.              *)
WalkBegin ==
  /\ bpc = "profile" /\ Conforms(file)
  /\ bpc' = "walk"
  /\ found' = [i \in 0..(Tiles(file) - 1) |-> 0]
  /\ expected' = file.tile[Origin].offset
  /\ row' = 0 /\ col' = 0 /\ sample' = 0
  /\ UNCHANGED <<file, built>>

(* Either of the two allocations fails.                                    *)
OutOfMemory ==
  /\ \/ bpc = "profile" /\ Conforms(file)
     \/ bpc = "walk" /\ row = Down(file)
  /\ bpc' = "done"
  /\ UNCHANGED <<file, row, col, sample, expected, found, built>>

Here == file.tile[<<row, col, sample>>]
HasTile == <<row, col, sample>> \in DOMAIN file.tile

(* slip: where the tile lies is not looked at.                             *)
TileFitsAnywhere == HasTile /\ Here.size \in 1..U32Max

TileFits == HasTile /\ Here.size \in 1..U32Max /\ Here.offset = expected

RefuseTile ==
  /\ bpc = "walk" /\ row < Down(file) /\ ~TileFits
  /\ bpc' = "done"
  /\ UNCHANGED <<file, row, col, sample, expected, found, built>>

(* slip: the samples are outermost, as in a band-interleaved file.         *)
PlaceBandMajor == (sample * Down(file) + row) * Across(file) + col

(* (row * tx + col) * spp + b, in size_t.                                  *)
Place == (row * Across(file) + col) * file.bands + sample

(* Samples innermost, then columns, then rows.                             *)
Advance ==
  \/ /\ sample + 1 < file.bands
     /\ sample' = sample + 1 /\ UNCHANGED <<row, col>>
  \/ /\ sample + 1 = file.bands /\ col + 1 < Across(file)
     /\ sample' = 0 /\ col' = col + 1 /\ UNCHANGED row
  \/ /\ sample + 1 = file.bands /\ col + 1 = Across(file)
     /\ sample' = 0 /\ col' = 0 /\ row' = row + 1

TakeTile ==
  /\ bpc = "walk" /\ row < Down(file) /\ TileFits /\ Place < Tiles(file)
  /\ found' = [found EXCEPT ![Place] = Here.size]
  /\ expected' = U64(Here.offset + Here.size + Framing)
  /\ Advance
  /\ UNCHANGED <<bpc, file, built>>

(* The size is written past the end of counts.  What the process does from *)
(* here on is undefined, and nothing is said about it.                     *)
Overrun ==
  /\ bpc = "walk" /\ row < Down(file) /\ TileFits /\ Place >= Tiles(file)
  /\ bpc' = "overrun"
  /\ UNCHANGED <<file, row, col, sample, expected, found, built>>

AfterOverrun == bpc = "overrun" /\ UNCHANGED bdVars

(* BlobHeader bh, followed by counts.                                      *)
BlobOf(f, counts) ==
  [short |-> FALSE, ragged |-> FALSE, magic |-> TRUE, version |-> 1,
   width |-> f.width, length |-> f.length, tw |-> f.tw, tl |-> f.tl,
   spp |-> f.bands, bits |-> SampleEncoding[f.type][2], format |-> Format(f),
   predictor |-> f.predictor, base |-> f.tile[Origin].offset,
   entries |-> Tiles(f), counts |-> counts]

EmitBlob ==
  /\ bpc = "walk" /\ row = Down(file)
  /\ bpc' = "done"
  /\ built' = BlobOf(file, found)
  /\ UNCHANGED <<file, row, col, sample, expected, found>>

BuildStep == RefuseFile \/ WalkBegin \/ OutOfMemory \/ RefuseTile \/ TakeTile
             \/ Overrun \/ AfterOverrun \/ EmitBlob

(* The caller has taken the result; nothing of the call remains.           *)
BuildReturn ==
  /\ bpc = "done"
  /\ bpc' = "idle" /\ file' = NoFile /\ built' = NoBuilt
  /\ row' = 0 /\ col' = 0 /\ sample' = 0 /\ expected' = 0 /\ found' = <<>>

-----------------------------------------------------------------------------
Places(f) == (0..(Down(f) - 1)) \X (0..(Across(f) - 1)) \X (0..(f.bands - 1))

(* The index of a place in tile-index order, whatever the integers hold.   *)
Number(f, p) == (p[1] * Across(f) + p[2]) * f.bands + p[3]

End(tile) == tile.offset + tile.size + Framing

(* SPEC.md, Contiguity: the payloads of the file and their framing form    *)
(* one run in tile-index order, with none of them missing or empty.        *)
OneRun(f) ==
  /\ Places(f) \subseteq DOMAIN f.tile
  /\ \A p \in Places(f) : f.tile[p].size \in 1..U32Max
  /\ \A p, q \in Places(f) :
       Number(f, q) = Number(f, p) + 1 => f.tile[q].offset = End(f.tile[p])

(* The state is well formed, and while the tiles are walked the cursor and *)
(* the place it writes to stay inside the grid.                            *)
BDTypeOK ==
  /\ bpc \in {"idle", "profile", "walk", "overrun", "done"}
  /\ expected \in 0..U64Max
  /\ bpc # "idle" => FileShape(file)
  /\ bpc = "walk" =>
       /\ Conforms(file)
       /\ row \in 0..Down(file)
       /\ row < Down(file) => col \in 0..(Across(file) - 1)
       /\ sample \in 0..(file.bands - 1)
       /\ found \in [0..(Tiles(file) - 1) -> 0..U32Max]

(* A blob is only ever returned of a file whose tiles lie as the prefix    *)
(* sum of the parser will assume: a band-interleaved file, one with a gap, *)
(* one with a hole is refused.  Where the count of the tiles has wrapped   *)
(* and the walk leaves the table, no blob is returned in this model and    *)
(* nothing is claimed.                                                     *)
BuiltFromOneRun == built # NoBuilt => Conforms(file) /\ OneRun(file)

-----------------------------------------------------------------------------
(* The inductive invariant behind BuiltFromOneRun.                         *)

Cursor == Number(file, <<row, col, sample>>)

(* The tiles behind the cursor are within the table, form a run that ends  *)
(* at expected, and have their sizes in the table.                         *)
RunInv ==
  /\ Cursor <= Tiles(file) /\ Cursor <= expected
  /\ row = Down(file) => col = 0 /\ sample = 0
  /\ \A p \in Places(file) :
       Number(file, p) < Cursor =>
         /\ p \in DOMAIN file.tile /\ file.tile[p].size \in 1..U32Max
         /\ found[Number(file, p)] = file.tile[p].size
         /\ \A q \in Places(file) :
              Number(file, q) = Number(file, p) + 1 =>
                (IF Number(file, q) < Cursor THEN file.tile[q].offset ELSE expected)
                  = End(file.tile[p])

(* Only a count that uint64 cannot hold lets the walk leave its table.     *)
OverrunIsWrap ==
  bpc = "overrun" => Conforms(file) /\ Down(file) * Across(file) * file.bands > U64Max

(* What a finished walk leaves: every size in its place of the table.      *)
BuiltInv ==
  /\ bpc = "done" /\ BuiltFromOneRun
  /\ built = BlobOf(file, found)
  /\ Tiles(file) = Down(file) * Across(file) * file.bands
  /\ found \in [0..(Tiles(file) - 1) -> 0..U32Max]
  /\ \A p \in Places(file) : found[Number(file, p)] = file.tile[p].size

BDInv ==
  /\ BDTypeOK /\ OverrunIsWrap
  /\ bpc = "walk" => RunInv
  /\ built # NoBuilt => BuiltInv
=============================================================================
