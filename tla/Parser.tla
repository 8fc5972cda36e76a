------------------------------- MODULE Parser -------------------------------
(***************************************************************************)
(* parse_blob (core/src/parser.cpp): from a header blob to the Header that *)
(* every read uses.  The checks of the fields are one step, the prefix sum *)
(* that reconstructs the tile offsets is one step per tile.                *)
(*                                                                         *)
(* A blob is a record: "short" when it has fewer bytes than the header,    *)
(* "ragged" when the bytes after the header are not whole uint32 entries,  *)
(* the header fields, and the table counts of entries byte counts.         *)
(***************************************************************************)
EXTENDS BlobFormat, PrefixSums

CONSTANTS
  Blobs,     (* the blobs a caller may pass                                *)
  NoBlob, NoHeader

VARIABLES
  ppc,       (* "idle", "fields", "sum" or "done"                          *)
  blob,      (* the argument                                               *)
  header,    (* the Header being filled                                    *)
  offsets,   (* its tile_offsets                                           *)
  at,        (* i, the tile whose offset is reconstructed next             *)
  offset,    (* the running offset                                         *)
  verdict    (* "ok" or the ParseError returned, "none" before             *)

(* What the bytes of a blob can hold.                                      *)
BlobShape(x) ==
  /\ {x.short, x.ragged, x.magic} \subseteq BOOLEAN
  /\ {x.tw, x.tl, x.spp} \subseteq 0..U16Max
  /\ {x.width, x.length} \subseteq 0..U32Max
  /\ {x.version, x.bits, x.format, x.predictor, x.entries} \subseteq Nat
  /\ x.base \in 0..U64Max
  /\ x.counts \in [0..(x.entries - 1) -> 0..U32Max]

ASSUME BlobAssumption == \A x \in Blobs : BlobShape(x)

psVars == <<ppc, blob, header, offsets, at, offset, verdict>>

Complex == {5, 6}

-----------------------------------------------------------------------------
(* The checks, in the order of the code.  Each says when its error is due, *)
(* given that those before it are not.                                     *)

ParseErrors == <<"blob_too_short", "bad_magic", "unsupported_version",
                 "invalid_bits_per_sample", "invalid_sample_format",
                 "invalid_predictor", "undefined_encoding",
                 "invalid_dimensions", "tile_count_overflow",
                 "blob_size_mismatch">>

Checks == 1..10   (* the indices of ParseErrors                              *)

(* No tile dimension is zero once the dimensions have been checked.        *)
TileCount(x) ==
  IF 0 \in {x.tw, x.tl} THEN 0 ELSE
  TileProduct(TilesOver(x.width, x.tw), TilesOver(x.length, x.tl), x.spp)

UnknownEncoding(x) == InferGdalType(x.bits, x.format) = "Unknown"

BadPredictor(x) ==
  x.predictor \notin {1, 2} \/ (x.predictor = 2 /\ x.format \in Complex)

(* slip: a raster size too big for int is let through.                     *)
ZeroDimensions(x) == 0 \in {x.width, x.length, x.tw, x.tl, x.spp}

BadDimensions(x) ==
  \/ 0 \in {x.width, x.length, x.tw, x.tl, x.spp}
  \/ x.width > IntMax \/ x.length > IntMax

WrongSize(x) == x.ragged \/ x.entries # TileCount(x)

Due(x, e) ==
  CASE e = "blob_too_short" -> x.short
    [] e = "bad_magic" -> ~x.magic
    [] e = "unsupported_version" -> x.version # 1
    [] e = "invalid_bits_per_sample" -> x.bits \notin {8, 16, 32, 64, 128}
    [] e = "invalid_sample_format" -> x.format \notin {1, 2, 3, 5, 6}
    [] e = "invalid_predictor" -> BadPredictor(x)
    [] e = "undefined_encoding" -> UnknownEncoding(x)
    [] e = "invalid_dimensions" -> BadDimensions(x)
    [] e = "tile_count_overflow" -> TileCount(x) > U32Max
    [] e = "blob_size_mismatch" -> WrongSize(x)

(* Check k fails first.                                                    *)
FirstDue(x, k) == /\ \A j \in 1..(k - 1) : ~Due(x, ParseErrors[j])
                  /\ Due(x, ParseErrors[k])

FieldsPass(x) == \A k \in Checks : ~Due(x, ParseErrors[k])

(* infer_gdal_type failing is reported as invalid_sample_format too.       *)
Reported(e) == IF e = "undefined_encoding" THEN "invalid_sample_format" ELSE e

(* Header h but for its tile_offsets.                                      *)
HeaderOf(x) ==
  [width |-> x.width, length |-> x.length, tw |-> x.tw, tl |-> x.tl,
   spp |-> x.spp, bits |-> x.bits, format |-> x.format,
   predictor |-> x.predictor, base |-> x.base,
   type |-> InferGdalType(x.bits, x.format), bytes |-> x.bits \div 8,
   across |-> TilesOver(x.width, x.tw), down |-> TilesOver(x.length, x.tl),
   tiles |-> TileCount(x), tile_size |-> U64(x.tw * x.tl * (x.bits \div 8)),
   counts |-> x.counts]

-----------------------------------------------------------------------------
PSInit ==
  /\ ppc = "idle" /\ blob = NoBlob /\ header = NoHeader /\ offsets = <<>>
  /\ at = 0 /\ offset = 0 /\ verdict = "none"

ParseBegin(x) ==
  /\ ppc = "idle"
  /\ ppc' = "fields" /\ blob' = x /\ verdict' = "none"
  /\ header' = NoHeader /\ offsets' = <<>> /\ at' = 0 /\ offset' = 0

Refuse(e) ==
  /\ ppc' = "done" /\ verdict' = e
  /\ header' = NoHeader /\ offsets' = <<>>
  /\ UNCHANGED <<blob, at, offset>>

(* An early return of the checks.                                          *)
RefuseFields ==
  /\ ppc = "fields"
  /\ \E k \in Checks : FirstDue(blob, k) /\ Refuse(Reported(ParseErrors[k]))

AcceptFields ==
  /\ ppc = "fields" /\ FieldsPass(blob)
  /\ ppc' = "sum"
  /\ header' = HeaderOf(blob)
  /\ offsets' = [i \in 0..(TileCount(blob) - 1) |-> 0]
  /\ offset' = blob.base
  /\ UNCHANGED <<blob, at, verdict>>

(* One turn of the prefix sum.  The offset is stored before the sum that   *)
(* would leave uint64 is refused.                                          *)
StepNoFraming(n) == n              (* slip: the framing is left out        *)

Step(n) == n + Framing

RefuseEmptyTile ==
  /\ ppc = "sum" /\ at < header.tiles
  /\ header.counts[at] = 0
  /\ Refuse("non_positive_tile_byte_count")

RefuseOffset ==
  /\ ppc = "sum" /\ at < header.tiles
  /\ header.counts[at] # 0
  /\ offset > U64Max - Step(header.counts[at])
  /\ Refuse("offset_overflow")

(* slip: the sum is taken without the check that it fits.                  *)
SumTileUnguarded ==
  /\ ppc = "sum" /\ at < header.tiles
  /\ header.counts[at] # 0
  /\ offsets' = [offsets EXCEPT ![at] = offset]
  /\ offset' = U64(offset + Step(header.counts[at]))
  /\ at' = at + 1
  /\ UNCHANGED <<ppc, blob, header, verdict>>

SumTile ==
  /\ ppc = "sum" /\ at < header.tiles
  /\ header.counts[at] # 0
  /\ offset <= U64Max - Step(header.counts[at])
  /\ offsets' = [offsets EXCEPT ![at] = offset]
  /\ offset' = offset + Step(header.counts[at])
  /\ at' = at + 1
  /\ UNCHANGED <<ppc, blob, header, verdict>>

ParseEnd ==
  /\ ppc = "sum" /\ at = header.tiles
  /\ ppc' = "done" /\ verdict' = "ok"
  /\ UNCHANGED <<blob, header, offsets, at, offset>>

ParseStep == RefuseFields \/ AcceptFields \/ RefuseEmptyTile \/ RefuseOffset
             \/ SumTile \/ ParseEnd

(* The caller has taken the result; nothing of the call remains.           *)
ParseReturn ==
  /\ ppc = "done"
  /\ ppc' = "idle" /\ blob' = NoBlob /\ header' = NoHeader /\ offsets' = <<>>
  /\ at' = 0 /\ offset' = 0 /\ verdict' = "none"

PSNext == (ppc = "idle" /\ \E x \in Blobs : ParseBegin(x)) \/ ParseStep \/ ParseReturn

PSSpec == PSInit /\ [][PSNext]_psVars

-----------------------------------------------------------------------------
(* What a parsed header promises its readers.                              *)

(* The exact grid and the exact number of tiles, in unbounded arithmetic.  *)
Ceil(a, d) == (a + d - 1) \div d
TrueTiles(x) == Ceil(x.width, x.tw) * Ceil(x.length, x.tl) * x.spp

(* The header has passed its checks: the sum is under way or done.         *)
Summing == ppc = "sum" \/ verdict = "ok"

(* One state type for the whole module.                                    *)
PSTypeOK ==
  /\ ppc \in {"idle", "fields", "sum", "done"}
  /\ ppc # "idle" => BlobShape(blob)
  /\ verdict \in {"none", "ok", "non_positive_tile_byte_count", "offset_overflow"}
                \cup {Reported(ParseErrors[k]) : k \in Checks}
  /\ at \in 0..U32Max /\ offset \in 0..U64Max
  /\ Summing =>
       /\ offsets \in [0..(header.tiles - 1) -> 0..U64Max]
       /\ header.counts \in [0..(header.tiles - 1) -> 0..U32Max]

(* The payloads of an accepted header lie one after the other in the file, *)
(* each followed by its framing, and none runs past the end of uint64: two *)
(* reads never share a byte and no offset has wrapped.                     *)
ExtentsDisjoint ==
  verdict = "ok" =>
    \A j \in 0..(header.tiles - 1) :
      /\ header.counts[j] > 0
      /\ offsets[j] + header.counts[j] + Framing <= U64Max
      /\ \A i \in 0..(j - 1) :
           offsets[i] + header.counts[i] + Framing <= offsets[j]

(* What the tiles take in the file, each with its framing.                 *)
Rooms(x) == [i \in 1..x.entries |-> x.counts[i - 1] + Framing]

(* The blobs of the format of BlobHeader (31 bytes, magic "<3<3", with a   *)
(* predictor byte), by closed formulas: every field in its domain, as many *)
(* entries as the grid has tiles, all positive, and a last tile that still *)
(* ends within uint64.  SPEC.md describes another header (30 bytes, other  *)
(* magic, Predictor always 1, no limit at the largest int).                *)
WellFormed(x) ==
  /\ ~x.short /\ x.magic /\ x.version = 1
  /\ \E t \in GdalTypes : SampleEncoding[t] = <<x.format, x.bits>>
  /\ x.predictor = 1 \/ (x.predictor = 2 /\ x.format \notin Complex)
  /\ {x.width, x.length} \subseteq 1..IntMax
  /\ 0 \notin {x.tw, x.tl, x.spp}
  /\ TrueTiles(x) <= U32Max
  /\ ~x.ragged /\ x.entries = TrueTiles(x)
  /\ \A i \in 0..(x.entries - 1) : x.counts[i] > 0
  /\ x.base + PrefixSum(Rooms(x), x.entries) <= U64Max

(* What the loop of parse_blob lets through is what the closed formulas    *)
(* say, as long as the number of tiles that the header names can be        *)
(* counted in uint64: no check, and no order of the checks and of the      *)
(* prefix sum, lets a malformed blob in or keeps a well-formed one out.    *)
VerdictIsExact ==
  ppc = "done" =>
    \/ verdict = "ok" <=> WellFormed(blob)
    \/ 0 \notin {blob.tw, blob.tl} /\ TrueTiles(blob) > U64Max

(* Every position that build_plan or IReadBlock can ask for has an entry   *)
(* of its own in the tables of the header.                                 *)
GridIndexable ==
  verdict = "ok" /\ TrueTiles(blob) <= U64Max =>
    LET Places == (0..(header.down - 1)) \X (0..(header.across - 1)) \X (0..(header.spp - 1))
        Index(p) == TileIndex(header.across, header.spp, p[1], p[2], p[3])
    IN  /\ \A p \in Places : Index(p) \in 0..(header.tiles - 1)
        /\ \A p, q \in Places : Index(p) = Index(q) => p = q

(* SPEC.md:107: the blob is exactly as long as the grid of its header      *)
(* needs, with no condition on the product.                                *)
TileCountExact == verdict = "ok" => header.tiles = TrueTiles(blob)

-----------------------------------------------------------------------------
(* The inductive invariant behind ExtentsDisjoint and VerdictIsExact.      *)

(* Tile j starts where its predecessor and its framing end.                *)
StartOf(j) == IF j = 0 THEN blob.base
              ELSE offsets[j - 1] + header.counts[j - 1] + Framing

PrefixInv ==
  /\ at <= header.tiles
  /\ offset = StartOf(at)
  /\ \A j \in 0..(at - 1) : header.counts[j] > 0 /\ offsets[j] = StartOf(j)

(* Every tile summed so far ends before every later one and before offset. *)
OrderInv ==
  \A j \in 0..(at - 1) :
    /\ offsets[j] + header.counts[j] + Framing <= offset
    /\ \A i \in 0..(j - 1) : offsets[i] + header.counts[i] + Framing <= offsets[j]

(* The running offset is a prefix sum of the table.                        *)
SumInv == offset = blob.base + PrefixSum(Rooms(blob), at)

PSInv ==
  /\ PSTypeOK
  /\ verdict # "none" <=> ppc = "done"
  /\ ppc = "fields" => at = 0
  /\ verdict = "ok" => at = header.tiles
  /\ verdict \notin {"none", "ok"} => ~WellFormed(blob)
  /\ Summing => /\ header = HeaderOf(blob) /\ FieldsPass(blob)
                /\ PrefixInv /\ OrderInv /\ SumInv
=============================================================================
