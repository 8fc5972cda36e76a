---------------------------- MODULE IndexingProofs ----------------------------
(***************************************************************************)
(* Proofs about the builder and the parser of the header blob, for every   *)
(* file, every blob and every width of the integers: the state types, that *)
(* the payloads of an accepted header are disjoint and in order, that      *)
(* every tile of its grid has an index of its own, that parse_blob accepts *)
(* exactly the blobs that are well formed, that a blob is returned only of *)
(* a file whose tiles form one run, and that parsing it gives back that    *)
(* file's tiles.                                                           *)
(***************************************************************************)
EXTENDS Indexing, ArithmeticProofs

-----------------------------------------------------------------------------
(* The two tables of sample types.                                         *)

(* A type has one row in each of the two tables.                           *)
LEMMA TypeNames ==
  GdalTypes = {"Byte", "UInt16", "UInt32", "UInt64", "Int8", "Int16", "Int32", "Int64",
               "Float16", "Float32", "Float64", "CInt16", "CInt32", "CFloat16", "CFloat32",
               "CFloat64"}
  BY DEF GdalTypes, SampleEncoding

LEMMA InferOne ==
  ASSUME NEW bits, NEW format, NEW t, <<format, bits, t>> \in InferTable,
         \A r \in InferTable : r[1] = format /\ r[2] = bits => r[3] = t
  PROVE  InferGdalType(bits, format) = t
<1> DEFINE rows == {r \in InferTable : r[1] = format /\ r[2] = bits}
<1>1. <<format, bits, t>> \in rows
  OBVIOUS
<1>2. \A r \in rows : r[3] = t
  OBVIOUS
<1>3. InferGdalType(bits, format) = IF rows = {} THEN "Unknown" ELSE (CHOOSE r \in rows : TRUE)[3]
  BY DEF InferGdalType
<1> HIDE DEF rows
<1>4. QED
  BY <1>1, <1>2, <1>3

LEMMA TablesAgree ==
  ASSUME NEW t \in GdalTypes
  PROVE  LET format == SampleEncoding[t][1]
             bits == SampleEncoding[t][2]
         IN  /\ SampleEncoding[t] = <<format, bits>>
             /\ InferGdalType(bits, format) = t
             /\ format \in {1, 2, 3, 5, 6} /\ bits \in {8, 16, 32, 64, 128} /\ t # "Unknown"
<1>1. /\ SampleEncoding[t] = <<SampleEncoding[t][1], SampleEncoding[t][2]>>
      /\ <<SampleEncoding[t][1], SampleEncoding[t][2], t>> \in InferTable
      /\ SampleEncoding[t][1] \in {1, 2, 3, 5, 6} /\ SampleEncoding[t][2] \in {8, 16, 32, 64, 128}
      /\ t # "Unknown"
  BY TypeNames DEF SampleEncoding, InferTable
<1>2. \A r \in InferTable : r[1] = SampleEncoding[t][1] /\ r[2] = SampleEncoding[t][2] => r[3] = t
  BY TypeNames DEF SampleEncoding, InferTable
<1>3. QED
  BY <1>1, <1>2, InferOne

LEMMA InferredIsListed ==
  ASSUME NEW bits, NEW format, InferGdalType(bits, format) # "Unknown"
  PROVE  \E t \in GdalTypes : SampleEncoding[t] = <<format, bits>>
<1> DEFINE rows == {r \in InferTable : r[1] = format /\ r[2] = bits}
<1>1. PICK r \in InferTable : r[1] = format /\ r[2] = bits
  <2>1. rows # {}
    BY DEF InferGdalType
  <2>2. QED
    BY <2>1
<1>2. r[3] \in GdalTypes /\ SampleEncoding[r[3]] = <<r[1], r[2]>>
  BY TypeNames DEF SampleEncoding, InferTable
<1>3. QED
  BY <1>1, <1>2

-----------------------------------------------------------------------------
(* The grid of a blob.                                                     *)

(* uint32 is wide enough to round a positive int up to tiles.              *)
LEMMA TilesOverIsCeil ==
  ASSUME NEW e \in 1..IntMax, NEW t \in 1..U16Max
  PROVE  TilesOver(e, t) = Ceil(e, t) /\ Ceil(e, t) \in Nat \ {0}
<1>1. e + t - 1 \in 0..U32Max
  BY WidthAssumption
<1>2. U32(e + t - 1) = e + t - 1
  BY <1>1, NoWrap, WidthAssumption DEF U32
<1>3. (e + t - 1) \div t \in Nat /\ e <= ((e + t - 1) \div t) * t
  BY RoundUp
<1>4. (e + t - 1) \div t # 0
  BY <1>3
<1>5. QED
  BY <1>2, <1>3, <1>4 DEF TilesOver, Ceil

LEMMA CheckedDimensions ==
  ASSUME NEW x, BlobShape(x), ~BadDimensions(x)
  PROVE  /\ x.tw \in 1..U16Max /\ x.tl \in 1..U16Max /\ x.spp \in 1..U16Max
         /\ x.width \in 1..IntMax /\ x.length \in 1..IntMax
<1>1. /\ x.tw \in 0..U16Max /\ x.tl \in 0..U16Max /\ x.spp \in 0..U16Max
      /\ x.width \in 0..U32Max /\ x.length \in 0..U32Max
  BY DEF BlobShape
<1>2. /\ x.tw # 0 /\ x.tl # 0 /\ x.width # 0 /\ x.length # 0 /\ x.spp # 0
      /\ ~(x.width > IntMax) /\ ~(x.length > IntMax)
  BY DEF BadDimensions
<1>3. QED
  BY <1>1, <1>2, WidthAssumption

(* The tile count of a blob with good dimensions, where it fits uint64.    *)
LEMMA CountedGrid ==
  ASSUME NEW x, BlobShape(x), ~BadDimensions(x)
  PROVE  /\ TilesOver(x.width, x.tw) = Ceil(x.width, x.tw) /\ Ceil(x.width, x.tw) \in Nat \ {0}
         /\ TilesOver(x.length, x.tl) = Ceil(x.length, x.tl) /\ Ceil(x.length, x.tl) \in Nat \ {0}
         /\ x.spp \in Nat \ {0} /\ TrueTiles(x) \in Nat
         /\ TrueTiles(x) <= U64Max => TileCount(x) = TrueTiles(x)
<1>1. /\ x.tw \in 1..U16Max /\ x.tl \in 1..U16Max /\ x.spp \in 1..U16Max
      /\ x.width \in 1..IntMax /\ x.length \in 1..IntMax
  BY CheckedDimensions
<1>2. /\ TilesOver(x.width, x.tw) = Ceil(x.width, x.tw) /\ Ceil(x.width, x.tw) \in Nat \ {0}
      /\ TilesOver(x.length, x.tl) = Ceil(x.length, x.tl) /\ Ceil(x.length, x.tl) \in Nat \ {0}
  BY <1>1, TilesOverIsCeil
<1>3. Ceil(x.width, x.tw) * Ceil(x.length, x.tl) \in Nat
  BY <1>2
<1>4. TrueTiles(x) \in Nat
  BY <1>1, <1>3, WidthAssumption DEF TrueTiles
<1>5. TileCount(x) = U64(TrueTiles(x))
  BY <1>1, <1>2 DEF TileCount, TileProduct, TrueTiles
<1>6. ASSUME TrueTiles(x) <= U64Max PROVE TileCount(x) = TrueTiles(x)
  <2>1. TrueTiles(x) \in 0..U64Max
    BY <1>4, <1>6, WidthAssumption
  <2>2. QED
    BY <1>5, <2>1, NoWrap, WidthAssumption DEF U64
<1>7. QED
  BY <1>1, <1>2, <1>4, <1>6

-----------------------------------------------------------------------------
(* Well-formed blobs pass the checks, and what passes them lacks only      *)
(* the conditions on the table to be one.                                  *)

LEMMA ErrorList ==
  /\ ParseErrors[1] = "blob_too_short" /\ ParseErrors[2] = "bad_magic"
  /\ ParseErrors[3] = "unsupported_version" /\ ParseErrors[4] = "invalid_bits_per_sample"
  /\ ParseErrors[5] = "invalid_sample_format" /\ ParseErrors[6] = "invalid_predictor"
  /\ ParseErrors[7] = "undefined_encoding" /\ ParseErrors[8] = "invalid_dimensions"
  /\ ParseErrors[9] = "tile_count_overflow" /\ ParseErrors[10] = "blob_size_mismatch"
  BY DEF ParseErrors

LEMMA FieldsPassMeans ==
  ASSUME NEW x
  PROVE  FieldsPass(x) <=>
           /\ ~x.short /\ ~(~x.magic) /\ ~(x.version # 1)
           /\ ~(x.bits \notin {8, 16, 32, 64, 128}) /\ ~(x.format \notin {1, 2, 3, 5, 6})
           /\ ~BadPredictor(x) /\ ~UnknownEncoding(x) /\ ~BadDimensions(x)
           /\ ~(TileCount(x) > U32Max) /\ ~WrongSize(x)
<1>1. Checks = {1, 2, 3, 4, 5, 6, 7, 8, 9, 10}
  BY DEF Checks
<1>2. FieldsPass(x) <=> /\ ~Due(x, "blob_too_short") /\ ~Due(x, "bad_magic")
                        /\ ~Due(x, "unsupported_version") /\ ~Due(x, "invalid_bits_per_sample")
                        /\ ~Due(x, "invalid_sample_format") /\ ~Due(x, "invalid_predictor")
                        /\ ~Due(x, "undefined_encoding") /\ ~Due(x, "invalid_dimensions")
                        /\ ~Due(x, "tile_count_overflow") /\ ~Due(x, "blob_size_mismatch")
  BY <1>1, ErrorList DEF FieldsPass
<1>3. QED
  BY <1>2 DEF Due

LEMMA WellFormedPasses ==
  ASSUME NEW x, BlobShape(x), WellFormed(x)
  PROVE  FieldsPass(x)
<1>1. PICK t \in GdalTypes : SampleEncoding[t] = <<x.format, x.bits>>
  BY DEF WellFormed
<1>2. /\ InferGdalType(x.bits, x.format) # "Unknown"
      /\ x.format \in {1, 2, 3, 5, 6} /\ x.bits \in {8, 16, 32, 64, 128}
  BY <1>1, TablesAgree
<1>3. ~BadDimensions(x)
  <2>1. {x.width, x.length} \subseteq 1..IntMax /\ 0 \notin {x.tw, x.tl, x.spp}
    BY DEF WellFormed
  <2>2. x.width \in 1..IntMax /\ x.length \in 1..IntMax /\ x.tw # 0 /\ x.tl # 0 /\ x.spp # 0
    BY <2>1
  <2>3. QED
    BY <2>2, WidthAssumption DEF BadDimensions
<1>4. TrueTiles(x) <= U64Max /\ TrueTiles(x) <= U32Max
  BY <1>3, CountedGrid, WidthAssumption DEF WellFormed
<1>5. TileCount(x) = TrueTiles(x) /\ ~(TileCount(x) > U32Max)
  BY <1>3, <1>4, CountedGrid, WidthAssumption
<1>6. ~WrongSize(x) /\ ~BadPredictor(x)
  BY <1>5 DEF WellFormed, WrongSize, BadPredictor
<1>7. ~x.short /\ x.magic /\ x.version = 1
  BY DEF WellFormed
<1>8. QED
  BY <1>2, <1>3, <1>5, <1>6, <1>7, FieldsPassMeans DEF UnknownEncoding

LEMMA PassedIsWellFormed ==
  ASSUME NEW x, BlobShape(x), FieldsPass(x), TrueTiles(x) <= U64Max,
         \A i \in 0..(x.entries - 1) : x.counts[i] > 0,
         x.base + PrefixSum(Rooms(x), x.entries) <= U64Max
  PROVE  WellFormed(x)
<1>1. /\ ~x.short /\ x.magic /\ x.version = 1
      /\ ~BadPredictor(x) /\ ~UnknownEncoding(x) /\ ~BadDimensions(x)
      /\ ~(TileCount(x) > U32Max) /\ ~WrongSize(x)
  BY FieldsPassMeans
<1>2. \E t \in GdalTypes : SampleEncoding[t] = <<x.format, x.bits>>
  BY <1>1, InferredIsListed DEF UnknownEncoding
<1>3. TileCount(x) = TrueTiles(x) /\ TrueTiles(x) \in Nat
  BY <1>1, CountedGrid
<1>4. TrueTiles(x) <= U32Max
  BY <1>1, <1>3, WidthAssumption
<1>5. {x.width, x.length} \subseteq 1..IntMax /\ 0 \notin {x.tw, x.tl, x.spp}
  BY <1>1, CheckedDimensions
<1>6. ~x.ragged /\ x.entries = TrueTiles(x)
  BY <1>1, <1>3 DEF WrongSize
<1>7. x.predictor = 1 \/ (x.predictor = 2 /\ x.format \notin Complex)
  BY <1>1 DEF BadPredictor
<1>8. QED
  BY <1>1, <1>2, <1>4, <1>5, <1>6, <1>7 DEF WellFormed

-----------------------------------------------------------------------------
(* parse_blob.                                                             *)

(* The checks leave a table of exactly as many entries as there are tiles, *)
(* and a number of tiles that uint32 can hold.                             *)
LEMMA AcceptedFields ==
  ASSUME NEW x, BlobShape(x), FieldsPass(x)
  PROVE  /\ TileCount(x) = x.entries /\ x.entries \in 0..U32Max
         /\ HeaderOf(x).tiles = x.entries /\ HeaderOf(x).counts = x.counts
         /\ x.counts \in [0..(x.entries - 1) -> 0..U32Max]
<1>1. ~Due(x, ParseErrors[9]) /\ ~Due(x, ParseErrors[10])
  BY DEF FieldsPass, Checks
<1>2. ParseErrors[9] = "tile_count_overflow" /\ ParseErrors[10] = "blob_size_mismatch"
  BY DEF ParseErrors
<1>3. ~(TileCount(x) > U32Max)
  BY <1>1, <1>2 DEF Due
<1>4. ~WrongSize(x)
  BY <1>1, <1>2 DEF Due
<1>5. x.entries = TileCount(x) /\ x.entries \in Nat
  BY <1>4 DEF WrongSize, BlobShape
<1>6. x.entries \in 0..U32Max
  BY <1>3, <1>5, WidthAssumption
<1> QED
  BY <1>5, <1>6 DEF HeaderOf, BlobShape

LEMMA InitInv == PSInit => PSInv
  BY WidthAssumption DEF PSInit, PSInv, PSTypeOK, Summing

LEMMA BeginInv ==
  ASSUME PSInv, NEW x, BlobShape(x), ParseBegin(x)
  PROVE  PSInv'
<1>1. BlobShape(blob')
  BY DEF ParseBegin
<1> QED
  BY <1>1, WidthAssumption DEF ParseBegin, PSInv, PSTypeOK, Summing

(* An early return keeps only the verdict.                                 *)
LEMMA RefuseInv ==
  ASSUME PSInv, NEW e, Refuse(e), ppc # "idle",
         e \in {"non_positive_tile_byte_count", "offset_overflow"}
               \cup {Reported(ParseErrors[k]) : k \in Checks},
         e # "ok", e # "none", ~WellFormed(blob)
  PROVE  PSInv'
<1>1. BlobShape(blob) /\ blob' = blob
  BY DEF Refuse, PSInv, PSTypeOK
<1>2. BlobShape(blob)' /\ ~WellFormed(blob)'
  BY <1>1
<1> QED
  BY <1>2 DEF Refuse, PSInv, PSTypeOK, Summing

LEMMA ErrorNames ==
  ASSUME NEW k \in Checks
  PROVE  Reported(ParseErrors[k]) # "ok" /\ Reported(ParseErrors[k]) # "none"
  BY DEF Checks, ParseErrors, Reported

LEMMA RefuseFieldsInv ==
  ASSUME PSInv, RefuseFields
  PROVE  PSInv'
<1>1. PICK k \in Checks : FirstDue(blob, k) /\ Refuse(Reported(ParseErrors[k]))
  BY DEF RefuseFields
<1>2. ~WellFormed(blob)
  <2>1. BlobShape(blob) /\ ~FieldsPass(blob)
    BY <1>1 DEF RefuseFields, PSInv, PSTypeOK, FirstDue, FieldsPass
  <2>2. QED
    BY <2>1, WellFormedPasses
<1> QED
  BY <1>1, <1>2, ErrorNames, RefuseInv DEF RefuseFields

LEMMA AcceptInv ==
  ASSUME PSInv, AcceptFields
  PROVE  PSInv'
<1>1. BlobShape(blob) /\ FieldsPass(blob) /\ blob' = blob /\ header' = HeaderOf(blob)
  BY DEF AcceptFields, PSInv, PSTypeOK
<1>2. /\ header'.tiles = blob.entries /\ header'.counts = blob.counts
      /\ blob.entries \in 0..U32Max /\ TileCount(blob) = blob.entries
      /\ blob.counts \in [0..(blob.entries - 1) -> 0..U32Max]
  BY <1>1, AcceptedFields
<1>3. at' = 0 /\ offset' = blob.base /\ verdict' = "none" /\ ppc' = "sum"
  <2>1. at = 0 /\ verdict = "none"
    BY DEF AcceptFields, PSInv, PSTypeOK
  <2> QED
    BY <2>1 DEF AcceptFields
<1>4. offsets' = [i \in 0..(blob.entries - 1) |-> 0]
  BY <1>2 DEF AcceptFields
<1>5. PSTypeOK'
  <2>1. BlobShape(blob') /\ blob.base \in 0..U64Max
    BY <1>1 DEF BlobShape
  <2>2. offsets' \in [0..(header'.tiles - 1) -> 0..U64Max]
    BY <1>2, <1>4, WidthAssumption
  <2> QED
    BY <1>1, <1>2, <1>3, <2>1, <2>2, WidthAssumption DEF PSTypeOK, Summing
<1>6. PrefixInv' /\ OrderInv'
  BY <1>1, <1>2, <1>3 DEF PrefixInv, OrderInv, StartOf
<1>7. SumInv'
  <2>1. PrefixSum(Rooms(blob), 0) = 0 /\ blob.base \in Int
    BY <1>1, PrefixSumUnfold, WidthAssumption, SMTT(30) DEF BlobShape
  <2>2. offset' = blob.base + PrefixSum(Rooms(blob), 0)
    BY <1>3, <2>1
  <2> QED
    BY <1>1, <1>3, <2>2 DEF SumInv
<1>8. FieldsPass(blob)' /\ header' = HeaderOf(blob)'
  BY <1>1
<1> QED
  BY <1>3, <1>5, <1>6, <1>7, <1>8 DEF PSInv, Summing

(* What is known while the sum is under way.                               *)
LEMMA SumFacts ==
  ASSUME PSInv, ppc = "sum"
  PROVE  /\ header = HeaderOf(blob) /\ FieldsPass(blob) /\ BlobShape(blob)
         /\ header.tiles \in 0..U32Max
         /\ header.counts \in [0..(header.tiles - 1) -> 0..U32Max]
         /\ offsets \in [0..(header.tiles - 1) -> 0..U64Max]
         /\ at \in 0..header.tiles /\ offset \in 0..U64Max
         /\ PrefixInv /\ OrderInv /\ SumInv /\ verdict = "none"
         /\ header.tiles = blob.entries /\ header.counts = blob.counts
         /\ TileCount(blob) = blob.entries
<1>1. header = HeaderOf(blob) /\ FieldsPass(blob) /\ BlobShape(blob) /\ PrefixInv /\ OrderInv
      /\ SumInv /\ verdict = "none" /\ at \in 0..U32Max
  BY DEF PSInv, PSTypeOK, Summing
<1>2. /\ header.tiles \in 0..U32Max /\ header.tiles = blob.entries
      /\ header.counts = blob.counts /\ TileCount(blob) = blob.entries
  BY <1>1, AcceptedFields
<1>3. at \in 0..header.tiles
  BY <1>1, <1>2, WidthAssumption DEF PrefixInv
<1> QED
  BY <1>1, <1>2, <1>3 DEF PSInv, PSTypeOK, Summing

(* The prefix sums of a table.                                             *)
LEMMA SumsOfRooms ==
  ASSUME NEW x, BlobShape(x), NEW k \in 0..x.entries
  PROVE  /\ PrefixSum(Rooms(x), k) \in Nat
         /\ PrefixSum(Rooms(x), k + 1) = PrefixSum(Rooms(x), k) + Rooms(x)[k + 1]
         /\ k < x.entries => Rooms(x)[k + 1] = x.counts[k] + Framing /\ x.counts[k] \in Nat
         /\ PrefixSum(Rooms(x), k) <= PrefixSum(Rooms(x), x.entries)
         /\ PrefixSum(Rooms(x), x.entries) \in Nat
<1>1. x.entries \in Nat /\ x.counts \in [0..(x.entries - 1) -> 0..U32Max]
  BY DEF BlobShape
<1>2. ASSUME NEW j \in 1..x.entries
      PROVE  Rooms(x)[j] = x.counts[j - 1] + Framing /\ x.counts[j - 1] \in Nat /\ Rooms(x)[j] \in Nat
  <2>1. Rooms(x)[j] = x.counts[j - 1] + Framing
    BY DEF Rooms
  <2>2. j - 1 \in 0..(x.entries - 1)
    BY <1>1
  <2>3. x.counts[j - 1] \in 0..U32Max
    BY <1>1, <2>2
  <2>4. QED
    BY <2>1, <2>3, WidthAssumption
<1>3. k \in Nat /\ k < x.entries => k + 1 \in 1..x.entries /\ k + 1 - 1 = k
  BY <1>1
<1>4. /\ PrefixSum(Rooms(x), k) \in Nat /\ PrefixSum(Rooms(x), x.entries) \in Nat
      /\ PrefixSum(Rooms(x), k) <= PrefixSum(Rooms(x), x.entries)
  <2>1. \A j \in 1..x.entries : Rooms(x)[j] \in Nat
    BY <1>2
  <2> DEFINE f == Rooms(x)
             n == x.entries
  <2>2. n \in Nat /\ k \in 0..n /\ n \in 0..n /\ \A j \in 1..n : f[j] \in Nat
    BY <1>1, <2>1
  <2> HIDE DEF f, n
  <2>3. PrefixSum(f, k) \in Nat /\ PrefixSum(f, n) \in Nat /\ PrefixSum(f, k) <= PrefixSum(f, n)
    BY <2>2, PrefixSumGrows
  <2>4. QED
    BY <2>3 DEF f, n
<1>5. PrefixSum(Rooms(x), k + 1) = PrefixSum(Rooms(x), k) + Rooms(x)[k + 1]
  BY <1>3, PrefixSumUnfold
<1>6. QED
  BY <1>1, <1>2, <1>3, <1>4, <1>5

LEMMA SumTileInv ==
  ASSUME PSInv, SumTile
  PROVE  PSInv'
<1> DEFINE n == header.counts[at]
<1> HIDE DEF n
<1>1. /\ ppc = "sum" /\ at < header.tiles /\ n # 0 /\ offset <= U64Max - (n + Framing)
      /\ offsets' = [offsets EXCEPT ![at] = offset]
      /\ offset' = offset + (n + Framing) /\ at' = at + 1
      /\ UNCHANGED <<ppc, blob, header, verdict>>
  BY DEF SumTile, Step, n
<1>2. /\ header.tiles \in 0..U32Max
      /\ header.counts \in [0..(header.tiles - 1) -> 0..U32Max]
      /\ offsets \in [0..(header.tiles - 1) -> 0..U64Max]
      /\ at \in 0..header.tiles /\ offset \in 0..U64Max
      /\ PrefixInv /\ OrderInv
  BY <1>1, SumFacts
<1>3. n \in 1..U32Max /\ Framing \in Nat \ {0} /\ U64Max \in Nat /\ U32Max \in Nat
  <2>1. at \in 0..(header.tiles - 1)
    BY <1>1, <1>2
  <2>2. n \in 0..U32Max
    BY <1>2, <2>1 DEF n
  <2> QED
    BY <1>1, <2>2, WidthAssumption
<1>4. offset' \in 0..U64Max /\ at' \in 0..header.tiles
  BY <1>1, <1>2, <1>3
<1>5. /\ offsets' \in [0..(header.tiles - 1) -> 0..U64Max]
      /\ offsets'[at] = offset
      /\ \A j \in 0..(at - 1) : offsets'[j] = offsets[j]
  BY <1>1, <1>2
<1>6. PSTypeOK'
  <2>1. BlobShape(blob') /\ at' \in 0..U32Max
    BY <1>1, <1>2, <1>3, <1>4, SumFacts
  <2> QED
    BY <1>1, <1>2, <1>4, <1>5, <2>1 DEF PSInv, PSTypeOK, Summing
<1>7. PrefixInv'
  <2>1. offset' = StartOf(at)'
    <3>1. StartOf(at)' = offsets'[at] + n + Framing
      BY <1>1, <1>2 DEF StartOf, n
    <3> QED
      BY <1>1, <1>2, <1>3, <1>5, <3>1
  <2>2. ASSUME NEW j \in 0..(at - 1)
        PROVE  header.counts[j] > 0 /\ offsets'[j] = StartOf(j)'
    <3>1. header.counts[j] > 0 /\ offsets[j] = StartOf(j)
      BY <1>2 DEF PrefixInv
    <3>2. StartOf(j)' = StartOf(j)
      BY <1>1, <1>2, <1>5 DEF StartOf
    <3> QED
      BY <1>5, <3>1, <3>2
  <2>3. ASSUME NEW j, j = at
        PROVE  header.counts[j] > 0 /\ offsets'[j] = StartOf(j)'
    <3>1. StartOf(j)' = StartOf(j)
      BY <1>1, <1>2, <1>5, <2>3 DEF StartOf
    <3>2. offset = StartOf(j)
      BY <1>2, <2>3 DEF PrefixInv
    <3> QED
      BY <1>3, <1>5, <2>3, <3>1, <3>2 DEF n
  <2>4. \A j \in 0..(at' - 1) : j \in 0..(at - 1) \/ j = at
    BY <1>1, <1>2
  <2>5. \A j \in 0..(at' - 1) : header.counts[j] > 0 /\ offsets'[j] = StartOf(j)'
    BY <2>2, <2>3, <2>4
  <2>6. at' <= header.tiles
    BY <1>4, <1>2
  <2> QED
    BY <1>1, <2>1, <2>5, <2>6 DEF PrefixInv
<1>8. OrderInv'
  <2>1. ASSUME NEW j \in 0..(at - 1)
        PROVE  /\ offsets'[j] + header.counts[j] + Framing <= offset
               /\ \A i \in 0..(j - 1) : offsets'[i] + header.counts[i] + Framing <= offsets'[j]
    BY <1>2, <1>5 DEF OrderInv
  <2>2. ASSUME NEW j \in 0..(at - 1)
        PROVE  offsets'[j] + header.counts[j] + Framing <= offset'
    <3>1. offsets'[j] \in 0..U64Max /\ header.counts[j] \in 0..U32Max
      BY <1>2, <1>5
    <3>2. offset < offset' /\ offset \in Int /\ offset' \in Int
      BY <1>1, <1>2, <1>3
    <3> QED
      BY <1>3, <2>1, <3>1, <3>2
  <2>3. offsets'[at] + header.counts[at] + Framing <= offset'
    BY <1>1, <1>2, <1>3, <1>5, SMTT(30) DEF n
  <2>4. \A j \in 0..(at' - 1) : j \in 0..(at - 1) \/ j = at
    BY <1>1, <1>2
  <2>5. \A i \in 0..(at - 1) : offsets'[i] + header.counts[i] + Framing <= offsets'[at]
    BY <1>5, <2>1
  <2>6. ASSUME NEW j \in 0..(at' - 1)
        PROVE  /\ offsets'[j] + header.counts[j] + Framing <= offset'
               /\ \A i \in 0..(j - 1) : offsets'[i] + header.counts[i] + Framing <= offsets'[j]
    BY <2>1, <2>2, <2>3, <2>4, <2>5
  <2> QED
    BY <1>1, <2>6 DEF OrderInv
<1>9. SumInv'
  <2> DEFINE P(k) == PrefixSum(Rooms(blob), k)
  <2>1. offset = blob.base + P(at) /\ blob.base \in Nat
    BY <1>1, SumFacts, WidthAssumption DEF SumInv, BlobShape
  <2>2. P(at + 1) = P(at) + Rooms(blob)[at + 1] /\ P(at) \in Nat
    BY <1>1, <1>2, SumFacts, SumsOfRooms
  <2>3. Rooms(blob)[at + 1] = n + Framing
    <3>1. /\ BlobShape(blob) /\ at \in 0..blob.entries /\ at < blob.entries
          /\ header.counts = blob.counts
      BY <1>1, <1>2, SumFacts
    <3>2. Rooms(blob)[at + 1] = blob.counts[at] + Framing
      BY <3>1, SumsOfRooms
    <3> QED
      BY <3>1, <3>2 DEF n
  <2> HIDE DEF P
  <2>4. offset' = blob.base + P(at + 1)
    BY <1>1, <1>3, <2>1, <2>2, <2>3
  <2> QED
    BY <1>1, <2>4 DEF SumInv, P
<1> QED
  BY <1>1, <1>6, <1>7, <1>8, <1>9, SumFacts DEF PSInv, Summing

LEMMA EndInv ==
  ASSUME PSInv, ParseEnd
  PROVE  PSInv'
<1>1. /\ ppc = "sum" /\ at = header.tiles /\ ppc' = "done" /\ verdict' = "ok"
      /\ UNCHANGED <<blob, header, offsets, at, offset>>
  BY DEF ParseEnd
<1>2. /\ header = HeaderOf(blob) /\ FieldsPass(blob) /\ PrefixInv /\ OrderInv
      /\ header.counts \in [0..(header.tiles - 1) -> 0..U32Max]
      /\ offsets \in [0..(header.tiles - 1) -> 0..U64Max]
  BY <1>1, SumFacts
<1>3. BlobShape(blob)' /\ HeaderOf(blob)' = HeaderOf(blob) /\ FieldsPass(blob)'
  BY <1>1, <1>2, SumFacts
<1>4. PrefixInv' /\ OrderInv' /\ SumInv'
  BY <1>1, <1>2, SumFacts DEF PrefixInv, OrderInv, SumInv, StartOf
<1>5. PSTypeOK'
  BY <1>1, <1>2, <1>3 DEF PSInv, PSTypeOK
<1> QED
  BY <1>1, <1>2, <1>3, <1>4, <1>5 DEF PSInv

LEMMA ReturnInv == PSInv /\ ParseReturn => PSInv'
  BY WidthAssumption DEF ParseReturn, PSInv, PSTypeOK, Summing

(* Every step of the parser, whoever passed the blob.                      *)
LEMMA ParseStepInv == PSInv /\ ParseStep => PSInv'
<1> SUFFICES ASSUME PSInv, ParseStep PROVE PSInv'
  OBVIOUS
<1>1. CASE RefuseEmptyTile
  <2>1. ~WellFormed(blob)
    <3>1. ppc = "sum" /\ at < header.tiles /\ header.counts[at] = 0
      BY <1>1 DEF RefuseEmptyTile
    <3>2. at \in 0..(blob.entries - 1) /\ blob.counts[at] = 0
      BY <3>1, SumFacts
    <3>3. QED
      BY <3>2 DEF WellFormed
  <2>2. QED
    BY <1>1, <2>1, RefuseInv DEF RefuseEmptyTile
<1>2. CASE RefuseOffset
  <2>1. ~WellFormed(blob)
    <3> DEFINE P(k) == PrefixSum(Rooms(blob), k)
    <3>1. ppc = "sum" /\ at < header.tiles /\ offset > U64Max - (header.counts[at] + Framing)
      BY <1>2 DEF RefuseOffset, Step
    <3>2. /\ BlobShape(blob) /\ offset = blob.base + P(at) /\ at \in 0..(blob.entries - 1)
          /\ header.counts = blob.counts /\ blob.entries \in Nat /\ blob.base \in Nat
      <4>1. /\ BlobShape(blob) /\ SumInv /\ at \in 0..header.tiles /\ header.tiles = blob.entries
            /\ header.counts = blob.counts /\ header.tiles \in 0..U32Max
        BY <3>1, SumFacts
      <4>2. blob.base \in 0..U64Max
        BY <4>1 DEF BlobShape
      <4>3. QED
        BY <3>1, <4>1, <4>2, WidthAssumption DEF SumInv
    <3>3. /\ P(at + 1) = P(at) + Rooms(blob)[at + 1] /\ P(at) \in Nat
          /\ P(at + 1) <= P(blob.entries) /\ P(blob.entries) \in Nat /\ P(at + 1) \in Nat
      BY <3>2, SumsOfRooms
    <3>4. Rooms(blob)[at + 1] = blob.counts[at] + Framing /\ blob.counts[at] \in Nat
      <4>1. at \in 0..blob.entries /\ at < blob.entries
        BY <3>2
      <4>2. QED
        BY <3>2, <4>1, SumsOfRooms
    <3> HIDE DEF P
    <3>5. ~(blob.base + P(blob.entries) <= U64Max)
      BY <3>1, <3>2, <3>3, <3>4, WidthAssumption
    <3>6. QED
      BY <3>5 DEF WellFormed, P
  <2>2. QED
    BY <1>2, <2>1, RefuseInv DEF RefuseOffset
<1> QED
  BY <1>1, <1>2, RefuseFieldsInv, AcceptInv, SumTileInv, EndInv DEF ParseStep

LEMMA StutterInv == PSInv /\ UNCHANGED psVars => PSInv'
<1> SUFFICES ASSUME PSInv, UNCHANGED psVars PROVE PSInv'
  OBVIOUS
<1> USE DEF psVars
<1>1. BlobShape(blob)' = BlobShape(blob) /\ HeaderOf(blob)' = HeaderOf(blob)
      /\ FieldsPass(blob)' = FieldsPass(blob)
  BY DEF psVars
<1>2. PSTypeOK'
  BY <1>1 DEF PSInv, PSTypeOK, Summing
<1>3. Summing => PrefixInv' /\ OrderInv' /\ SumInv'
  BY DEF PSInv, PrefixInv, OrderInv, SumInv, StartOf
<1>4. WellFormed(blob)' <=> WellFormed(blob)
  BY DEF psVars
<1> QED
  BY <1>1, <1>2, <1>3, <1>4 DEF PSInv, Summing

(* The inductive invariant of parse_blob.                                  *)
THEOREM PSInvariant == PSSpec => []PSInv
<1>1. PSInv /\ [PSNext]_psVars => PSInv'
  <2> SUFFICES ASSUME PSInv, [PSNext]_psVars PROVE PSInv'
    OBVIOUS
  <2>1. ASSUME NEW x \in Blobs, ParseBegin(x) PROVE PSInv'
    BY <2>1, BlobAssumption, BeginInv
  <2> QED
    BY <2>1, ParseStepInv, ReturnInv, StutterInv DEF PSNext
<1> QED
  BY <1>1, InitInv, PTL DEF PSSpec

(* The state type of parse_blob.                                           *)
THEOREM PSTypeCorrect == PSSpec => []PSTypeOK
  BY PSInvariant, PTL DEF PSInv

(* The extents of an accepted header never overlap and never leave uint64. *)
THEOREM PSExtentsDisjoint == PSSpec => []ExtentsDisjoint
<1>1. PSInv => ExtentsDisjoint
  <2> SUFFICES ASSUME PSInv, verdict = "ok", NEW j \in 0..(header.tiles - 1)
               PROVE  /\ header.counts[j] > 0
                      /\ offsets[j] + header.counts[j] + Framing <= U64Max
                      /\ \A i \in 0..(j - 1) :
                           offsets[i] + header.counts[i] + Framing <= offsets[j]
    BY DEF ExtentsDisjoint
  <2>1. /\ at = header.tiles /\ PrefixInv /\ OrderInv /\ offset \in 0..U64Max
        /\ offsets \in [0..(header.tiles - 1) -> 0..U64Max]
        /\ header.counts \in [0..(header.tiles - 1) -> 0..U32Max]
    BY DEF PSInv, PSTypeOK, Summing
  <2>2. offsets[j] + header.counts[j] + Framing <= offset
    BY <2>1 DEF OrderInv
  <2>3. offsets[j] \in 0..U64Max /\ header.counts[j] \in 0..U32Max
    BY <2>1
  <2>4. offsets[j] + header.counts[j] + Framing <= U64Max
    BY <2>1, <2>2, <2>3, WidthAssumption
  <2> QED
    BY <2>1, <2>4 DEF PrefixInv, OrderInv
<1> QED
  BY <1>1, PSInvariant, PTL

(* parse_blob accepts what is well formed and nothing else.                *)
LEMMA VerdictFollows == PSInv => VerdictIsExact
<1> SUFFICES ASSUME PSInv, ppc = "done", ~(0 \notin {blob.tw, blob.tl} /\ TrueTiles(blob) > U64Max)
             PROVE  verdict = "ok" <=> WellFormed(blob)
  BY DEF VerdictIsExact
<1>1. verdict # "ok" => ~WellFormed(blob)
  BY DEF PSInv
<1>2. ASSUME verdict = "ok" PROVE WellFormed(blob)
  <2>1. /\ BlobShape(blob) /\ FieldsPass(blob) /\ header = HeaderOf(blob)
        /\ PrefixInv /\ SumInv /\ at = header.tiles /\ offset \in 0..U64Max
    BY <1>2 DEF PSInv, PSTypeOK, Summing
  <2>2. at = blob.entries /\ header.counts = blob.counts /\ blob.entries \in Nat
    BY <2>1, AcceptedFields
  <2>3. \A i \in 0..(blob.entries - 1) : blob.counts[i] > 0
    BY <2>1, <2>2 DEF PrefixInv
  <2>4. blob.base + PrefixSum(Rooms(blob), blob.entries) <= U64Max
    BY <2>1, <2>2, WidthAssumption DEF SumInv
  <2>5. TrueTiles(blob) <= U64Max
    <3>1. ~BadDimensions(blob)
      BY <2>1, FieldsPassMeans
    <3>2. TrueTiles(blob) \in Nat /\ 0 \notin {blob.tw, blob.tl}
      BY <2>1, <3>1, CountedGrid DEF BadDimensions
    <3>3. QED
      BY <3>2, WidthAssumption
  <2>6. QED
    BY <2>1, <2>3, <2>4, <2>5, PassedIsWellFormed
<1>3. QED
  BY <1>1, <1>2

(* parse_blob accepts exactly the blobs the format allows, for any integer *)
(* widths, wherever their tiles can be counted in uint64.                  *)
THEOREM PSVerdictIsExact == PSSpec => []VerdictIsExact
  BY VerdictFollows, PSInvariant, PTL

-----------------------------------------------------------------------------
(* An accepted header counts exactly the tiles of its grid.                *)
LEMMA AcceptedGrid ==
  ASSUME NEW x, BlobShape(x), FieldsPass(x), TrueTiles(x) <= U64Max
  PROVE  LET h == HeaderOf(x)
         IN  /\ h.across \in Nat /\ h.down \in Nat /\ h.spp \in Nat
             /\ h.tiles = h.down * h.across * h.spp
             /\ h.tiles <= U32Max
<1>1. ~BadDimensions(x)
  BY FieldsPassMeans
<1>2. /\ HeaderOf(x).across = Ceil(x.width, x.tw) /\ Ceil(x.width, x.tw) \in Nat
      /\ HeaderOf(x).down = Ceil(x.length, x.tl) /\ Ceil(x.length, x.tl) \in Nat
      /\ HeaderOf(x).spp = x.spp /\ x.spp \in Nat
      /\ HeaderOf(x).tiles = TrueTiles(x)
  BY <1>1, CountedGrid DEF HeaderOf
<1>3. Ceil(x.width, x.tw) * Ceil(x.length, x.tl) = Ceil(x.length, x.tl) * Ceil(x.width, x.tw)
  BY <1>2
<1>4. TrueTiles(x) = HeaderOf(x).down * HeaderOf(x).across * HeaderOf(x).spp
  BY <1>2, <1>3 DEF TrueTiles
<1>5. HeaderOf(x).tiles <= U32Max
  BY AcceptedFields, WidthAssumption
<1>6. QED
  BY <1>2, <1>4, <1>5

(* Every tile of the grid of an accepted header has an entry of its own in *)
(* the tables.                                                             *)
THEOREM PSGridIndexable == PSSpec => []GridIndexable
<1>1. PSInv => GridIndexable
  <2> DEFINE D == header.down
             A == header.across
             B == header.spp
             Grid == (0..(D - 1)) \X (0..(A - 1)) \X (0..(B - 1))
             Index(p) == TileIndex(A, B, p[1], p[2], p[3])
  <2> SUFFICES ASSUME PSInv, verdict = "ok", TrueTiles(blob) <= U64Max
               PROVE  /\ \A p \in Grid : Index(p) \in 0..(header.tiles - 1)
                      /\ \A p, q \in Grid : Index(p) = Index(q) => p = q
    BY DEF GridIndexable
  <2>1. header = HeaderOf(blob) /\ FieldsPass(blob) /\ BlobShape(blob)
    BY DEF PSInv, PSTypeOK, Summing
  <2>2. /\ D \in Nat /\ A \in Nat /\ B \in Nat
        /\ header.tiles = D * A * B /\ header.tiles <= U32Max
    BY <2>1, AcceptedGrid
  <2> HIDE DEF D, A, B
  <2>3. ASSUME NEW p \in Grid
        PROVE  /\ p[1] * A + p[2] \in 0..(D * A - 1)
               /\ (p[1] * A + p[2]) * B + p[3] \in 0..(D * A * B - 1)
    <3>1. p[1] \in 0..(D - 1) /\ p[2] \in 0..(A - 1) /\ p[3] \in 0..(B - 1)
      OBVIOUS
    <3>2. p[1] * A + p[2] \in 0..(D * A - 1) /\ D * A \in Nat
      BY <2>2, <3>1, DigitFits
    <3>3. QED
      BY <2>2, <3>1, <3>2, DigitFits
  <2>4. ASSUME NEW p \in Grid PROVE Index(p) = (p[1] * A + p[2]) * B + p[3]
    <3>1. (p[1] * A + p[2]) * B + p[3] \in 0..U32Max
      BY <2>2, <2>3, WidthAssumption
    <3>2. QED
      BY <3>1, NoWrap, WidthAssumption DEF TileIndex, U32
  <2>5. ASSUME NEW p \in Grid, NEW q \in Grid, Index(p) = Index(q)
        PROVE  p = q
    <3>1. GridIndex(A, B, p[1], p[2], p[3]) = GridIndex(A, B, q[1], q[2], q[3])
      BY <2>4, <2>5 DEF GridIndex
    <3>2. D \in Nat /\ A \in Nat /\ B \in Nat
      BY <2>2
    <3>3. QED
      BY <3>1, <3>2, PlaceUnique
  <2>6. \A p \in Grid : Index(p) \in 0..(header.tiles - 1)
    BY <2>2, <2>3, <2>4
  <2>7. QED
    BY <2>5, <2>6
<1>2. QED
  BY <1>1, PSInvariant, PTL

-----------------------------------------------------------------------------
(* build_blob_from_file: the grid of a file that conforms.                 *)

LEMMA ConformingFile ==
  ASSUME NEW f, FileShape(f), Conforms(f)
  PROVE  /\ Across(f) \in Nat \ {0} /\ Down(f) \in Nat \ {0} /\ f.bands \in Nat \ {0}
         /\ Across(f) = Ceil(f.width, f.tw) /\ Down(f) = Ceil(f.length, f.tl)
         /\ f.width \in 1..IntMax /\ f.length \in 1..IntMax
         /\ f.tw \in 1..U16Max /\ f.tl \in 1..U16Max /\ f.bands \in 1..U16Max
         /\ Tiles(f) \in 0..U32Max
<1>1. /\ f.width \in 1..IntMax /\ f.length \in 1..IntMax
      /\ f.tw \in 1..U16Max /\ f.tl \in 1..U16Max /\ f.bands \in 1..U16Max
      /\ Tiles(f) <= U32Max
  BY DEF FileShape, Conforms
<1>2. /\ Across(f) = Ceil(f.width, f.tw) /\ Across(f) \in Nat \ {0}
      /\ Down(f) = Ceil(f.length, f.tl) /\ Down(f) \in Nat \ {0}
  BY <1>1, TilesOverIsCeil DEF Across, Down
<1>3. f.bands \in Nat \ {0}
  BY <1>1, WidthAssumption
<1>4. Tiles(f) \in Nat
  <2>1. Across(f) * Down(f) \in Nat
    BY <1>2
  <2>2. Across(f) * Down(f) * f.bands \in Nat
    BY <1>3, <2>1
  <2>3. QED
    BY <2>2, WrapIsSmaller, WidthAssumption DEF Tiles, TileProduct, U64
<1>5. Tiles(f) \in 0..U32Max
  BY <1>1, <1>4, WidthAssumption
<1>6. QED
  BY <1>1, <1>2, <1>3, <1>5

(* The index of a place is below the number of tiles, and no two places    *)
(* have the same.                                                          *)
LEMMA NumberIsIndex ==
  ASSUME NEW f, FileShape(f), Conforms(f), NEW p \in Places(f)
  PROVE  /\ p[1] \in 0..(Down(f) - 1) /\ p[2] \in 0..(Across(f) - 1) /\ p[3] \in 0..(f.bands - 1)
         /\ p = <<p[1], p[2], p[3]>>
         /\ Number(f, p) \in 0..(Down(f) * Across(f) * f.bands - 1)
         /\ \A q \in Places(f) : Number(f, p) = Number(f, q) => p = q
<1> DEFINE D == Down(f)
           A == Across(f)
           B == f.bands
<1>1. D \in Nat /\ A \in Nat /\ B \in Nat
  BY ConformingFile
<1>2. /\ p[1] \in 0..(D - 1) /\ p[2] \in 0..(A - 1) /\ p[3] \in 0..(B - 1)
      /\ p = <<p[1], p[2], p[3]>> /\ p \in (0..(D - 1)) \X (0..(A - 1)) \X (0..(B - 1))
  BY DEF Places
<1>3. Number(f, p) = GridIndex(A, B, p[1], p[2], p[3])
  BY DEF Number, GridIndex
<1>4. GridIndex(A, B, p[1], p[2], p[3]) \in 0..(D * A * B - 1)
  <2> HIDE DEF D, A, B
  <2>1. p[1] * A + p[2] \in 0..(D * A - 1) /\ D * A \in Nat
    BY <1>1, <1>2, DigitFits
  <2>2. (p[1] * A + p[2]) * B + p[3] \in 0..((D * A) * B - 1)
    BY <1>1, <1>2, <2>1, DigitFits
  <2>3. QED
    BY <2>2 DEF GridIndex
<1>5. ASSUME NEW q \in Places(f), Number(f, p) = Number(f, q) PROVE p = q
  <2>1. GridIndex(A, B, p[1], p[2], p[3]) = GridIndex(A, B, q[1], q[2], q[3])
    BY <1>3, <1>5 DEF Number, GridIndex
  <2>2. q \in (0..(D - 1)) \X (0..(A - 1)) \X (0..(B - 1))
    BY DEF Places
  <2> HIDE DEF D, A, B
  <2>3. QED
    BY <1>1, <1>2, <2>1, <2>2, PlaceUnique
<1>6. QED
  BY <1>2, <1>3, <1>4, <1>5

(* Every index below the number of tiles is that of a place.               *)
LEMMA IndexHasPlace ==
  ASSUME NEW f, FileShape(f), Conforms(f), NEW i \in 0..(Down(f) * Across(f) * f.bands - 1)
  PROVE  \E p \in Places(f) : Number(f, p) = i
<1> DEFINE D == Down(f)
           A == Across(f)
           B == f.bands
<1>1. D \in Nat \ {0} /\ A \in Nat \ {0} /\ B \in Nat \ {0}
  BY ConformingFile
<1>2. PICK r \in 0..(D - 1), c \in 0..(A - 1), s \in 0..(B - 1) : GridIndex(A, B, r, c, s) = i
  <2> HIDE DEF D, A, B
  <2>1. i \in 0..(D * A * B - 1)
    BY DEF D, A, B
  <2>2. HasPlace(D, A, B, i)
    BY <1>1, <2>1, PlaceExists
  <2>3. QED
    BY <2>2 DEF HasPlace
<1>3. <<r, c, s>> \in Places(f) /\ Number(f, <<r, c, s>>) = i
  BY <1>2 DEF Places, Number, GridIndex
<1>4. QED
  BY <1>3

-----------------------------------------------------------------------------
(* build_blob_from_file: the walk.                                         *)

LEMMA BuildInitInv == BDInit => BDInv
  BY WidthAssumption DEF BDInit, BDInv, BDTypeOK, OverrunIsWrap

LEMMA BuildBeginInv ==
  ASSUME BDInv, BuildBegin
  PROVE  BDInv'
<1>1. FileShape(file)' /\ bpc' = "profile" /\ built' = NoBuilt /\ expected' \in 0..U64Max
  <2>1. built = NoBuilt
    BY DEF BuildBegin, BDInv, BuiltInv
  <2>2. QED
    BY <2>1, FileAssumption DEF BuildBegin, BDInv, BDTypeOK
<1>2. QED
  BY <1>1 DEF BDInv, BDTypeOK, OverrunIsWrap

(* The call ends with nothing built.                                       *)
LEMMA BuildRefuseInv ==
  ASSUME BDInv, RefuseFile \/ OutOfMemory \/ RefuseTile
  PROVE  BDInv'
<1>1. built = NoBuilt /\ bpc # "idle"
  BY DEF BDInv, BuiltInv, RefuseFile, OutOfMemory, RefuseTile
<1>2. /\ bpc' = "done" /\ built' = NoBuilt /\ file' = file /\ expected' = expected
      /\ FileShape(file) /\ expected \in 0..U64Max
  BY <1>1 DEF RefuseFile, OutOfMemory, RefuseTile, BDInv, BDTypeOK
<1>3. FileShape(file)'
  BY <1>2
<1>4. QED
  BY <1>2, <1>3 DEF BDInv, BDTypeOK, OverrunIsWrap

(* A tile the file has lies within its offsets.                            *)
LEMMA TileInFile ==
  ASSUME NEW f, FileShape(f), NEW p \in DOMAIN f.tile
  PROVE  /\ f.tile[p].offset \in Nat /\ f.tile[p].size \in Nat
         /\ End(f.tile[p]) \in 0..U64Max
<1>1. /\ f.tile[p].offset \in Nat /\ f.tile[p].size \in Nat
      /\ f.tile[p].offset + f.tile[p].size + Framing <= U64Max
  BY DEF FileShape
<1>2. QED
  BY <1>1, WidthAssumption DEF End

LEMMA WalkBeginInv ==
  ASSUME BDInv, WalkBegin
  PROVE  BDInv'
<1>1. /\ FileShape(file) /\ Conforms(file) /\ file' = file /\ built = NoBuilt /\ built' = NoBuilt
      /\ bpc' = "walk" /\ row' = 0 /\ col' = 0 /\ sample' = 0
      /\ expected' = file.tile[Origin].offset
      /\ found' = [i \in 0..(Tiles(file) - 1) |-> 0]
  BY DEF WalkBegin, BDInv, BDTypeOK, BuiltInv
<1>2. FileShape(file)' /\ Conforms(file)'
  BY <1>1
<1>3. /\ Across(file) \in Nat \ {0} /\ Down(file) \in Nat \ {0} /\ file.bands \in Nat \ {0}
      /\ Tiles(file) \in 0..U32Max
  BY <1>1, ConformingFile
<1>4. expected' \in 0..U64Max
  <2>1. Origin \in DOMAIN file.tile
    BY <1>1 DEF Conforms
  <2>2. End(file.tile[Origin]) \in 0..U64Max /\ file.tile[Origin].offset \in Nat
        /\ file.tile[Origin].size \in Nat
    BY <1>1, <2>1, TileInFile
  <2>3. QED
    BY <1>1, <2>2, WidthAssumption DEF End
<1>5. Cursor' = 0
  BY <1>1, <1>3 DEF Cursor, Number
<1>6. RunInv'
  <2>1. \A p \in Places(file) : ~(Number(file, p) < 0)
    BY <1>1, <1>3, NumberIsIndex
  <2>2. Places(file)' = Places(file) /\ Down(file)' = Down(file) /\ Tiles(file)' = Tiles(file)
        /\ \A p : Number(file, p)' = Number(file, p)
    BY <1>1
  <2>3. QED
    BY <1>1, <1>3, <1>4, <1>5, <2>1, <2>2 DEF RunInv
<1>7. BDTypeOK'
  <2>1. found' \in [0..(Tiles(file) - 1) -> 0..U32Max]
    BY <1>1, WidthAssumption
  <2>2. Down(file)' = Down(file) /\ Across(file)' = Across(file) /\ Tiles(file)' = Tiles(file)
        /\ file'.bands = file.bands
    BY <1>1
  <2>3. QED
    BY <1>1, <1>2, <1>3, <1>4, <2>1, <2>2 DEF BDTypeOK
<1>8. QED
  BY <1>1, <1>6, <1>7 DEF BDInv, OverrunIsWrap

(* What is known while the tiles are walked.                               *)
LEMMA WalkFacts ==
  ASSUME BDInv, bpc = "walk"
  PROVE  /\ FileShape(file) /\ Conforms(file) /\ built = NoBuilt /\ RunInv
         /\ Across(file) \in Nat \ {0} /\ Down(file) \in Nat \ {0} /\ file.bands \in Nat \ {0}
         /\ Tiles(file) \in 0..U32Max
         /\ expected \in 0..U64Max /\ found \in [0..(Tiles(file) - 1) -> 0..U32Max]
         /\ row \in 0..Down(file) /\ col \in 0..(Across(file) - 1) /\ sample \in 0..(file.bands - 1)
         /\ Cursor \in Nat
<1>1. /\ FileShape(file) /\ Conforms(file) /\ built = NoBuilt /\ RunInv
      /\ expected \in 0..U64Max /\ found \in [0..(Tiles(file) - 1) -> 0..U32Max]
      /\ row \in 0..Down(file) /\ sample \in 0..(file.bands - 1)
      /\ row < Down(file) => col \in 0..(Across(file) - 1)
      /\ row = Down(file) => col = 0
  BY DEF BDInv, BDTypeOK, BuiltInv, RunInv
<1>2. /\ Across(file) \in Nat \ {0} /\ Down(file) \in Nat \ {0} /\ file.bands \in Nat \ {0}
      /\ Tiles(file) \in 0..U32Max
  BY <1>1, ConformingFile
<1>3. col \in 0..(Across(file) - 1)
  BY <1>1, <1>2
<1>4. Cursor \in Nat
  <2>1. row \in Nat /\ col \in Nat /\ sample \in Nat
    BY <1>1, <1>2, <1>3
  <2>2. row * Across(file) + col \in Nat
    BY <1>2, <2>1
  <2>3. QED
    BY <1>2, <2>1, <2>2 DEF Cursor, Number
<1>5. QED
  BY <1>1, <1>2, <1>3, <1>4

(* The cursor moves to the next place in tile-index order.                 *)
LEMMA AdvanceCounts ==
  ASSUME NEW A \in Nat \ {0}, NEW B \in Nat \ {0}, NEW D \in Nat,
         row \in 0..(D - 1), col \in 0..(A - 1), sample \in 0..(B - 1),
         Across(file) = A, file.bands = B, file' = file, Advance
  PROVE  /\ Cursor' = Cursor + 1
         /\ row' \in 0..D /\ col' \in 0..(A - 1) /\ sample' \in 0..(B - 1)
         /\ row' = D => col' = 0 /\ sample' = 0
<1> DEFINE m == row * A + col
<1>1. m \in Int /\ row * A \in Int /\ m * B \in Int
  OBVIOUS
<1>2. Cursor = m * B + sample /\ Cursor' = (row' * A + col') * B + sample'
  BY DEF Cursor, Number
<1>3. CASE sample + 1 < B /\ sample' = sample + 1 /\ UNCHANGED <<row, col>>
  BY <1>1, <1>2, <1>3
<1>4. CASE sample + 1 = B /\ col + 1 < A /\ sample' = 0 /\ col' = col + 1 /\ UNCHANGED row
  <2>1. row' * A + col' = m + 1
    BY <1>1, <1>4
  <2>2. Cursor' = (m + 1) * B
    BY <1>1, <1>2, <1>4, <2>1
  <2> HIDE DEF m
  <2>3. (m + 1) * B = m * B + B
    BY <1>1
  <2>4. QED
    BY <1>1, <1>2, <1>4, <2>2, <2>3
<1>5. CASE sample + 1 = B /\ col + 1 = A /\ sample' = 0 /\ col' = 0 /\ row' = row + 1
  <2>1. row' * A + col' = m + 1
    <3>1. (row + 1) * A = row * A + A
      OBVIOUS
    <3>2. QED
      BY <1>1, <1>5, <3>1
  <2>2. Cursor' = (m + 1) * B
    BY <1>1, <1>2, <1>5, <2>1
  <2> HIDE DEF m
  <2>3. (m + 1) * B = m * B + B
    BY <1>1
  <2>4. QED
    BY <1>1, <1>2, <1>5, <2>2, <2>3
<1>6. QED
  BY <1>3, <1>4, <1>5 DEF Advance

LEMMA TakeTileInv ==
  ASSUME BDInv, TakeTile
  PROVE  BDInv'
<1> DEFINE here == <<row, col, sample>>
<1>1. /\ bpc = "walk" /\ row < Down(file) /\ bpc' = "walk" /\ file' = file /\ built' = built
      /\ Place < Tiles(file) /\ here \in DOMAIN file.tile /\ file.tile[here].size \in 1..U32Max
      /\ file.tile[here].offset = expected
      /\ found' = [found EXCEPT ![Place] = file.tile[here].size]
      /\ expected' = U64(End(file.tile[here])) /\ Advance
  BY DEF TakeTile, TileFits, HasTile, Here, End
<1>2. /\ FileShape(file) /\ Conforms(file) /\ built = NoBuilt /\ RunInv
      /\ Across(file) \in Nat \ {0} /\ Down(file) \in Nat \ {0} /\ file.bands \in Nat \ {0}
      /\ Tiles(file) \in 0..U32Max
      /\ expected \in 0..U64Max /\ found \in [0..(Tiles(file) - 1) -> 0..U32Max]
      /\ row \in 0..Down(file) /\ col \in 0..(Across(file) - 1) /\ sample \in 0..(file.bands - 1)
      /\ Cursor \in Nat
  BY <1>1, WalkFacts
<1>3. row \in 0..(Down(file) - 1)
  BY <1>1, <1>2
<1>4. /\ Cursor' = Cursor + 1
      /\ row' \in 0..Down(file) /\ col' \in 0..(Across(file) - 1) /\ sample' \in 0..(file.bands - 1)
      /\ row' = Down(file) => col' = 0 /\ sample' = 0
  BY <1>1, <1>2, <1>3, AdvanceCounts
<1>5. here \in Places(file) /\ Number(file, here) = Cursor /\ Place = Cursor
  BY <1>2, <1>3 DEF Places, Cursor, Number, Place
<1>6. expected' = End(file.tile[here]) /\ expected' \in 0..U64Max /\ expected' = expected + file.tile[here].size + Framing
  <2>1. End(file.tile[here]) \in 0..U64Max
    BY <1>1, <1>2, TileInFile
  <2>2. U64(End(file.tile[here])) = End(file.tile[here])
    BY <2>1, NoWrap, WidthAssumption DEF U64
  <2>3. QED
    BY <1>1, <2>1, <2>2 DEF End
<1>7. found' \in [0..(Tiles(file) - 1) -> 0..U32Max]
  <2>1. file.tile[here].size \in 0..U32Max
    BY <1>1, WidthAssumption
  <2>2. found \in [0..(Tiles(file) - 1) -> 0..U32Max]
    BY <1>2
  <2>3. found' = [found EXCEPT ![Place] = file.tile[here].size]
    BY <1>1
  <2> HIDE DEF here
  <2>4. QED
    BY <2>1, <2>2, <2>3
<1>0. /\ Cursor \in Nat /\ Cursor' \in Nat
      /\ Number(file, here) = Cursor /\ here \in Places(file)
  BY <1>2, <1>4, <1>5
<1> HIDE DEF here
<1>8. \A p \in Places(file) :
        /\ Number(file, p) \in Nat
        /\ Number(file, p) < Cursor' => Number(file, p) < Cursor \/ p = here
        /\ Number(file, p) = Cursor => p = here
  <2>1. \A p \in Places(file) : Number(file, p) \in Nat /\ (Number(file, p) = Number(file, here) => p = here)
    BY <1>2, <1>5, NumberIsIndex
  <2>2. QED
    BY <1>0, <1>4, <2>1
<1>9. /\ Places(file)' = Places(file) /\ Down(file)' = Down(file) /\ Across(file)' = Across(file)
      /\ Tiles(file)' = Tiles(file) /\ file'.bands = file.bands
      /\ FileShape(file)' /\ Conforms(file)'
      /\ \A p : Number(file, p)' = Number(file, p)
  BY <1>1, <1>2
<1>10. ASSUME NEW p \in Places(file), Number(file, p) < Cursor'
       PROVE  /\ p \in DOMAIN file.tile /\ file.tile[p].size \in 1..U32Max
              /\ found'[Number(file, p)] = file.tile[p].size
              /\ \A q \in Places(file) :
                   Number(file, q) = Number(file, p) + 1 =>
                     (IF Number(file, q) < Cursor' THEN file.tile[q].offset ELSE expected') = End(file.tile[p])
  <2>1. CASE p = here
    <3>1. found'[Number(file, p)] = file.tile[p].size
      <4>1. Place \in 0..(Tiles(file) - 1) /\ Place = Number(file, p)
        BY <1>0, <1>1, <1>2, <1>5, <2>1
      <4>2. QED
        BY <1>1, <1>2, <2>1, <4>1
    <3>2. ASSUME NEW q \in Places(file), Number(file, q) = Number(file, p) + 1
          PROVE  ~(Number(file, q) < Cursor')
      BY <1>0, <1>4, <2>1, <3>2
    <3>3. QED
      BY <1>1, <1>6, <2>1, <3>1, <3>2
  <2>2. CASE p # here
    <3>0. Number(file, p) < Cursor /\ Number(file, p) \in Nat
      BY <1>8, <1>10, <2>2
    <3>1. Number(file, p) < Cursor /\ Number(file, p) # Cursor /\ Number(file, p) \in Nat
      BY <1>0, <3>0
    <3>2. /\ p \in DOMAIN file.tile /\ file.tile[p].size \in 1..U32Max
          /\ found[Number(file, p)] = file.tile[p].size
          /\ \A q \in Places(file) :
               Number(file, q) = Number(file, p) + 1 =>
                 (IF Number(file, q) < Cursor THEN file.tile[q].offset ELSE expected) = End(file.tile[p])
      BY <1>2, <3>1 DEF RunInv
    <3>3. found'[Number(file, p)] = found[Number(file, p)]
      <4>1. Place # Number(file, p)
        BY <1>5, <3>1
      <4>2. QED
        BY <1>1, <1>2, <4>1
    <3>4. ASSUME NEW q \in Places(file), Number(file, q) = Number(file, p) + 1
          PROVE  Number(file, q) < Cursor' /\ file.tile[q].offset = End(file.tile[p])
      <4>1. Number(file, q) < Cursor'
        <5>1. Number(file, q) = Number(file, p) + 1
          BY <3>4
        <5>2. Cursor' = Cursor + 1
          BY <1>4
        <5>3. QED
          BY <1>0, <3>1, <5>1, <5>2
      <4>2. CASE Number(file, q) < Cursor
        <5>1. (IF Number(file, q) < Cursor THEN file.tile[q].offset ELSE expected) = End(file.tile[p])
          BY <3>2, <3>4
        <5>2. QED
          BY <4>1, <4>2, <5>1
      <4>3. CASE ~(Number(file, q) < Cursor)
        <5>1. q = here
          BY <1>8, <4>1, <4>3
        <5>2. file.tile[q].offset = expected
          BY <1>1, <5>1
        <5>3. QED
          BY <3>2, <3>4, <4>1, <4>3, <5>2
      <4>4. QED
        BY <4>1, <4>2, <4>3
    <3>5. QED
      BY <3>2, <3>3, <3>4
  <2>3. QED
    BY <2>1, <2>2
<1>11. RunInv'
  <2>0. Cursor' <= Tiles(file)'
    BY <1>0, <1>1, <1>2, <1>4, <1>5, <1>9
  <2>1. Cursor' <= expected'
    <3>1. Cursor <= expected
      BY <1>2 DEF RunInv
    <3>2. file.tile[here].size \in Nat \ {0} /\ Framing \in Nat /\ expected \in Nat
      BY <1>1, <1>2, WidthAssumption, SMTT(30)
    <3>3. QED
      BY <1>0, <1>4, <1>6, <3>1, <3>2
  <2>2. row' = Down(file)' => col' = 0 /\ sample' = 0
    BY <1>4, <1>9
  <2>3. ASSUME NEW p \in Places(file)', Number(file, p)' < Cursor'
        PROVE  /\ p \in DOMAIN file'.tile /\ file'.tile[p].size \in 1..U32Max
               /\ found'[Number(file, p)'] = file'.tile[p].size
               /\ \A q \in Places(file)' :
                    Number(file, q)' = Number(file, p)' + 1 =>
                      (IF Number(file, q)' < Cursor' THEN file'.tile[q].offset ELSE expected')
                        = End(file.tile[p])'
    <3>1. p \in Places(file) /\ Number(file, p) < Cursor' /\ file' = file
      BY <1>1, <1>9, <2>3
    <3>2. QED
      BY <1>9, <1>10, <3>1
  <2>4. QED
    BY <2>0, <2>1, <2>2, <2>3 DEF RunInv
<1>12. BDTypeOK'
  <2>1. bpc' = "walk"
    BY <1>1
  <2>2. QED
    BY <1>4, <1>6, <1>7, <1>9, <2>1 DEF BDTypeOK
<1>13. QED
  BY <1>1, <1>2, <1>11, <1>12 DEF BDInv, OverrunIsWrap

(* The count that the table was made for is not that of the grid.          *)
LEMMA OverrunInv ==
  ASSUME BDInv, Overrun
  PROVE  BDInv'
<1> DEFINE here == <<row, col, sample>>
           T == Down(file) * Across(file) * file.bands
<1>1. /\ bpc = "walk" /\ row < Down(file) /\ Place >= Tiles(file) /\ bpc' = "overrun"
      /\ UNCHANGED <<file, row, col, sample, expected, found, built>>
  BY DEF Overrun
<1>2. /\ FileShape(file) /\ Conforms(file) /\ built = NoBuilt
      /\ Across(file) \in Nat \ {0} /\ Down(file) \in Nat \ {0} /\ file.bands \in Nat \ {0}
      /\ Tiles(file) \in 0..U32Max /\ expected \in 0..U64Max
      /\ row \in 0..Down(file) /\ col \in 0..(Across(file) - 1) /\ sample \in 0..(file.bands - 1)
  BY <1>1, WalkFacts
<1>3. here \in Places(file) /\ Number(file, here) = Place
  BY <1>1, <1>2 DEF Places, Number, Place
<1>4. Place \in 0..(T - 1) /\ T \in Nat
  BY <1>2, <1>3, NumberIsIndex
<1>5. T > U64Max
  <2> SUFFICES ASSUME T <= U64Max PROVE FALSE
    BY <1>4, WidthAssumption
  <2>1. Across(file) * Down(file) = Down(file) * Across(file)
    BY <1>2
  <2>2. Tiles(file) = U64(T)
    BY <2>1 DEF Tiles, TileProduct
  <2> HIDE DEF T
  <2>3. Tiles(file) = T
    BY <1>4, <2>2, NoWrap, WidthAssumption DEF U64
  <2>4. QED
    BY <1>1, <1>4, <2>3
<1>6. FileShape(file)' /\ Conforms(file)' /\ (Down(file) * Across(file) * file.bands)' = T
  BY <1>1, <1>2
<1>7. QED
  BY <1>1, <1>2, <1>5, <1>6 DEF BDInv, BDTypeOK, OverrunIsWrap

LEMMA EmitBlobInv ==
  ASSUME BDInv, EmitBlob
  PROVE  BDInv'
<1>1. /\ bpc = "walk" /\ row = Down(file) /\ bpc' = "done" /\ built' = BlobOf(file, found)
      /\ UNCHANGED <<file, row, col, sample, expected, found>>
  BY DEF EmitBlob
<1>2. /\ FileShape(file) /\ Conforms(file) /\ RunInv
      /\ Across(file) \in Nat \ {0} /\ Down(file) \in Nat \ {0} /\ file.bands \in Nat \ {0}
      /\ expected \in 0..U64Max /\ found \in [0..(Tiles(file) - 1) -> 0..U32Max]
      /\ Cursor \in Nat
  BY <1>1, WalkFacts
<1> DEFINE T == Down(file) * Across(file) * file.bands
<1>3. Cursor = T
  <2>1. col = 0 /\ sample = 0
    BY <1>1, <1>2 DEF RunInv
  <2>2. QED
    BY <1>1, <1>2, <2>1 DEF Cursor, Number
<1>4. T \in 0..U64Max
  BY <1>2, <1>3, WidthAssumption DEF RunInv
<1>5. Tiles(file) = T
  <2>1. Across(file) * Down(file) = Down(file) * Across(file)
    BY <1>2
  <2>2. Tiles(file) = U64(T)
    BY <2>1 DEF Tiles, TileProduct
  <2> HIDE DEF T
  <2>3. QED
    BY <1>4, <2>2, NoWrap, WidthAssumption DEF U64
<1>6. ASSUME NEW p \in Places(file)
      PROVE  Number(file, p) \in Nat /\ Number(file, p) < Cursor /\ Number(file, p) < Tiles(file)
  <2>1. Number(file, p) \in 0..(T - 1)
    BY <1>2, NumberIsIndex
  <2> HIDE DEF T
  <2>2. QED
    BY <1>3, <1>4, <1>5, <2>1
<1>7. OneRun(file) /\ \A p \in Places(file) : found[Number(file, p)] = file.tile[p].size
  BY <1>2, <1>6 DEF RunInv, OneRun
<1>8. BuiltInv'
  <2>1. OneRun(file)' /\ Conforms(file)' /\ built' = BlobOf(file, found)'
    BY <1>1, <1>2, <1>7
  <2>2. Tiles(file)' = (Down(file) * Across(file) * file.bands)'
    BY <1>1, <1>5
  <2>3. found' \in [0..(Tiles(file)' - 1) -> 0..U32Max]
    BY <1>1, <1>2
  <2>4. \A p \in Places(file)' : found'[Number(file, p)'] = file'.tile[p].size
    BY <1>1, <1>7
  <2>5. QED
    BY <1>1, <2>1, <2>2, <2>3, <2>4 DEF BuiltInv, BuiltFromOneRun
<1>9. BDTypeOK'
  <2>1. FileShape(file)' /\ expected' \in 0..U64Max
    BY <1>1, <1>2
  <2>2. QED
    BY <1>1, <2>1 DEF BDTypeOK
<1>10. QED
  BY <1>1, <1>8, <1>9 DEF BDInv, OverrunIsWrap

LEMMA BuildReturnInv ==
  ASSUME BuildReturn
  PROVE  BDInv'
<1>1. bpc' = "idle" /\ built' = NoBuilt /\ expected' = 0
  BY DEF BuildReturn
<1>2. QED
  BY <1>1, WidthAssumption DEF BDInv, BDTypeOK, OverrunIsWrap

LEMMA BuildStutterInv == BDInv /\ UNCHANGED bdVars => BDInv'
<1> SUFFICES ASSUME BDInv, UNCHANGED bdVars PROVE BDInv'
  OBVIOUS
<1>1. UNCHANGED <<bpc, file, row, col, sample, expected, found, built>>
  BY DEF bdVars
<1>2. BDTypeOK' <=> BDTypeOK
  BY <1>1 DEF BDTypeOK
<1>3. RunInv' <=> RunInv
  BY <1>1 DEF RunInv, Cursor
<1>4. BuiltInv' <=> BuiltInv
  BY <1>1 DEF BuiltInv, BuiltFromOneRun
<1>5. OverrunIsWrap' <=> OverrunIsWrap
  BY <1>1 DEF OverrunIsWrap
<1>6. QED
  BY <1>1, <1>2, <1>3, <1>4, <1>5 DEF BDInv

LEMMA BuildStepInv == BDInv /\ BuildStep => BDInv'
  BY BuildRefuseInv, WalkBeginInv, TakeTileInv, OverrunInv, EmitBlobInv, BuildStutterInv
     DEF BuildStep, AfterOverrun

-----------------------------------------------------------------------------
(* The composition: a blob that was built is parsed.                       *)

(* A built blob is one that parse_blob can be passed, and passes the       *)
(* checks of its fields.                                                   *)
LEMMA BuiltBlobPasses ==
  ASSUME BDInv, built # NoBuilt
  PROVE  /\ bpc = "done" /\ FileShape(file) /\ Conforms(file) /\ OneRun(file)
         /\ BlobShape(built) /\ FieldsPass(built)
         /\ built = BlobOf(file, found) /\ built.entries = Tiles(file)
         /\ HeaderOf(built).counts = found /\ HeaderOf(built).tiles = Tiles(file)
         /\ Tiles(file) = Down(file) * Across(file) * file.bands
         /\ \A p \in Places(file) : found[Number(file, p)] = file.tile[p].size
<1>1. /\ bpc = "done" /\ FileShape(file) /\ Conforms(file) /\ OneRun(file)
      /\ built = BlobOf(file, found)
      /\ Tiles(file) = Down(file) * Across(file) * file.bands
      /\ found \in [0..(Tiles(file) - 1) -> 0..U32Max]
      /\ \A p \in Places(file) : found[Number(file, p)] = file.tile[p].size
  BY DEF BDInv, BDTypeOK, BuiltInv, BuiltFromOneRun
<1>2. /\ ~built.short /\ ~built.ragged /\ built.magic /\ built.version = 1
      /\ built.width = file.width /\ built.length = file.length
      /\ built.tw = file.tw /\ built.tl = file.tl /\ built.spp = file.bands
      /\ built.bits = SampleEncoding[file.type][2] /\ built.format = SampleEncoding[file.type][1]
      /\ built.predictor = file.predictor /\ built.base = file.tile[Origin].offset
      /\ built.entries = Tiles(file) /\ built.counts = found
      /\ {built.short, built.ragged, built.magic} \subseteq BOOLEAN
  BY <1>1 DEF BlobOf, Format
<1>3. /\ file.width \in 1..IntMax /\ file.length \in 1..IntMax
      /\ file.tw \in 1..U16Max /\ file.tl \in 1..U16Max /\ file.bands \in 1..U16Max
      /\ Tiles(file) \in 0..U32Max
      /\ file.type \in GdalTypes /\ file.predictor \in {1, 2}
      /\ ~(file.predictor = 2 /\ SampleEncoding[file.type][1] \in {5, 6})
  BY <1>1, ConformingFile DEF Conforms, Format
<1>4. /\ InferGdalType(built.bits, built.format) = file.type /\ file.type # "Unknown"
      /\ built.format \in {1, 2, 3, 5, 6} /\ built.bits \in {8, 16, 32, 64, 128}
  BY <1>2, <1>3, TablesAgree
<1>5. BlobShape(built)
  <2>1. built.base \in 0..U64Max
    <3>1. Origin \in DOMAIN file.tile
      BY <1>1 DEF Conforms
    <3>2. End(file.tile[Origin]) \in 0..U64Max /\ file.tile[Origin].offset \in Nat
          /\ file.tile[Origin].size \in Nat
      BY <1>1, <3>1, TileInFile
    <3>3. QED
      BY <1>2, <3>2, WidthAssumption DEF End
  <2>2. built.width \in 0..U32Max /\ built.length \in 0..U32Max
    BY <1>2, <1>3, WidthAssumption
  <2>3. built.tw \in 0..U16Max /\ built.tl \in 0..U16Max /\ built.spp \in 0..U16Max
    BY <1>2, <1>3, WidthAssumption
  <2>4. built.version \in Nat /\ built.bits \in Nat /\ built.format \in Nat
        /\ built.predictor \in Nat /\ built.entries \in Nat
    BY <1>2, <1>3, <1>4, WidthAssumption
  <2>5. built.counts \in [0..(built.entries - 1) -> 0..U32Max]
    BY <1>1, <1>2
  <2>6. QED
    BY <1>2, <2>1, <2>2, <2>3, <2>4, <2>5 DEF BlobShape
<1>6. TileCount(built) = Tiles(file)
  <2>1. 0 \notin {built.tw, built.tl}
    BY <1>2, <1>3
  <2>2. QED
    BY <1>2, <2>1 DEF TileCount, Tiles, Across, Down
<1>7. FieldsPass(built)
  <2>1. ~BadDimensions(built)
    BY <1>2, <1>3, WidthAssumption DEF BadDimensions
  <2>2. ~BadPredictor(built)
    BY <1>2, <1>3 DEF BadPredictor, Complex
  <2>3. ~UnknownEncoding(built)
    BY <1>4 DEF UnknownEncoding
  <2>4. ~(TileCount(built) > U32Max) /\ ~WrongSize(built)
    BY <1>2, <1>3, <1>6, WidthAssumption DEF WrongSize
  <2>5. QED
    BY <1>2, <1>4, <2>1, <2>2, <2>3, <2>4, FieldsPassMeans
<1>8. HeaderOf(built).counts = found /\ HeaderOf(built).tiles = Tiles(file)
  BY <1>2, <1>6 DEF HeaderOf
<1>9. QED
  BY <1>1, <1>2, <1>5, <1>7, <1>8

(* While a built blob is summed, the tile at the cursor is one of the      *)
(* file's: its size is the next of the table, and after its framing comes  *)
(* the tile that is next.                                                  *)
LEMMA NextTile ==
  ASSUME IXInv, built # NoBuilt, ppc = "sum", at < header.tiles
  PROVE  \E p \in Places(file) :
           /\ Number(file, p) = at /\ p \in DOMAIN file.tile
           /\ header.counts[at] = file.tile[p].size /\ file.tile[p].size \in 1..U32Max
           /\ offset = file.tile[p].offset /\ file.tile[p].offset \in Nat
           /\ End(file.tile[p]) \in 0..U64Max
           /\ \A q \in Places(file) :
                Number(file, q) = at + 1 => file.tile[q].offset = End(file.tile[p])
<1>1. /\ FileShape(file) /\ Conforms(file) /\ OneRun(file) /\ bpc = "done"
      /\ HeaderOf(built).counts = found /\ HeaderOf(built).tiles = Tiles(file)
      /\ Tiles(file) = Down(file) * Across(file) * file.bands
      /\ \A p \in Places(file) : found[Number(file, p)] = file.tile[p].size
  BY BuiltBlobPasses DEF IXInv
<1>2. blob = built /\ SameOffsets
  BY <1>1 DEF IXInv, Summing
<1>3. header = HeaderOf(blob) /\ at \in 0..header.tiles /\ header.tiles \in 0..U32Max
  BY SumFacts DEF IXInv
<1>4. header.counts = found /\ header.tiles = Down(file) * Across(file) * file.bands
  BY <1>1, <1>2, <1>3
<1>5. PICK p \in Places(file) : Number(file, p) = at
  <2> DEFINE T == Down(file) * Across(file) * file.bands
  <2>1. at \in 0..(T - 1)
    <3>1. header.tiles = T
      BY <1>4
    <3> HIDE DEF T
    <3>2. QED
      BY <1>3, <3>1
  <2>2. QED
    BY <1>1, <2>1, IndexHasPlace
<1>6. p \in DOMAIN file.tile /\ file.tile[p].size \in 1..U32Max
  BY <1>1 DEF OneRun
<1>7. header.counts[at] = file.tile[p].size
  BY <1>1, <1>4, <1>5
<1>8. offset = file.tile[p].offset
  BY <1>2, <1>5 DEF SameOffsets
<1>9. End(file.tile[p]) \in 0..U64Max /\ file.tile[p].offset \in Nat
  BY <1>1, <1>6, TileInFile
<1>10. \A q \in Places(file) : Number(file, q) = at + 1 => file.tile[q].offset = End(file.tile[p])
  BY <1>1, <1>5 DEF OneRun
<1>11. QED
  BY <1>5, <1>6, <1>7, <1>8, <1>9, <1>10

(* No check of parse_blob turns a built blob away.                         *)
LEMMA BuiltIsNotRefused ==
  ASSUME IXInv, built # NoBuilt
  PROVE  ~RefuseFields /\ ~RefuseEmptyTile /\ ~RefuseOffset
<1>1. bpc = "done" /\ FieldsPass(built)
  BY BuiltBlobPasses DEF IXInv
<1>2. ASSUME RefuseFields PROVE FALSE
  <2>1. blob = built
    BY <1>1, <1>2 DEF RefuseFields, IXInv
  <2>2. QED
    BY <1>1, <1>2, <2>1 DEF RefuseFields, FirstDue, FieldsPass
<1>3. ASSUME RefuseEmptyTile \/ RefuseOffset PROVE FALSE
  <2>1. ppc = "sum" /\ at < header.tiles
    BY <1>3 DEF RefuseEmptyTile, RefuseOffset
  <2>2. PICK p \in Places(file) :
             /\ header.counts[at] = file.tile[p].size /\ file.tile[p].size \in 1..U32Max
             /\ offset = file.tile[p].offset /\ file.tile[p].offset \in Nat
             /\ End(file.tile[p]) \in 0..U64Max
    BY <2>1, NextTile
  <2>3. header.counts[at] \in 1..U32Max /\ offset \in Nat
        /\ offset + header.counts[at] + Framing \in 0..U64Max
    BY <2>2 DEF End
  <2> DEFINE n == header.counts[at]
  <2>4. n # 0 /\ ~(offset > U64Max - (n + Framing))
    <3> HIDE DEF n
    <3>1. n \in 1..U32Max /\ offset \in Nat /\ offset + n + Framing \in 0..U64Max
      BY <2>3 DEF n
    <3>2. QED
      BY <3>1, WidthAssumption
  <2>5. QED
    BY <1>3, <2>4 DEF RefuseEmptyTile, RefuseOffset, Step
<1>4. QED
  BY <1>2, <1>3

(* A step of the parser keeps the offsets those of the file.               *)
LEMMA ParseKeepsIX ==
  ASSUME IXInv, Parse
  PROVE  IXInv'
<1>1. PSInv /\ BDInv /\ ParseStep /\ UNCHANGED bdVars
  BY DEF IXInv, Parse
<1>2. UNCHANGED <<bpc, file, row, col, sample, expected, found, built>>
  BY <1>1 DEF bdVars
<1>3. PSInv' /\ BDInv'
  BY <1>1, ParseStepInv, BuildStutterInv
<1>4. blob' = blob /\ ppc # "idle"
  BY <1>1 DEF ParseStep, RefuseFields, RefuseEmptyTile, RefuseOffset, Refuse, AcceptFields,
              SumTile, ParseEnd
<1>5. /\ Places(file)' = Places(file) /\ Down(file)' = Down(file)
      /\ \A p : Number(file, p)' = Number(file, p)
  BY <1>2
<1>6. ASSUME built # NoBuilt
      PROVE  (Summing' => SameOffsets') /\ (ppc' = "done" => verdict' = "ok")
  <2>1. /\ bpc = "done" /\ FileShape(file) /\ Conforms(file) /\ built = BlobOf(file, found)
    BY <1>1, <1>6, BuiltBlobPasses
  <2>2. blob = built
    BY <1>4, <2>1 DEF IXInv
  <2>3. CASE AcceptFields
    <3>1. at' = 0 /\ offset' = file.tile[Origin].offset /\ ppc' = "sum"
      <4>1. at = 0 /\ at' = at /\ offset' = blob.base /\ ppc' = "sum"
        BY <1>1, <2>3 DEF AcceptFields, PSInv
      <4>2. blob.base = file.tile[Origin].offset
        BY <2>1, <2>2 DEF BlobOf
      <4>3. QED
        BY <4>1, <4>2
    <3>2. Origin \in Places(file) /\ Number(file, Origin) = 0
      <4>1. /\ Down(file) \in Nat \ {0} /\ Across(file) \in Nat \ {0} /\ file.bands \in Nat \ {0}
        BY <2>1, ConformingFile
      <4>2. QED
        BY <4>1 DEF Origin, Places, Number
    <3>3. \A p \in Places(file) : ~(Number(file, p) < 0) /\ (Number(file, p) = 0 => p = Origin)
      BY <2>1, <3>2, NumberIsIndex
    <3>4. SameOffsets'
      BY <1>2, <1>5, <3>1, <3>3 DEF SameOffsets
    <3>5. QED
      BY <3>1, <3>4
  <2>4. CASE SumTile
    <3>1. /\ ppc = "sum" /\ at < header.tiles /\ at' = at + 1 /\ ppc' = "sum"
          /\ offsets' = [offsets EXCEPT ![at] = offset]
          /\ offset' = offset + (header.counts[at] + Framing)
      BY <2>4 DEF SumTile, Step
    <3>2. /\ at \in 0..header.tiles /\ header.tiles \in 0..U32Max
          /\ offsets \in [0..(header.tiles - 1) -> 0..U64Max]
      BY <1>1, <3>1, SumFacts
    <3>3. PICK p \in Places(file) :
             /\ Number(file, p) = at
             /\ header.counts[at] = file.tile[p].size /\ file.tile[p].size \in 1..U32Max
             /\ offset = file.tile[p].offset /\ file.tile[p].offset \in Nat
             /\ \A q \in Places(file) :
                  Number(file, q) = at + 1 => file.tile[q].offset = End(file.tile[p])
      BY <1>6, <3>1, NextTile
    <3>4. offset' = End(file.tile[p])
      BY <3>1, <3>3, WidthAssumption DEF End
    <3>5. ASSUME NEW q \in Places(file)
          PROVE  /\ Number(file, q) \in Nat
                 /\ Number(file, q) = at => q = p
      BY <2>1, <3>3, NumberIsIndex
    <3>6. SameOffsets
      BY <1>6, <3>1 DEF IXInv, Summing
    <3>7. ASSUME NEW q \in Places(file)
          PROVE  /\ Number(file, q) < at + 1 => offsets'[Number(file, q)] = file.tile[q].offset
                 /\ Number(file, q) = at + 1 => offset' = file.tile[q].offset
      <4>1. CASE Number(file, q) < at
        <5>1. offsets'[Number(file, q)] = offsets[Number(file, q)]
          BY <3>1, <3>2, <3>5, <4>1
        <5>2. offsets[Number(file, q)] = file.tile[q].offset /\ Number(file, q) # at + 1
          BY <3>2, <3>5, <3>6, <4>1 DEF SameOffsets
        <5>3. QED
          BY <5>1, <5>2
      <4>2. CASE Number(file, q) = at
        <5>1. q = p /\ offsets'[at] = offset
          BY <3>1, <3>2, <3>5, <4>2
        <5>2. QED
          BY <3>2, <3>3, <4>2, <5>1
      <4>3. CASE Number(file, q) > at
        BY <3>2, <3>3, <3>4, <3>5, <4>3
      <4>4. QED
        BY <3>2, <3>5, <4>1, <4>2, <4>3
    <3>8. SameOffsets'
      BY <1>2, <1>5, <3>1, <3>7 DEF SameOffsets
    <3>9. QED
      BY <3>1, <3>8
  <2>5. CASE ParseEnd
    <3>1. /\ ppc = "sum" /\ verdict' = "ok" /\ UNCHANGED <<at, offset, offsets>>
      BY <2>5 DEF ParseEnd
    <3>2. SameOffsets
      BY <1>6, <3>1 DEF IXInv, Summing
    <3>3. SameOffsets'
      BY <1>2, <1>5, <3>1, <3>2 DEF SameOffsets
    <3>4. QED
      BY <3>1, <3>3
  <2>6. QED
    BY <1>1, <1>6, <2>3, <2>4, <2>5, BuiltIsNotRefused DEF ParseStep
<1>7. QED
  BY <1>2, <1>3, <1>4, <1>6 DEF IXInv

(* The prefix sum and the walk are the same recurrence, and so the offsets *)
(* come back: the inductive invariant of the composition.                  *)
THEOREM IXInvariant == IXSpec => []IXInv
<1>1. IXInit => IXInv
  BY InitInv, BuildInitInv DEF IXInit, IXInv, PSInit, BDInit, Summing
<1>2. IXInv /\ [IXNext]_ixVars => IXInv'
  <2> SUFFICES ASSUME IXInv, [IXNext]_ixVars PROVE IXInv'
    OBVIOUS
  <2>1. PSInv /\ BDInv
    BY DEF IXInv
  <2>2. CASE ppc = "idle" /\ Build
    <3>1. UNCHANGED psVars /\ (BuildBegin \/ BuildStep)
      BY <2>2 DEF Build
    <3>2. UNCHANGED <<ppc, verdict>> /\ ppc = "idle" /\ verdict = "none"
      BY <2>1, <2>2, <3>1 DEF psVars, PSInv
    <3>3. PSInv' /\ BDInv'
      BY <2>1, <3>1, StutterInv, BuildBeginInv, BuildStepInv
    <3>4. QED
      BY <3>2, <3>3 DEF IXInv, Summing
  <2>3. CASE ParseBuilt
    <3>1. ParseBegin(built) /\ UNCHANGED bdVars /\ built # NoBuilt
      BY <2>3 DEF ParseBuilt
    <3>2. PSInv' /\ BDInv'
      BY <2>1, <3>1, BuiltBlobPasses, BeginInv, BuildStutterInv
    <3>3. built' = built /\ blob' = built /\ ppc' = "fields" /\ verdict' = "none"
      BY <3>1 DEF bdVars, ParseBegin
    <3>4. QED
      BY <3>1, <3>2, <3>3 DEF IXInv, Summing
  <2>4. CASE ParseForeign
    <3>1. PICK x \in Blobs : ParseBegin(x)
      BY <2>4 DEF ParseForeign
    <3>2. UNCHANGED bdVars /\ bpc = "idle"
      BY <2>4 DEF ParseForeign
    <3>3. PSInv' /\ BDInv'
      BY <2>1, <3>1, <3>2, BlobAssumption, BeginInv, BuildStutterInv
    <3>4. bpc' = "idle" /\ built' = NoBuilt
      BY <2>1, <3>2 DEF bdVars, BDInv, BuiltInv
    <3>5. QED
      BY <3>3, <3>4 DEF IXInv
  <2>5. CASE Parse
    BY <2>5, ParseKeepsIX
  <2>6. CASE ForgetFile
    <3>1. bpc' = "idle" /\ built' = NoBuilt /\ BDInv'
      BY <2>6, BuildReturnInv DEF ForgetFile, BuildReturn
    <3>2. PSInv'
      BY <2>1, <2>6, ReturnInv, StutterInv DEF ForgetFile
    <3>3. QED
      BY <3>1, <3>2 DEF IXInv
  <2>7. CASE ForgetForeign
    <3>1. PSInv' /\ BDInv'
      BY <2>1, <2>7, ReturnInv, BuildStutterInv DEF ForgetForeign
    <3>2. bpc' = "idle" /\ built' = NoBuilt
      BY <2>1, <2>7 DEF ForgetForeign, bdVars, BDInv, BuiltInv
    <3>3. QED
      BY <3>1, <3>2 DEF IXInv
  <2>8. CASE UNCHANGED ixVars
    <3>1. UNCHANGED psVars /\ UNCHANGED bdVars
      BY <2>8 DEF ixVars, psVars, bdVars
    <3>2. PSInv' /\ BDInv'
      BY <2>1, <3>1, StutterInv, BuildStutterInv
    <3>3. UNCHANGED <<bpc, file, built, ppc, blob, verdict>> /\ (Summing' <=> Summing)
      BY <2>8 DEF ixVars, Summing
    <3>4. SameOffsets' <=> SameOffsets
      BY <2>8 DEF ixVars, SameOffsets
    <3>5. QED
      BY <3>2, <3>3, <3>4 DEF IXInv
  <2>9. QED
    BY <2>2, <2>3, <2>4, <2>5, <2>6, <2>7, <2>8 DEF IXNext
<1>3. QED
  BY <1>1, <1>2, PTL DEF IXSpec

(* A blob is only ever returned of a file that conforms and whose tiles    *)
(* form one run in tile-index order.  A walk that leaves its table returns *)
(* nothing here: that this takes a count beyond uint64 is OverrunIsWrap.   *)
THEOREM IXBuiltFromOneRun == IXSpec => []BuiltFromOneRun
<1>1. IXInv => BuiltFromOneRun
  BY DEF IXInv, BDInv, BuiltInv, BuiltFromOneRun
<1>2. QED
  BY <1>1, IXInvariant, PTL

(* The builder leaves the table of byte counts only on a file whose tiles  *)
(* uint64 cannot count; on every other file each size it writes is written *)
(* inside the table.                                                       *)
THEOREM IXOverrunIsWrap == IXSpec => []OverrunIsWrap
<1>1. IXInv => OverrunIsWrap
  BY DEF IXInv, BDInv
<1>2. QED
  BY <1>1, IXInvariant, PTL

(* Parsing the blob of a file says of each of its tiles what the file says.*)
THEOREM IXRoundTrip == IXSpec => []RoundTrip
<1>1. IXInv => RoundTrip
  <2> SUFFICES ASSUME IXInv, ppc = "done", built # NoBuilt PROVE RoundTrip
    BY DEF RoundTrip
  <2>1. /\ bpc = "done" /\ FileShape(file) /\ Conforms(file)
        /\ built = BlobOf(file, found) /\ BlobShape(built) /\ FieldsPass(built)
        /\ HeaderOf(built).counts = found /\ HeaderOf(built).tiles = Tiles(file)
        /\ Tiles(file) = Down(file) * Across(file) * file.bands
        /\ \A p \in Places(file) : found[Number(file, p)] = file.tile[p].size
    BY BuiltBlobPasses DEF IXInv
  <2>2. verdict = "ok" /\ blob = built /\ SameOffsets /\ header = HeaderOf(built)
        /\ at = header.tiles
    BY <2>1 DEF IXInv, PSInv, Summing
  <2>3. /\ header.width = file.width /\ header.length = file.length
        /\ header.tw = file.tw /\ header.tl = file.tl
        /\ header.predictor = file.predictor /\ header.spp = file.bands
        /\ header.across = Across(file)
        /\ header.type = InferGdalType(SampleEncoding[file.type][2], SampleEncoding[file.type][1])
    BY <2>1, <2>2 DEF HeaderOf, BlobOf, Format, Across
  <2>4. header.type = file.type
    BY <2>1, <2>3, TablesAgree DEF Conforms
  <2>5. header.tiles \in 0..U32Max /\ header.counts = found
        /\ header.tiles = Down(file) * Across(file) * file.bands
    BY <2>1, <2>2, ConformingFile
  <2>6. ASSUME NEW p \in Places(file)
        PROVE  /\ TileIndex(header.across, header.spp, p[1], p[2], p[3]) = Number(file, p)
               /\ Number(file, p) \in 0..(header.tiles - 1)
               /\ offsets[Number(file, p)] = file.tile[p].offset
               /\ header.counts[Number(file, p)] = file.tile[p].size
    <3>1. Number(file, p) \in 0..(Down(file) * Across(file) * file.bands - 1)
      BY <2>1, NumberIsIndex
    <3>2. Number(file, p) \in 0..(header.tiles - 1)
      BY <2>5, <3>1
    <3>3. Number(file, p) \in 0..U32Max /\ Number(file, p) < at
      BY <2>2, <2>5, <3>2, WidthAssumption
    <3>4. TileIndex(header.across, header.spp, p[1], p[2], p[3]) = U32(Number(file, p))
      BY <2>3 DEF TileIndex, Number
    <3>5. U32(Number(file, p)) = Number(file, p)
      BY <3>3, NoWrap, WidthAssumption DEF U32
    <3>6. QED
      BY <2>1, <2>2, <2>5, <3>2, <3>3, <3>4, <3>5 DEF SameOffsets
  <2>7. QED
    BY <2>2, <2>3, <2>4, <2>6 DEF RoundTrip
<1>2. QED
  BY <1>1, IXInvariant, PTL

(* Also where blobs come from the builder: the verdict is exact.           *)
THEOREM IXVerdictIsExact == IXSpec => []VerdictIsExact
<1>1. IXInv => VerdictIsExact
  BY VerdictFollows DEF IXInv
<1>2. QED
  BY <1>1, IXInvariant, PTL
=============================================================================
