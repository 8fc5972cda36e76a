----------------------------- MODULE BlobFormat -----------------------------
(***************************************************************************)
(* What the builder and the parser of the header blob share: the integer   *)
(* widths, the tile grid, the tile index and the table of sample types     *)
(* (core/include/shortcog/shortcog.hpp and the two tables of builder.cpp   *)
(* and parser.cpp).  Widths are constants, so that TLC can reach their     *)
(* ends and the proofs hold for the real ones.                             *)
(***************************************************************************)
EXTENDS Integers

CONSTANTS
  U16Max,    (* numeric limits of uint16, uint32, uint64 and int           *)
  U32Max,
  U64Max,
  IntMax,
  Framing    (* COG_TILE_FRAMING: 4 bytes before, 4 after each payload     *)

ASSUME WidthAssumption ==
  /\ U16Max \in Nat \ {0} /\ U32Max \in Nat \ {0} /\ U64Max \in Nat \ {0}
  /\ IntMax \in Nat \ {0} /\ Framing \in Nat \ {0}
  /\ U16Max <= IntMax /\ IntMax + U16Max <= U32Max
  /\ U32Max + Framing <= U64Max

U32(n) == n % (U32Max + 1)
U64(n) == n % (U64Max + 1)

(* (extent + tile - 1) / tile, in uint32.                                  *)
TilesOver(extent, tile) == U32(extent + tile - 1) \div tile

(* The product of the grid and the samples, in uint64.                     *)
TileProduct(across, down, spp) == U64(across * down * spp)

(* slip: the column is not scaled by the row it is in.                     *)
TileIndexLoose(across, spp, row, col, sample) ==
  U32(row * across + col * spp + sample)

(* Header::tile_index.                                                     *)
TileIndex(across, spp, row, col, sample) ==
  U32((row * across + col) * spp + sample)

(* sample_encoding of the builder: what a GDAL type is stored as.          *)
SampleEncoding ==
  [Byte    |-> <<1, 8>>,  UInt16   |-> <<1, 16>>, UInt32   |-> <<1, 32>>,
   UInt64  |-> <<1, 64>>, Int8     |-> <<2, 8>>,  Int16    |-> <<2, 16>>,
   Int32   |-> <<2, 32>>, Int64    |-> <<2, 64>>, Float16  |-> <<3, 16>>,
   Float32 |-> <<3, 32>>, Float64  |-> <<3, 64>>, CInt16   |-> <<5, 32>>,
   CInt32  |-> <<5, 64>>, CFloat16 |-> <<6, 32>>, CFloat32 |-> <<6, 64>>,
   CFloat64 |-> <<6, 128>>]

GdalTypes == DOMAIN SampleEncoding

(* infer_gdal_type of the parser: <<sample_format, bits, type>>.             *)
InferTable ==
  {<<1, 8, "Byte">>,   <<1, 16, "UInt16">>,  <<1, 32, "UInt32">>,  <<1, 64, "UInt64">>,
   <<2, 8, "Int8">>,   <<2, 16, "Int16">>,   <<2, 32, "Int32">>,   <<2, 64, "Int64">>,
   <<3, 16, "Float16">>, <<3, 32, "Float32">>, <<3, 64, "Float64">>,
   <<5, 32, "CInt16">>, <<5, 64, "CInt32">>,
   <<6, 32, "CFloat16">>, <<6, 64, "CFloat32">>, <<6, 128, "CFloat64">>}

InferGdalType(bits, format) ==
  LET rows == {r \in InferTable : r[1] = format /\ r[2] = bits}
  IN  IF rows = {} THEN "Unknown" ELSE (CHOOSE r \in rows : TRUE)[3]
=============================================================================
