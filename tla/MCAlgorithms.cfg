\* int64 ends at 24: some boxes fill it exactly, others do not fit.
\* Samples of 2 bits, sums of 3, four lanes: two shifts make a block.
CONSTANTS
  I64Max = 24
  Extents <- MCExtents
  Samples = 4
  Sums = 8
  Lanes = 4
  NoTile = NoTile
  Tiles <- MCTiles
SPECIFICATION ALSpec
INVARIANTS
  AxesOnce
  LayoutDense
  ShapeAgrees
  NativeIsCanonical
  OverflowIsReal
  PRInv
  TileDecoded
