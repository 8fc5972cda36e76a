------------------------------ MODULE MCParser ------------------------------
(* Blobs for TLC: tables of every small content and bases up to the end of *)
(* uint64, every way to spoil a header field, and the grids whose product  *)
(* reaches the ends of uint32 and of uint64.                               *)
EXTENDS Parser

CONSTANTS Contents, Bases

Table(n, c) == [i \in 0..(n - 1) |-> c]

PlainBlob == [short |-> FALSE, ragged |-> FALSE, magic |-> TRUE, version |-> 1,
          width |-> 3, length |-> 2, tw |-> 2, tl |-> 2, spp |-> 1,
          bits |-> 8, format |-> 1, predictor |-> 1, base |-> 4,
          entries |-> 2, counts |-> Table(2, 5)]

(* Two, three and four tiles: in a row, in a column, one per band.         *)
BlobGrids == {[PlainBlob EXCEPT !.width = g[1], !.length = g[2], !.spp = g[3], !.entries = g[4]] :
            g \in {<<3, 2, 1, 2>>, <<2, 5, 1, 3>>, <<2, 1, 3, 3>>, <<4, 4, 1, 4>>, <<1, 3, 2, 4>>}}

Tables == UNION {{[g EXCEPT !.counts = t, !.base = o] :
                    t \in [0..(g.entries - 1) -> Contents], o \in Bases} : g \in BlobGrids}

(* Every encoding and predictor, known or not, and every other field off.  *)
BlobEncodings == {[PlainBlob EXCEPT !.bits = b, !.format = f, !.predictor = p] :
                    b \in {0, 8, 16, 24, 32, 64, 128}, f \in 0..7, p \in 0..3}

Spoiled == {[PlainBlob EXCEPT !.short = TRUE], [PlainBlob EXCEPT !.ragged = TRUE],
            [PlainBlob EXCEPT !.magic = FALSE], [PlainBlob EXCEPT !.version = 2]}
           \cup {[PlainBlob EXCEPT !.entries = n, !.counts = Table(n, 5)] : n \in {0, 1, 3}}
           \cup {[PlainBlob EXCEPT !.width = w, !.length = l, !.tw = tw, !.tl = tl, !.spp = s] :
                   w \in {0, 3}, l \in {0, 2}, tw \in {0, 2}, tl \in {0, 2}, s \in {0, 1}}

(* Rasters at and past the largest int, and grids at the ends of uint32    *)
(* and uint64: 31, 32 and 13 * 8 * 10 = 1024 + 16 tiles.                   *)
Sized(w, l, tw, tl, s, n) ==
  [PlainBlob EXCEPT !.width = w, !.length = l, !.tw = tw, !.tl = tl, !.spp = s,
                !.entries = n, !.counts = Table(n, 1)]
BlobEnds == {Sized(15, 1, 15, 1, 1, 1), Sized(16, 1, 15, 1, 1, 2), Sized(1, 16, 1, 8, 1, 2),
             Sized(31, 1, 15, 1, 1, 0), Sized(15, 2, 1, 1, 1, 30), Sized(8, 4, 1, 1, 1, 0),
             Sized(13, 8, 1, 1, 10, 16), Sized(13, 8, 1, 1, 10, 15), Sized(5, 3, 1, 1, 2, 30)}

MCBlobs == Tables \cup BlobEncodings \cup Spoiled \cup BlobEnds
=============================================================================
