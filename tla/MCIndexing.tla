----------------------------- MODULE MCIndexing -----------------------------
(* Files for TLC: every small grid with its tiles written in tile order,   *)
(* band by band, with a gap or with a tile missing, every rule of the      *)
(* profile broken once, and a count of tiles that wraps; and the blobs of  *)
(* MCParser.                                                               *)
EXTENDS Indexing, MCParser, FiniteSetsExt, TLC

CONSTANTS Sizes, OddSizes

Plain == [opens |-> TRUE, bigtiff |-> TRUE, raster |-> TRUE, subdatasets |-> FALSE,
          zstd |-> TRUE, interleave |-> "TILE", mask |-> FALSE, overviews |-> 0,
          cog |-> TRUE, width |-> 3, length |-> 2, bands |-> 1, tw |-> 2, tl |-> 2,
          type |-> "Byte", predictor |-> 1, tile |-> <<>>]

(* p comes before q in tile-index order.                                   *)
Before(p, q) ==
  \/ p[1] < q[1]
  \/ p[1] = q[1] /\ p[2] < q[2]
  \/ p[1] = q[1] /\ p[2] = q[2] /\ p[3] < q[3]

ByBand(p, q) == p[3] < q[3] \/ (p[3] = q[3] /\ Before(p, q))

(* The tiles of f with the sizes s from base o on, in the order Earlier,   *)
(* with one spare byte before each place of gaps.  @@ evaluates the table  *)
(* once and for all.                                                       *)
Laid(f, s, o, Earlier(_, _), gaps) ==
  LET Room(q) == s[q] + Framing + (IF q \in gaps THEN 1 ELSE 0)
  IN  <<>> @@ [p \in Places(f) |->
                 [size |-> s[p],
                  offset |-> o + (IF p \in gaps THEN 1 ELSE 0)
                             + MapThenSumSet(Room, {q \in Places(f) : Earlier(q, p)})]]

Holed(t, p) == <<>> @@ [q \in DOMAIN t \ {p} |-> t[q]]

Grids == {[Plain EXCEPT !.width = g[1], !.length = g[2], !.bands = g[3]] :
            g \in {<<3, 2, 1>>, <<2, 5, 1>>, <<2, 1, 3>>, <<4, 4, 1>>, <<3, 1, 2>>, <<1, 3, 2>>}}

(* Every table of ordinary sizes, and one odd size anywhere.               *)
SizeTables(f) ==
  [Places(f) -> Sizes]
  \cup {[[p \in Places(f) |-> 3] EXCEPT ![q] = n] : q \in Places(f), n \in OddSizes}

Arrangements(f) ==
  UNION {{Laid(f, s, 4, Before, {}), Laid(f, s, 4, ByBand, {})}
         \cup {Laid(f, s, 4, Before, {p}) : p \in Places(f)}
         \cup {Holed(Laid(f, s, 4, Before, {}), p) : p \in Places(f)} :
           s \in SizeTables(f)}

Whole(f) == [f EXCEPT !.tile = Laid(f, [p \in Places(f) |-> 5], 4, Before, {})]
Good == Whole(Plain)

Encodings == {[Good EXCEPT !.type = t, !.predictor = p] :
                t \in GdalTypes \cup {"Unknown"}, p \in 1..3}
Broken == {[Good EXCEPT !.opens = FALSE], [Good EXCEPT !.bigtiff = FALSE],
           [Good EXCEPT !.raster = FALSE], [Good EXCEPT !.subdatasets = TRUE],
           [Good EXCEPT !.zstd = FALSE], [Good EXCEPT !.mask = TRUE],
           [Good EXCEPT !.overviews = 2], [Good EXCEPT !.cog = FALSE],
           [Good EXCEPT !.bands = 0], [Good EXCEPT !.bands = 16],
           [Good EXCEPT !.tw = 0], [Good EXCEPT !.tl = 16],
           [Good EXCEPT !.interleave = "BAND"],
           [Whole([Plain EXCEPT !.bands = 2]) EXCEPT !.interleave = "BAND"]}
Ends == {Whole([Plain EXCEPT !.width = w, !.length = l, !.tw = 1, !.tl = 1, !.bands = b]) :
           w \in {1, 15}, l \in {1, 2}, b \in {1, 2}}

(* 13 * 8 * 10 tiles are counted as 16: files that have the first k, for a *)
(* walk that stops inside the table, at its end or one past it.            *)
Wrapping ==
  LET f == [Plain EXCEPT !.width = 13, !.length = 8, !.tw = 1, !.tl = 1, !.bands = 10]
      First(k) == <<>> @@ [p \in {q \in Places(f) : Number(f, q) < k} |->
                             [size |-> 5, offset |-> 4 + Number(f, p) * (5 + Framing)]]
  IN  {[f EXCEPT !.tile = First(k)] : k \in {3, 16, 17}}

MCFiles == UNION {{[f EXCEPT !.tile = t] : t \in Arrangements(f)} : f \in Grids}
           \cup Encodings \cup Broken \cup Ends \cup Wrapping
=============================================================================
