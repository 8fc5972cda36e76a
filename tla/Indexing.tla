------------------------------ MODULE Indexing ------------------------------
(***************************************************************************)
(* From a file to the Header its readers use: build_blob_from_file runs    *)
(* once, the blob waits in a catalog, and parse_blob turns it into a       *)
(* Header with no look at the file.  The catalog may as well hand out a    *)
(* blob of another origin.  The composition of Builder and Parser.         *)
(***************************************************************************)
EXTENDS Builder, Parser

ixVars == <<bpc, file, row, col, sample, expected, found, built,
            ppc, blob, header, offsets, at, offset, verdict>>

IXInit == BDInit /\ PSInit

Build == (BuildBegin \/ BuildStep) /\ UNCHANGED psVars

(* The blob leaves the catalog as it entered it.                           *)
ParseBuilt == /\ bpc = "done" /\ built # NoBuilt
              /\ ParseBegin(built)
              /\ UNCHANGED bdVars

(* A blob that this builder did not make.                                  *)
ParseForeign == /\ bpc = "idle" /\ ppc = "idle"
                /\ \E x \in Blobs : ParseBegin(x)
                /\ UNCHANGED bdVars

Parse == ParseStep /\ UNCHANGED bdVars

(* The caller drops what it was given.                                     *)
ForgetFile == /\ built = NoBuilt \/ ppc = "done"
              /\ BuildReturn
              /\ IF ppc = "done" THEN ParseReturn ELSE UNCHANGED psVars

ForgetForeign == bpc = "idle" /\ ParseReturn /\ UNCHANGED bdVars

IXNext == \/ ppc = "idle" /\ Build
          \/ ParseBuilt \/ ParseForeign \/ Parse \/ ForgetFile \/ ForgetForeign

IXSpec == IXInit /\ [][IXNext]_ixVars

-----------------------------------------------------------------------------
(* A blob that the builder made is accepted, and the Header it becomes     *)
(* says of every tile of the grid where the file has it and how long it    *)
(* is, although no offset but the first was ever stored.                   *)
RoundTrip ==
  ppc = "done" /\ built # NoBuilt =>
    /\ verdict = "ok"
    /\ <<header.width, header.length, header.tw, header.tl>>
         = <<file.width, file.length, file.tw, file.tl>>
    /\ header.type = file.type /\ header.predictor = file.predictor
    /\ \A p \in Places(file) :
         LET i == TileIndex(header.across, header.spp, p[1], p[2], p[3])
         IN  /\ i \in 0..(header.tiles - 1)
             /\ offsets[i] = file.tile[p].offset
             /\ header.counts[i] = file.tile[p].size

-----------------------------------------------------------------------------
(* The inductive invariant behind RoundTrip: the offsets summed so far,    *)
(* and the running one, are those of the file.                             *)
SameOffsets ==
  \A p \in Places(file) :
    /\ Number(file, p) < at => offsets[Number(file, p)] = file.tile[p].offset
    /\ Number(file, p) = at => offset = file.tile[p].offset

IXInv ==
  /\ PSInv /\ BDInv
  /\ ppc # "idle" /\ bpc # "idle" => built # NoBuilt /\ blob = built
  /\ built # NoBuilt /\ Summing => SameOffsets
  /\ built # NoBuilt /\ ppc = "done" => verdict = "ok"
=============================================================================
