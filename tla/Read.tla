-------------------------------- MODULE Read --------------------------------
(***************************************************************************)
(* shortcog_read and shortcog_read_stack (core/src/capi.cpp) over          *)
(* read_window and read_stack (core/src/read.cpp): from a request to the   *)
(* plans that fill the caller's buffer.  A read of one image is a stack of *)
(* one.  What a plan does is in module TilePlan.                           *)
(***************************************************************************)
EXTENDS TilePlan

CONSTANTS
  I64Max,    (* the largest int64                                          *)
  Calls,     (* the calls that may be made                                 *)
  NoCall

Axes == {"n", "b", "y", "x"}

CallShape ==
  [images : Seq(HeaderShape), picks : Seq(Int), bands : Seq(Int), order : Seq(Axes),
   y_off : Int, y_size : Int, x_off : Int, x_size : Int, dst_size : Nat]

ASSUME ReadAssumption ==
  /\ I64Max \in Nat \ {0} /\ NoCall \notin Calls /\ Calls \subseteq CallShape
  /\ \A c \in Calls : c.images # <<>> /\ IsInjective(c.order)

VARIABLES
  rpc,       (* "idle", "open", "work" or "done"                           *)
  call,
  k,         (* read_stack: the image being read, as a position in n_index *)
  outcome    (* "none", "ok", "invalid" or "io"                            *)

readVars == <<rpc, call, k, outcome>>
rdVars == <<readVars, plVars>>

-----------------------------------------------------------------------------
(* The request.                                                            *)

Size(c) == [n |-> Len(c.picks), b |-> Len(c.bands), y |-> c.y_size, x |-> c.x_size]
Elements(c) == Size(c).n * Size(c).b * Size(c).y * Size(c).x

(* compile_layout, whose steps are those of module Layout.                 *)
LayoutOk(c) == /\ \A a \in Axes : Size(c)[a] > 0
               /\ {"b", "y", "x"} \subseteq ToSet(c.order)
               /\ "n" \in ToSet(c.order) \/ Len(c.picks) = 1
               /\ Elements(c) <= I64Max

(* The axis z runs faster than the axis a.                                 *)
Inside(c, a, z) ==
  \E p, q \in DOMAIN c.order : p < q /\ c.order[p] = a /\ c.order[q] = z

Stride(c, a) ==
  LET Factor(z) == IF Inside(c, a, z) THEN Size(c)[z] ELSE 1
  IN  IF a \in ToSet(c.order) THEN Factor("n") * Factor("b") * Factor("y") * Factor("x") ELSE 0

(* slip: the product is formed in size_t without the overflow check.       *)
BufferSufficesWrapped(c) == c.dst_size >= U64(Elements(c) * c.images[1].bps)

(* checked_read_size and the test of dst_size.                             *)
BufferSuffices(c) ==
  /\ Elements(c) * c.images[1].bps <= U64Max
  /\ c.dst_size >= Elements(c) * c.images[1].bps

(* What read_stack demands of an image.                                    *)
Alike(h, ref) == h = ref

PicksOk(c) == \A p \in ToSet(c.picks) : p \in 1..Len(c.images)

(* validate_request.                                                       *)
RequestOk(h, c) ==
  /\ c.bands # <<>> /\ \A b \in ToSet(c.bands) : b \in 1..h.spp
  /\ c.x_off >= 0 /\ c.x_size > 0 /\ c.x_off + c.x_size <= h.width
  /\ c.y_off >= 0 /\ c.y_size > 0 /\ c.y_off + c.y_size <= h.length

RDInit ==
  /\ PLInit
  /\ rpc = "idle" /\ call = NoCall /\ k = 1 /\ outcome = "none"

Finish(why) == rpc' = "done" /\ outcome' = why

ReadBegin(c) ==
  /\ rpc = "idle" /\ phase = "none"
  /\ call' = c
  /\ CASE ~(LayoutOk(c) /\ BufferSuffices(c)) -> Finish("invalid")
       [] LayoutOk(c) /\ BufferSuffices(c) ->
            IF PicksOk(c) /\ \A h \in ToSet(c.images) : Alike(h, c.images[1])
            THEN rpc' = "open" /\ UNCHANGED outcome
            ELSE Finish("io")
  /\ UNCHANGED <<k, plVars>>

-----------------------------------------------------------------------------
(* read_window.                                                            *)

Image == call.images[call.picks[k]]

(* VSIFOpenL fails, or the handle has no PRead; or the plan does not fit   *)
(* memory, which capi_call makes an error of the call.                     *)
OpenFails == /\ rpc = "open" /\ Finish("io")
             /\ UNCHANGED <<call, k, plVars>>

(* What read_window hands to build_plan: strides in elements become bytes. *)
WindowJob ==
  LET bps == Image.bps
  IN  [file |-> call.picks[k], h |-> Image, bands |-> call.bands,
       x_off |-> call.x_off, y_off |-> call.y_off, x_size |-> call.x_size, y_size |-> call.y_size,
       data |-> (k - 1) * Stride(call, "n") * call.images[1].bps,
       pixel |-> Stride(call, "x") * bps, line |-> Stride(call, "y") * bps,
       band |-> Stride(call, "b") * bps]

Open ==
  /\ rpc = "open"
  /\ IF RequestOk(Image, call)
     THEN BuildPlan(WindowJob) /\ rpc' = "work" /\ UNCHANGED outcome
     ELSE Finish("io") /\ UNCHANGED plVars
  /\ UNCHANGED <<call, k>>

(* Executor::run has returned: the next image, or the end of the call.     *)
RunEnd ==
  /\ rpc = "work" /\ RunReturns
  /\ CASE bad -> Finish("io") /\ UNCHANGED k
       [] ~bad /\ k = Len(call.picks) -> Finish("ok") /\ UNCHANGED k
       [] ~bad /\ k < Len(call.picks) -> rpc' = "open" /\ k' = k + 1 /\ UNCHANGED outcome
  /\ UNCHANGED <<call, dst>>

(* The caller is done with its buffer.                                     *)
ReadReturn ==
  /\ rpc = "done"
  /\ rpc' = "idle" /\ call' = NoCall /\ k' = 1 /\ outcome' = "none"
  /\ dst' = <<>>
  /\ UNCHANGED <<planVars, next, cur, stage, scratch, bad>>

ReadStep ==
  \/ rpc = "idle" /\ \E c \in Calls : ReadBegin(c)
  \/ OpenFails \/ Open \/ RunEnd \/ ReadReturn

RDNext ==
  \/ ReadStep
  \/ rpc = "work" /\ PlanStep /\ UNCHANGED readVars

RDSpec == RDInit /\ [][RDNext]_rdVars

-----------------------------------------------------------------------------
(* Whatever the pattern, the window, the stack and the sample types, every *)
(* byte written is inside the buffer the caller handed over.               *)
WritesInside ==
  rpc # "idle" =>
    \A o \in DOMAIN dst : o >= 0 /\ o + call.images[call.picks[k]].bps <= call.dst_size

(* The requested elements in output order: e comes before f.               *)
Requested(c) ==
  [n : 1..Len(c.picks), b : 1..Len(c.bands), y : 0..(c.y_size - 1), x : 0..(c.x_size - 1)]
Precedes(c, e, f) ==
  \E p \in DOMAIN c.order :
    /\ e[c.order[p]] < f[c.order[p]]
    /\ \A q \in 1..(p - 1) : e[c.order[q]] = f[c.order[q]]

(* The sample of the images that element e asks for.                       *)
SampleOf(c, e) == SampleAt(c.picks[e.n], c.images[c.picks[e.n]], c.bands[e.b],
                           c.y_off + e.y, c.x_off + e.x)

(* A read that reports success has put every requested sample, decoded,    *)
(* where the pattern places it, and has written nothing else.              *)
ReadComplete ==
  outcome = "ok" =>
    LET Place(e) == call.images[1].bps
                    * Cardinality({f \in Requested(call) : Precedes(call, f, e)})
    IN  /\ DOMAIN dst = {Place(e) : e \in Requested(call)}
        /\ \A e \in Requested(call) : dst[Place(e)] = SampleOf(call, e)
=============================================================================
