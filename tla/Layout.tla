------------------------------- MODULE Layout -------------------------------
(***************************************************************************)
(* compile_layout (core/src/pattern.cpp): from a pattern such as "(n b) y  *)
(* x" and the extents of a read to the stride of every axis in the output  *)
(* buffer.  The pattern is read one character at a time; which character   *)
(* comes next is the caller's choice, so that every pattern, right or      *)
(* wrong, is read.                                                         *)
(***************************************************************************)
EXTENDS Integers, SequencesExt

CONSTANTS
  I64Max,    (* the largest int64                                          *)
  Extents    (* the extents <<n, b, y, x>> a caller may pass               *)

ASSUME LayoutAssumption ==
  /\ I64Max \in Nat \ {0}
  /\ Extents \subseteq Int \X Int \X Int \X Int
  /\ \A e \in Extents : e[1] <= I64Max /\ e[2] <= I64Max /\ e[3] <= I64Max /\ e[4] <= I64Max

Axes == {"n", "b", "y", "x"}

VARIABLES
  lpc,       (* "idle", "scan", "strides" or "done"                        *)
  extent,    (* size: the extent of each axis                              *)
  groups,    (* the output axes read so far, each a sequence of axes       *)
  cur,       (* the group inside the parentheses                           *)
  in_paren,
  seen,
  left,      (* how many axes have no stride yet, from the first one on    *)
  run,
  stride,
  outcome    (* "none", "ok" or why the pattern was refused                *)

loVars == <<lpc, extent, groups, cur, in_paren, seen, left, run, stride, outcome>>

(* The product of f over the axes of the sequence o.                       *)
Product(f, o) ==
  LET product[k \in 0..Len(o)] == IF k = 0 THEN 1 ELSE product[k - 1] * f[o[k]]
  IN  product[Len(o)]

(* The axes in output order.                                               *)
Flat == FlattenSeq(groups)

-----------------------------------------------------------------------------
LOInit ==
  /\ lpc = "idle" /\ extent = [a \in Axes |-> 1]
  /\ groups = <<>> /\ cur = <<>> /\ in_paren = FALSE /\ seen = {}
  /\ left = 0 /\ run = 1 /\ stride = [a \in Axes |-> 0]
  /\ outcome = "none"

Reject(why) == /\ lpc' = "done" /\ outcome' = why
               /\ UNCHANGED <<extent, groups, cur, in_paren, seen, left, run, stride>>

LayoutBegin ==
  /\ lpc = "idle"
  /\ \E e \in Extents :
       LET size == [n |-> e[1], b |-> e[2], y |-> e[3], x |-> e[4]]
       IN  IF \E a \in Axes : size[a] <= 0
           THEN Reject("extents")
           ELSE /\ lpc' = "scan" /\ extent' = size
                /\ UNCHANGED <<groups, cur, in_paren, seen, left, run, stride, outcome>>

(* One character of the pattern; a space changes nothing.                  *)
Open ==
  /\ lpc = "scan"
  /\ IF in_paren THEN Reject("pattern")
     ELSE /\ in_paren' = TRUE /\ cur' = <<>>
          /\ UNCHANGED <<lpc, extent, groups, seen, left, run, stride, outcome>>

Close ==
  /\ lpc = "scan"
  /\ IF ~in_paren \/ cur = <<>> THEN Reject("pattern")
     ELSE /\ groups' = Append(groups, cur) /\ in_paren' = FALSE
          /\ UNCHANGED <<lpc, extent, cur, seen, left, run, stride, outcome>>

(* slip: an axis may come back.                                            *)
AxisAgain(a) ==
  /\ lpc = "scan"
  /\ seen' = seen \cup {a}
  /\ IF in_paren THEN cur' = Append(cur, a) /\ UNCHANGED groups
                 ELSE groups' = Append(groups, <<a>>) /\ UNCHANGED cur
  /\ UNCHANGED <<lpc, extent, in_paren, left, run, stride, outcome>>

Axis(a) ==
  /\ lpc = "scan"
  /\ IF a \in seen THEN Reject("pattern")
     ELSE /\ seen' = seen \cup {a}
          /\ IF in_paren THEN cur' = Append(cur, a) /\ UNCHANGED groups
                         ELSE groups' = Append(groups, <<a>>) /\ UNCHANGED cur
          /\ UNCHANGED <<lpc, extent, in_paren, left, run, stride, outcome>>

Unknown == lpc = "scan" /\ Reject("pattern")

(* The pattern has ended: its axes are {b, y, x} or {n, b, y, x}.          *)
EndScan ==
  /\ lpc = "scan"
  /\ IF \/ in_paren
        \/ ~({"b", "y", "x"} \subseteq seen)
        \/ "n" \notin seen /\ extent["n"] > 1
     THEN Reject("pattern")
     ELSE /\ lpc' = "strides" /\ left' = Len(Flat)
          /\ UNCHANGED <<extent, groups, cur, in_paren, seen, run, stride, outcome>>

-----------------------------------------------------------------------------
(* The strides, right to left.                                             *)

(* slip: the stride is taken after the extent has been multiplied in.      *)
StrideLate(a) == run * extent[a]

StrideOf(a) == run

(* slip: the strides are dealt left to right.                              *)
TakeFirst == Flat[Len(Flat) + 1 - left]

TakeLast == Flat[left]

(* slip: a buffer of exactly the largest int64 is refused.                 *)
TooLargeByOne(a) == run >= I64Max \div extent[a]

TooLarge(a) == run > I64Max \div extent[a]

StrideStep ==
  /\ lpc = "strides" /\ left > 0
  /\ LET a == TakeLast
     IN  /\ stride' = [stride EXCEPT ![a] = StrideOf(a)]
         /\ IF TooLarge(a)
            THEN lpc' = "done" /\ outcome' = "overflow" /\ UNCHANGED <<left, run>>
            ELSE /\ run' = run * extent[a]
                 /\ left' = left - 1
                 /\ UNCHANGED <<lpc, outcome>>
  /\ UNCHANGED <<extent, groups, cur, in_paren, seen>>

LayoutEnd ==
  /\ lpc = "strides" /\ left = 0
  /\ lpc' = "done" /\ outcome' = "ok"
  /\ UNCHANGED <<extent, groups, cur, in_paren, seen, left, run, stride>>

(* plan.shape, and plan.native.                                            *)
Shape == [g \in DOMAIN groups |-> Product(extent, groups[g])]

(* slip: any order with x innermost counts as canonical.                   *)
NativeLoose == Flat[Len(Flat)] = "x"

Canonical == <<"n", "b", "y", "x">>

Native == Flat = IF "n" \in seen THEN Canonical ELSE Tail(Canonical)

(* The caller has taken the plan.                                          *)
LayoutReturn ==
  /\ lpc = "done"
  /\ lpc' = "idle" /\ extent' = [a \in Axes |-> 1]
  /\ groups' = <<>> /\ cur' = <<>> /\ in_paren' = FALSE /\ seen' = {}
  /\ left' = 0 /\ run' = 1 /\ stride' = [a \in Axes |-> 0]
  /\ outcome' = "none"

LONext == \/ LayoutBegin \/ Open \/ Close \/ Unknown \/ EndScan
          \/ \E a \in Axes : Axis(a)
          \/ StrideStep \/ LayoutEnd \/ LayoutReturn

LOSpec == LOInit /\ [][LONext]_loVars

-----------------------------------------------------------------------------
LOTypeOK ==
  /\ lpc \in {"idle", "scan", "strides", "done"}
  /\ extent \in [Axes -> 1..I64Max] /\ stride \in [Axes -> 0..I64Max]
  /\ run \in 1..I64Max /\ seen \subseteq Axes /\ in_paren \in BOOLEAN
  /\ groups \in Seq(Seq(Axes) \ {<<>>}) /\ cur \in Seq(Axes) /\ left \in 0..Len(Flat)

(* Whatever the parentheses did, every axis read so far is in exactly one  *)
(* place: a group, or the group being read.                                *)
AxesOnce ==
  LET read == Flat \o (IF in_paren THEN cur ELSE <<>>)
  IN  IsInjective(read) /\ ToSet(read) = seen

(* The elements of the read, each by its position on every axis.           *)
Box == [n : 0..(extent["n"] - 1), b : 0..(extent["b"] - 1),
        y : 0..(extent["y"] - 1), x : 0..(extent["x"] - 1)]
Offset(i) == i["n"] * stride["n"] + i["b"] * stride["b"]
             + i["y"] * stride["y"] + i["x"] * stride["x"]

(* Row-major position of the coordinates c in the extents s, both over     *)
(* the axes of the sequence o.                                             *)
RowMajor(c, s, o) ==
  LET rank[k \in 0..Len(o)] == IF k = 0 THEN 0 ELSE rank[k - 1] * s[o[k]] + c[o[k]]
  IN  rank[Len(o)]

(* An accepted layout gives every element of the read a place of its own   *)
(* in a buffer with room for exactly these elements.                       *)
LayoutDense ==
  outcome = "ok" =>
    LET total == Product(extent, Canonical)
    IN  /\ total <= I64Max
        /\ {Offset(i) : i \in Box} = 0..(total - 1)

(* The strides are those of an array of the promised shape: the groups are *)
(* its axes, and the axes inside a group make one axis, the last fastest.  *)
ShapeAgrees ==
  outcome = "ok" =>
    \A i \in Box :
      LET place == [g \in DOMAIN groups |-> RowMajor(i, extent, groups[g])]
      IN  Offset(i) = RowMajor(place, Shape, [g \in DOMAIN groups |-> g])

(* A layout called native needs no copy to be read as (n) b y x.           *)
NativeIsCanonical ==
  outcome = "ok" /\ Native =>
    \A i \in Box : Offset(i) = RowMajor(i, extent, Canonical)

(* A read is refused for its size only when int64 cannot count it.         *)
OverflowIsReal == outcome = "overflow" => Product(extent, Canonical) > I64Max
=============================================================================
