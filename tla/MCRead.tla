------------------------------- MODULE MCRead -------------------------------
(***************************************************************************)
(* Calls for TLC.  An image of two tiles by two, cut at both edges, with   *)
(* two bands, is read through every kind of window and in several layouts; *)
(* a stack of two images; and calls that end in a refusal.                 *)
(***************************************************************************)
EXTENDS Read

Two == [width |-> 3, length |-> 3, tw |-> 2, tl |-> 2, bps |-> 1, spp |-> 2, predictor |-> 2]
Strip == [width |-> 3, length |-> 1, tw |-> 2, tl |-> 1, bps |-> 2, spp |-> 1, predictor |-> 1]
Wide == [Two EXCEPT !.bps = 8]

One(h, bands, order, y, x, room) ==
  [images |-> <<h>>, picks |-> <<1>>, bands |-> bands, order |-> order,
   y_off |-> y[1], y_size |-> y[2], x_off |-> x[1], x_size |-> x[2], dst_size |-> room]

Stack(images, picks, order, room) ==
  [images |-> images, picks |-> picks, bands |-> <<1>>, order |-> order,
   y_off |-> 0, y_size |-> 1, x_off |-> 1, x_size |-> 2, dst_size |-> room]

Spans == {<<0, 3>>, <<0, 2>>, <<1, 2>>, <<2, 1>>}

Windows ==
  {One(Two, <<1>>, o, y, x, y[2] * x[2]) : o \in {<<"b", "y", "x">>, <<"x", "b", "y">>},
                                           y \in Spans, x \in Spans}
  \cup {One(Two, bs, o, y, x, 18) : bs \in {<<2, 1>>, <<1, 1>>},
          o \in {<<"b", "y", "x">>, <<"y", "x", "b">>}, y \in {<<1, 1>>, <<0, 2>>}, x \in {<<0, 2>>, <<1, 2>>}}

Stacks ==
  {Stack(<<Strip, Strip>>, p, o, 8) : p \in {<<1, 2>>, <<2, 1>>, <<2>>, <<2, 2>>, <<1, 3>>},
     o \in {<<"n", "b", "y", "x">>, <<"x", "n", "y", "b">>, <<"b", "y", "x">>}}
  \cup {Stack(<<Strip, [Strip EXCEPT !.bps = 4]>>, <<1, 2>>, <<"n", "b", "y", "x">>, 8)}

(* A size beyond int64, one beyond size_t, a buffer too small, a band and  *)
(* windows out of range.                                                   *)
Refusals ==
  {One(Two, <<1, 2, 1, 2>>, <<"b", "y", "x">>, <<0, 3>>, <<0, 3>>, 60),
   One(Wide, <<1>>, <<"b", "y", "x">>, <<0, 3>>, <<0, 3>>, 8),
   One(Two, <<1>>, <<"b", "y", "x">>, <<0, 3>>, <<0, 3>>, 8),
   One(Two, <<3>>, <<"b", "y", "x">>, <<0, 1>>, <<0, 1>>, 8),
   One(Two, <<1>>, <<"b", "y", "x">>, <<2, 2>>, <<0, 1>>, 8),
   One(Two, <<1>>, <<"b", "y", "x">>, <<0, 1>>, <<-1, 1>>, 8)}

MCCalls == Windows \cup Stacks \cup Refusals

(* The last tile of a row begins below the largest int and ends above it.  *)
EdgeCalls == {One([Strip EXCEPT !.width = 7, !.tw = 4], <<1>>, <<"b", "y", "x">>, <<0, 1>>, x, 14)
                : x \in {<<0, 4>>, <<3, 2>>, <<4, 3>>, <<0, 7>>}}
=============================================================================
