----------------------------- MODULE MCFraming -----------------------------
(***************************************************************************)
(* Model checking of Framing: every stream of one or two of the pieces     *)
(* below, cut in every way.  The largest package is 6 bytes, so the pieces *)
(* hold the shortest package and the longest, and as bad lengths one too   *)
(* short, zero, one too long, one that only the third byte makes too long, *)
(* and one that is negative as an int; a piece that is cut short ends the  *)
(* stream in the middle of a package or of a header.                       *)
(***************************************************************************)
EXTENDS Framing

Pieces == { <<0, 0, 0, 4>>, <<0, 0, 0, 6, 7, 9>>,
            <<0, 0, 0, 3>>, <<0, 0, 0, 0>>, <<0, 0, 0, 7, 1, 1, 1>>,
            <<0, 0, 1, 4>>, <<128, 0, 0, 4>>,
            <<0, 0, 0, 6, 0>>, <<0, 0>> }

MCStreams ==
  { FlattenSeq(s) : s \in UNION { [1 .. n -> Pieces] : n \in 1 .. 2 } }
=============================================================================
