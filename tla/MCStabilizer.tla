---------------------------- MODULE MCStabilizer ----------------------------
(***************************************************************************)
(* Small instances of Stabilizer.  With Divisor = 2 a window of 4 has      *)
(* buckets of width 2, so recommendations merge, buckets straddle the      *)
(* window's edge and three of them can intersect it.                       *)
(***************************************************************************)
EXTENDS Stabilizer

Both == [phpa |-> 1, target |-> 1]

OneIdentity     == {Both}
ThreeIdentities == {Both, [Both EXCEPT !.phpa = 2], [Both EXCEPT !.target = 2]}
OneBound        == {<<1, 3>>}
TwoBounds       == {<<0, 3>>, <<2, 2>>}
NoSteps         == {}
SetBack         == {-2}
=============================================================================
