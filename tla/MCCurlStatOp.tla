---------------------------- MODULE MCCurlStatOp ----------------------------
(***************************************************************************)
(* The stat, open and listdir model for TLC: sizes 0 and 2, bodies of up   *)
(* to three units against caps of two units, so that a body fits a cap    *)
(* exactly, overflows it, or is pushed over it by a redirect page.         *)
(***************************************************************************)
EXTENDS CurlStatOp

MCLengths == {0, 2}

=============================================================================
