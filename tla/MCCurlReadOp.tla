---------------------------- MODULE MCCurlReadOp ----------------------------
(* Small instances of CurlReadOp for TLC. *)
EXTENDS CurlReadOp

MCOffsets == {0, 1}
MCFds == {3, 4, 5}

=============================================================================
