-------------------------- MODULE MCCurlHandlePool --------------------------
(* One operation of each class sharing the pool.                           *)
EXTENDS CurlHandlePool, TLC

CONSTANTS st, opn, rd, ls, h1, h2

MCOps == {st, opn, rd, ls}
MCKind == (st :> "stat") @@ (opn :> "open") @@ (rd :> "read") @@ (ls :> "listdir")
=============================================================================
