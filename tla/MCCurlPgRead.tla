---------------------------- MODULE MCCurlPgRead ----------------------------
(* A page of 4 bytes and reads of up to nine pages and a bit.             *)
EXTENDS CurlPgRead

MCPageSize == 4
MCMaxWritten == 37
=============================================================================
