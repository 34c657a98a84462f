----------------------------- MODULE CurlPgRead -----------------------------
(***************************************************************************)
(* The page loop of CurlPgReadOp::Success (src/src/CurlOps.cc): the bytes *)
(* m_buffer[0 .. m_written) are cut into pages of XrdSys::PageSize and one *)
(* CRC32C is computed per page.  A checksum is modelled by the byte range  *)
(* it covers, <<first byte, length>>, which is what the caller relies on   *)
(* when it verifies page i against bytes [i * PageSize, ...).              *)
(***************************************************************************)
EXTENDS Naturals, Sequences

CONSTANTS
    PageSize,   \* XrdSys::PageSize
    MaxWritten  \* largest m_written a read can reach (its requested length)

ASSUME PgAssumption == PageSize \in Nat \ {0} /\ MaxWritten \in Nat

VARIABLES
    written,    \* m_written
    nbpages,    \* nbpages
    pg,         \* the loop index
    cursor,     \* buffer - m_buffer
    size,       \* size: bytes not yet checksummed
    cksums      \* cksums: the ranges checksummed so far

vars == <<written, nbpages, pg, cursor, size, cksums>>

MinNat(a, b) == IF a < b THEN a ELSE b

\* Mutant: the partial last page forgotten.
PageCountNoRemainder(w) == w \div PageSize

\* nbpages = m_written / PageSize, plus one for a partial last page.
PageCount(w) == w \div PageSize + (IF w % PageSize # 0 THEN 1 ELSE 0)

\* Success has copied m_written bytes; the checksum vector is empty.
Init ==
    /\ written \in 0..MaxWritten
    /\ nbpages = PageCount(written)
    /\ pg = 0
    /\ cursor = 0
    /\ size = written
    /\ cksums = <<>>

\* One iteration: pgsize = min(PageSize, size), checksum it, advance.
Page ==
    /\ pg < nbpages
    /\ LET pgsize == MinNat(PageSize, size) IN
        /\ cksums' = Append(cksums, <<cursor, pgsize>>)
        /\ cursor' = cursor + pgsize
        /\ size' = size - pgsize
    /\ pg' = pg + 1
    /\ UNCHANGED <<written, nbpages>>

\* The loop ends once pg reaches nbpages.
Next == Page

Spec == Init /\ [][Next]_vars

-----------------------------------------------------------------------------

\* The reference partition: page i (from 1) covers the bytes from
\* (i - 1) * PageSize up to the next page boundary or the end of the data.
ReferencePages(w) ==
    [i \in 1..((w + PageSize - 1) \div PageSize) |->
        <<(i - 1) * PageSize, MinNat(PageSize, w - (i - 1) * PageSize)>>]

\* The shape of every variable.
TypeOK ==
    /\ written \in 0..MaxWritten
    /\ nbpages \in Nat
    /\ pg \in Nat
    /\ cursor \in Nat
    /\ size \in Nat
    /\ cksums \in Seq(Nat \X Nat)

\* The PgRead contract: when the loop ends the caller receives exactly one
\* checksum per page of the data it read, each over the bytes of that page
\* and never past m_written, including a zero-length read (no page) and a
\* read whose length is not a multiple of the page size.
PagesMatchReference == pg = nbpages => cksums = ReferencePages(written)
=============================================================================
