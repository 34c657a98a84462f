------------------------- MODULE CurlPgReadProofs --------------------------
(***************************************************************************)
(* The page loop of CurlPgReadOp::Success partitions the data correctly    *)
(* for every page size and every length.                                   *)
(***************************************************************************)
EXTENDS CurlPgRead, TLAPS

USE PgAssumption

\* The loop invariant: after pg iterations the first pg pages are
\* checksummed, the cursor stands at the end of the last one, and while the
\* loop runs the next page starts inside the data.
PgInv ==
    /\ written \in 0..MaxWritten
    /\ nbpages = PageCount(written)
    /\ pg \in 0..nbpages
    /\ cursor = MinNat(pg * PageSize, written)
    /\ size = written - cursor
    /\ cksums = [i \in 1..pg |-> <<(i - 1) * PageSize,
                                   MinNat(PageSize, written - (i - 1) * PageSize)>>]

\* Division facts: the page count is the rounded-up quotient, and every page
\* the loop starts begins before the end of the data.
LEMMA PageCountFacts ==
    ASSUME NEW w \in Nat
    PROVE  /\ PageCount(w) = (w + PageSize - 1) \div PageSize
           /\ PageCount(w) \in Nat
           /\ \A k \in 0..PageCount(w) - 1 : k * PageSize < w
           /\ PageCount(w) * PageSize >= w
<1> DEFINE q == w \div PageSize
           r == w % PageSize
<1>1. w = q * PageSize + r /\ q \in Nat /\ r \in 0..PageSize - 1
  OBVIOUS
<1>2. CASE r = 0
  <2>1. PageCount(w) = q
    BY <1>2 DEF PageCount
  <2>2. (w + PageSize - 1) \div PageSize = q
    BY <1>1, <1>2
  <2>3. \A k \in 0..q - 1 : k * PageSize < w
    BY <1>1, <1>2
  <2>4. QED
    BY <1>1, <1>2, <2>1, <2>2, <2>3
<1>3. CASE r # 0
  <2>1. PageCount(w) = q + 1
    BY <1>3 DEF PageCount
  <2>2. (w + PageSize - 1) \div PageSize = q + 1
    BY <1>1, <1>3
  <2>3. \A k \in 0..q : k * PageSize < w
    BY <1>1, <1>3
  <2>4. QED
    BY <1>1, <1>3, <2>1, <2>2, <2>3
<1>4. QED
  BY <1>2, <1>3

\* Taking one more page from a cursor inside the data.
LEMMA MinStep ==
    ASSUME NEW k \in Nat, NEW w \in Nat, k < w
    PROVE  k + MinNat(PageSize, w - k) = MinNat(k + PageSize, w)
BY DEF MinNat

LEMMA InitPgInv == Init => PgInv
<1> SUFFICES ASSUME Init PROVE PgInv
  OBVIOUS
<1>1. PageCount(written) \in Nat
  BY PageCountFacts DEF Init
<1>2. QED
  BY <1>1 DEF Init, PgInv, MinNat

LEMMA PagePgInv == PgInv /\ Page => PgInv'
<1> SUFFICES ASSUME PgInv, Page PROVE PgInv'
  OBVIOUS
<1>1. /\ written \in Nat /\ nbpages = PageCount(written)
      /\ PageCount(written) \in Nat
      /\ pg \in 0..PageCount(written) - 1
  <2>1. written \in Nat /\ nbpages = PageCount(written) /\ pg \in 0..nbpages
    BY DEF PgInv
  <2>2. pg < nbpages
    BY DEF Page
  <2>3. PageCount(written) \in Nat
    BY <2>1, PageCountFacts
  <2>4. QED
    BY <2>1, <2>2, <2>3
<1>2. pg * PageSize < written /\ pg \in Nat /\ pg * PageSize \in Nat
  BY <1>1, PageCountFacts
<1>3. cursor = pg * PageSize /\ size = written - pg * PageSize
  BY <1>2 DEF PgInv, MinNat
<1> DEFINE pgsize == MinNat(PageSize, written - pg * PageSize)
<1>4. /\ cksums' = Append(cksums, <<cursor, MinNat(PageSize, size)>>)
      /\ cursor' = cursor + MinNat(PageSize, size)
      /\ size' = size - MinNat(PageSize, size)
      /\ pg' = pg + 1
      /\ UNCHANGED <<written, nbpages>>
  BY DEF Page
<1>5. (pg + 1) * PageSize = pg * PageSize + PageSize
  BY <1>2
<1>6. pg * PageSize + pgsize = MinNat((pg + 1) * PageSize, written)
  BY <1>1, <1>2, <1>5, MinStep DEF pgsize
<1>7. /\ cksums' = Append(cksums, <<pg * PageSize, pgsize>>)
      /\ cursor' = MinNat((pg + 1) * PageSize, written)
      /\ size' = written - cursor'
  <2>1. MinNat(PageSize, size) = pgsize
    BY <1>3 DEF pgsize
  <2>2. cksums' = Append(cksums, <<pg * PageSize, pgsize>>)
    BY <1>3, <1>4, <2>1
  <2>3. cursor' = pg * PageSize + pgsize
    BY <1>3, <1>4, <2>1
  <2>4. pgsize \in Nat
    BY <1>1, <1>2 DEF pgsize, MinNat
  <2>5. size' = written - cursor'
    BY <1>1, <1>2, <1>3, <1>4, <2>1, <2>3, <2>4
  <2>6. QED
    BY <1>6, <2>2, <2>3, <2>5
<1>8. cksums' = [i \in 1..pg + 1 |-> <<(i - 1) * PageSize,
                                      MinNat(PageSize, written - (i - 1) * PageSize)>>]
  BY <1>2, <1>7 DEF PgInv
<1>9. pg + 1 \in 0..nbpages
  BY <1>1
<1>10. QED
  BY <1>1, <1>4, <1>7, <1>8, <1>9 DEF PgInv

LEMMA NextPgInv == PgInv /\ [Next]_vars => PgInv'
BY PagePgInv DEF Next, vars, PgInv

\* For every page size and every length the loop of CurlPgReadOp::Success
\* hands the caller one checksum per page, each over exactly that page.
THEOREM PagesMatchReferenceProved == Spec => []PagesMatchReference
<1>1. PgInv => PagesMatchReference
  BY PageCountFacts DEF PgInv, PagesMatchReference, ReferencePages
<1>2. QED
  BY <1>1, InitPgInv, NextPgInv, PTL DEF Spec

=============================================================================
