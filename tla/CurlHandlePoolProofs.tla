------------------------ MODULE CurlHandlePoolProofs ------------------------
(***************************************************************************)
(* Proofs about the handle pool, for any set of operations of any classes  *)
(* and any number of handles.                                              *)
(***************************************************************************)
EXTENDS CurlHandlePool, TLAPS

USE PoolAssumption

\* A handle back in the pool carries no request-shaping option.
PoolClean ==
    \A h \in Handles : owner[h] = NoOp =>
        /\ customReq[h] = "none"
        /\ ~noBody[h]
        /\ httpHeader[h] = NoOp
        /\ ~sslCert[h]

\* Only a read and a listing attach a header list of their own.
HeaderOwners ==
    \A h \in Handles : httpHeader[h] # NoOp => Kind[httpHeader[h]] \in {"read", "listdir"}

\* Each running operation holds exactly one handle and only running
\* operations hold one.
Ownership ==
    /\ \A h \in Handles : owner[h] # NoOp => phase[owner[h]] = "running"
    /\ \A o \in Ops : phase[o] = "running" => \E h \in Handles : owner[h] = o
    /\ \A h, g \in Handles : owner[h] = owner[g] /\ owner[h] # NoOp => h = g

\* RequestShapeOwn is not inductive: ReleaseHandle keeps what the variant
\* does not clear, so it needs the pool clean, and it needs to know that the
\* handle released is the one the operation holds.
IInv == TypeOK /\ Ownership /\ PoolClean /\ HeaderOwners /\ RequestShapeOwn

LEMMA HandleOfOwned ==
    ASSUME Ownership, NEW o \in Ops, phase[o] = "running"
    PROVE  HandleOf(o) \in Handles /\ owner[HandleOf(o)] = o
BY DEF Ownership, HandleOf

LEMMA InitIInv == Init => IInv
BY DEF Init, IInv, TypeOK, Ownership, PoolClean, HeaderOwners, RequestShapeOwn

LEMMA SetupIInv ==
    ASSUME IInv, NEW o \in Ops, NEW h \in Handles, Setup(o, h)
    PROVE  IInv'
<1> USE DEF IsStat, Kinds
<1>1. PICK useX509 \in BOOLEAN, broker \in BOOLEAN : BaseSetup(o, h, useX509, broker)
  BY DEF Setup, StatSetup, ReadSetup, ListdirSetup
<1>2. /\ owner' = [owner EXCEPT ![h] = o]
      /\ writeData' = [writeData EXCEPT ![h] = o]
      /\ sslCert' = [sslCert EXCEPT ![h] = sslCert[h] \/ useX509]
      /\ sockData' \in [Handles -> Ops \cup {NoOp}]
      /\ x509' = [x509 EXCEPT ![o] = useX509]
      /\ phase' = [phase EXCEPT ![o] = "running"]
  BY <1>1 DEF BaseSetup, Setup, StatSetup, ReadSetup, ListdirSetup, IInv, TypeOK
<1>3. /\ phase[o] = "new" /\ owner[h] = NoOp
      /\ \A g \in Handles : owner[g] # o
  BY DEF Setup, StatSetup, ReadSetup, ListdirSetup, IInv, Ownership
<1>4. CASE IsStat(o)
  <2>1. PICK p \in BOOLEAN :
          /\ propfind' = [propfind EXCEPT ![o] = p]
          /\ customReq' = IF p THEN [customReq EXCEPT ![h] = "PROPFIND"] ELSE customReq
          /\ UNCHANGED <<httpHeader, noBody>>
    BY <1>4 DEF Setup, StatSetup, ReadSetup, ListdirSetup
  <2>2. QED
    BY <1>2, <1>3, <1>4, <2>1
    DEF IInv, TypeOK, Ownership, PoolClean, HeaderOwners, RequestShapeOwn
<1>5. CASE Kind[o] = "read"
  <2>1. /\ \/ httpHeader' = httpHeader
           \/ httpHeader' = [httpHeader EXCEPT ![h] = o]
        /\ UNCHANGED <<customReq, noBody, propfind>>
    BY <1>5 DEF Setup, StatSetup, ReadSetup, ListdirSetup
  <2>2. CASE httpHeader' = httpHeader
    BY <1>2, <1>3, <1>5, <2>1, <2>2
    DEF IInv, TypeOK, Ownership, PoolClean, HeaderOwners, RequestShapeOwn
  <2>3. CASE httpHeader' = [httpHeader EXCEPT ![h] = o]
    BY <1>2, <1>3, <1>5, <2>1, <2>3
    DEF IInv, TypeOK, Ownership, PoolClean, HeaderOwners, RequestShapeOwn
  <2>4. QED
    BY <2>1, <2>2, <2>3
<1>6. CASE Kind[o] = "listdir"
  <2>1. /\ customReq' = [customReq EXCEPT ![h] = "PROPFIND"]
        /\ httpHeader' = [httpHeader EXCEPT ![h] = o]
        /\ UNCHANGED <<noBody, propfind>>
    BY <1>6 DEF Setup, StatSetup, ReadSetup, ListdirSetup
  <2>2. QED
    BY <1>2, <1>3, <1>6, <2>1
    DEF IInv, TypeOK, Ownership, PoolClean, HeaderOwners, RequestShapeOwn
<1>7. QED
  BY <1>4, <1>5, <1>6

LEMMA RedirectIInv ==
    ASSUME IInv, NEW o \in Ops, Redirect(o)
    PROVE  IInv'
<1> USE DEF IsStat, Kinds
<1> DEFINE h == HandleOf(o)
<1>1. h \in Handles /\ owner[h] = o /\ phase[o] = "running"
  BY HandleOfOwned DEF Redirect, IInv
<1>2. PICK askX509 \in BOOLEAN, hint \in BOOLEAN :
        /\ sslCert' = [sslCert EXCEPT ![h] = sslCert[h] \/ askX509]
        /\ x509' = [x509 EXCEPT ![o] = x509[o] \/ askX509]
        /\ sockData' = IF hint THEN [sockData EXCEPT ![h] = o] ELSE sockData
        /\ \/ /\ IsStat(o)
              /\ \E pelican \in BOOLEAN :
                  IF pelican
                  THEN /\ customReq' = [customReq EXCEPT ![h] = "PROPFIND"]
                       /\ propfind' = [propfind EXCEPT ![o] = TRUE]
                       /\ UNCHANGED noBody
                  ELSE /\ noBody' = [noBody EXCEPT ![h] = TRUE]
                       /\ UNCHANGED <<customReq, propfind>>
           \/ /\ ~IsStat(o)
              /\ UNCHANGED <<customReq, noBody, propfind>>
  BY DEF Redirect
<1>3. UNCHANGED <<owner, writeData, httpHeader, phase>>
  BY DEF Redirect
<1>4. \A g \in Handles : owner[g] = o => g = h
  BY <1>1 DEF IInv, Ownership
<1>5. CASE IsStat(o) /\ customReq' = [customReq EXCEPT ![h] = "PROPFIND"]
           /\ propfind' = [propfind EXCEPT ![o] = TRUE] /\ UNCHANGED noBody
  BY <1>1, <1>2, <1>3, <1>4, <1>5
  DEF IInv, TypeOK, Ownership, PoolClean, HeaderOwners, RequestShapeOwn
<1>6. CASE IsStat(o) /\ noBody' = [noBody EXCEPT ![h] = TRUE]
           /\ UNCHANGED <<customReq, propfind>>
  BY <1>1, <1>2, <1>3, <1>4, <1>6
  DEF IInv, TypeOK, Ownership, PoolClean, HeaderOwners, RequestShapeOwn
<1>7. CASE ~IsStat(o) /\ UNCHANGED <<customReq, noBody, propfind>>
  BY <1>1, <1>2, <1>3, <1>4, <1>7
  DEF IInv, TypeOK, Ownership, PoolClean, HeaderOwners, RequestShapeOwn
<1>8. QED
  BY <1>2, <1>5, <1>6, <1>7

LEMMA ReleaseIInv ==
    ASSUME IInv, NEW o \in Ops, NEW h \in Handles, ReleaseHandle(o, h)
    PROVE  IInv'
<1> USE DEF IsStat, Kinds
<1>1. owner[h] = o /\ phase[o] = "running"
  BY HandleOfOwned DEF ReleaseHandle, ReadRelease, OpenRelease, ListdirRelease, IInv
<1>2. \A g \in Handles : owner[g] = o => g = h
  BY <1>1 DEF IInv, Ownership
<1>3. /\ phase' = [phase EXCEPT ![o] = "released"]
      /\ UNCHANGED <<propfind, x509>>
      /\ owner' = [owner EXCEPT ![h] = NoOp]
      /\ sslCert' = [sslCert EXCEPT ![h] = FALSE]
  BY DEF ReleaseHandle, ReadRelease, OpenRelease, ListdirRelease, BaseRelease, StatRelease
<1>4. /\ customReq[h] = "PROPFIND" => (IsStat(o) /\ propfind[o]) \/ Kind[o] = "listdir"
      /\ noBody[h] => IsStat(o)
      /\ httpHeader[h] # NoOp => httpHeader[h] = o /\ Kind[o] \in {"read", "listdir"}
  BY <1>1 DEF IInv, RequestShapeOwn, HeaderOwners, TypeOK
<1>5. CASE Kind[o] = "read"
  <2>1. /\ writeData' = [writeData EXCEPT ![h] = NoOp]
        /\ httpHeader' = [httpHeader EXCEPT ![h] = NoOp]
        /\ sockData' = [sockData EXCEPT ![h] = NoOp]
        /\ UNCHANGED <<customReq, noBody>>
    BY <1>5 DEF ReleaseHandle, ReadRelease, OpenRelease, ListdirRelease
  <2>2. QED
    BY <1>1, <1>2, <1>3, <1>4, <1>5, <2>1
    DEF IInv, TypeOK, Ownership, PoolClean, HeaderOwners, RequestShapeOwn
<1>6. CASE Kind[o] = "stat"
  <2>1. /\ noBody' = [noBody EXCEPT ![h] = FALSE]
        /\ customReq' = IF propfind[o] THEN [customReq EXCEPT ![h] = "none"]
                        ELSE customReq
        /\ writeData' = [writeData EXCEPT ![h] = NoOp]
        /\ UNCHANGED <<sockData, httpHeader>>
    BY <1>6 DEF ReleaseHandle, ReadRelease, OpenRelease, ListdirRelease, StatRelease
  <2>2. QED
    BY <1>1, <1>2, <1>3, <1>4, <1>6, <2>1
    DEF IInv, TypeOK, Ownership, PoolClean, HeaderOwners, RequestShapeOwn
<1>7. CASE Kind[o] = "open"
  <2>1. /\ noBody' = [noBody EXCEPT ![h] = FALSE]
        /\ customReq' = IF propfind[o] THEN [customReq EXCEPT ![h] = "none"]
                        ELSE customReq
        /\ writeData' = [writeData EXCEPT ![h] = NoOp]
        /\ sockData' = [sockData EXCEPT ![h] = NoOp]
        /\ UNCHANGED httpHeader
    BY <1>7 DEF ReleaseHandle, ReadRelease, OpenRelease, ListdirRelease, StatRelease
  <2>2. QED
    BY <1>1, <1>2, <1>3, <1>4, <1>7, <2>1
    DEF IInv, TypeOK, Ownership, PoolClean, HeaderOwners, RequestShapeOwn
<1>8. CASE Kind[o] = "listdir"
  <2>1. /\ writeData' = [writeData EXCEPT ![h] = NoOp]
        /\ customReq' = [customReq EXCEPT ![h] = "none"]
        /\ httpHeader' = [httpHeader EXCEPT ![h] = NoOp]
        /\ UNCHANGED <<sockData, noBody>>
    BY <1>8 DEF ReleaseHandle, ReadRelease, OpenRelease, ListdirRelease
  <2>2. QED
    BY <1>1, <1>2, <1>3, <1>4, <1>8, <2>1
    DEF IInv, TypeOK, Ownership, PoolClean, HeaderOwners, RequestShapeOwn
<1>9. QED
  BY <1>5, <1>6, <1>7, <1>8

LEMMA DestroyIInv ==
    ASSUME IInv, NEW o \in Ops, Destroy(o)
    PROVE  IInv'
<1>1. \A h \in Handles : owner[h] # o
  BY DEF Destroy, IInv, Ownership
<1>2. QED
  BY <1>1 DEF Destroy, IInv, TypeOK, Ownership, PoolClean, HeaderOwners,
              RequestShapeOwn

LEMMA NextIInv == IInv /\ [Next]_vars => IInv'
<1> SUFFICES ASSUME IInv, [Next]_vars PROVE IInv'
  OBVIOUS
<1>1. CASE \E o \in Ops, h \in Handles : Setup(o, h)
  BY <1>1, SetupIInv
<1>2. CASE \E o \in Ops, h \in Handles : ReleaseHandle(o, h)
  BY <1>2, ReleaseIInv
<1>3. CASE \E o \in Ops : Redirect(o)
  BY <1>3, RedirectIInv
<1>4. CASE \E o \in Ops : Destroy(o)
  BY <1>4, DestroyIInv
<1>5. CASE Done \/ UNCHANGED vars
  BY <1>5 DEF Done, vars, IInv, TypeOK, Ownership, PoolClean, HeaderOwners,
              RequestShapeOwn
<1>6. QED
  BY <1>1, <1>2, <1>3, <1>4, <1>5 DEF Next

\* Whatever operations of whatever classes have used a handle before, the
\* request an operation sends on it (NOBODY, PROPFIND, its headers, its
\* client certificate) is configured by that operation alone: the
\* ReleaseHandle of every variant undoes the request options its Setup and
\* Redirect set.
THEOREM RequestShapeOwnProved == Spec => []RequestShapeOwn
<1>1. Init => IInv
  BY InitIInv
<1>2. IInv /\ [Next]_vars => IInv'
  BY NextIInv
<1>3. IInv => RequestShapeOwn
  BY DEF IInv
<1>4. QED
  BY <1>1, <1>2, <1>3, PTL DEF Spec

\* The variables keep their types under every step.
THEOREM PoolTypeCorrect == Spec => []TypeOK
<1>1. IInv => TypeOK
  BY DEF IInv
<1>2. QED
  BY <1>1, InitIInv, NextIInv, PTL DEF Spec

=============================================================================
