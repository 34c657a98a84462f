--------------------------- MODULE CurlHandlePool ---------------------------
(***************************************************************************)
(* The curl easy handles that operations borrow from the worker's pool and *)
(* give back through ReleaseHandle (src/src/CurlOps.cc).  Each handle      *)
(* carries the options the operations set on it: the callback data         *)
(* pointers and the options that shape the request.  Setup and Redirect    *)
(* of each variant set them, its ReleaseHandle is meant to undo them, and   *)
(* a handle keeps whatever is not undone for the next operation that takes *)
(* it.  An operation pointer is the operation's name; NoOp is nullptr.     *)
(***************************************************************************)
EXTENDS FiniteSets

CONSTANTS
    Ops,        \* operation objects
    Kind,       \* Kind[o]: which class o is an instance of
    Handles,    \* curl easy handles in the pool
    NoOp        \* nullptr

Kinds == {"stat", "open", "read", "listdir"}

ASSUME PoolAssumption ==
    /\ Kind \in [Ops -> Kinds]
    /\ NoOp \notin Ops

VARIABLES
    owner,      \* owner[h]: the operation whose m_curl holds h, or NoOp (pooled)
    sockData,   \* CURLOPT_OPENSOCKETDATA / SOCKOPTDATA of h
    writeData,  \* CURLOPT_WRITEDATA of h
    httpHeader, \* CURLOPT_HTTPHEADER of h: the m_header_list of that operation
    customReq,  \* CURLOPT_CUSTOMREQUEST of h: "none" or "PROPFIND"
    noBody,     \* CURLOPT_NOBODY of h
    sslCert,    \* CURLOPT_SSLCERT / SSLKEY set on h
    phase,      \* phase[o]: new, running, released, destroyed
    propfind,   \* m_is_propfind of a stat or open operation
    x509        \* m_x509_auth, or the worker's UseX509Auth for o's URL

vars == <<owner, sockData, writeData, httpHeader, customReq, noBody, sslCert,
          phase, propfind, x509>>

HandleOf(o) == CHOOSE h \in Handles : owner[h] = o

IsStat(o) == Kind[o] \in {"stat", "open"}

-----------------------------------------------------------------------------

\* CurlOperation::Setup: take the handle, point the header, progress and
\* write callbacks at this operation, attach the client certificate when
\* X.509 is in use, and install the socket hooks when a broker URL is
\* known.  Options it does not touch keep their value.
BaseSetup(o, h, useX509, broker) ==
    /\ owner' = [owner EXCEPT ![h] = o]
    /\ writeData' = [writeData EXCEPT ![h] = o]
    /\ sslCert' = [sslCert EXCEPT ![h] = sslCert[h] \/ useX509]
    /\ sockData' = IF broker THEN [sockData EXCEPT ![h] = o] ELSE sockData
    /\ x509' = [x509 EXCEPT ![o] = useX509]

\* CurlStatOp::Setup: PROPFIND at a Pelican origin, and no NOBODY otherwise.
StatSetup(o, h) ==
    /\ \E pelicanOrigin \in BOOLEAN :
         /\ propfind' = [propfind EXCEPT ![o] = pelicanOrigin]
         /\ customReq' = IF pelicanOrigin
                         THEN [customReq EXCEPT ![h] = "PROPFIND"]
                         ELSE customReq
    /\ UNCHANGED <<httpHeader, noBody>>

\* CurlReadOp::Setup: the Range header list, unless the length is zero and
\* the read succeeds at once.
ReadSetup(o, h) ==
    /\ \E emptyRead \in BOOLEAN :
         httpHeader' = IF emptyRead THEN httpHeader
                       ELSE [httpHeader EXCEPT ![h] = o]
    /\ UNCHANGED <<customReq, noBody, propfind>>

\* CurlListdirOp::Setup: PROPFIND with the Depth: 1 header list.
ListdirSetup(o, h) ==
    /\ customReq' = [customReq EXCEPT ![h] = "PROPFIND"]
    /\ httpHeader' = [httpHeader EXCEPT ![h] = o]
    /\ UNCHANGED <<noBody, propfind>>

\* The Setup of each variant, run by the worker on a handle from the pool:
\* the common part, then the variant's own options.
Setup(o, h) ==
    /\ phase[o] = "new"
    /\ owner[h] = NoOp
    /\ \E useX509, broker \in BOOLEAN :
        BaseSetup(o, h, useX509, broker)
    /\ phase' = [phase EXCEPT ![o] = "running"]
    /\ \/ IsStat(o) /\ StatSetup(o, h)
       \/ Kind[o] = "read" /\ ReadSetup(o, h)
       \/ Kind[o] = "listdir" /\ ListdirSetup(o, h)

\* CurlOperation::Redirect on o's handle (a location present): an X.509
\* request attaches the certificate, a broker hint installs the socket
\* hooks.  CurlStatOp::Redirect then chooses PROPFIND for a Pelican target
\* and NOBODY otherwise.
Redirect(o) ==
    /\ phase[o] = "running"
    /\ LET h == HandleOf(o) IN
       \E askX509, hint \in BOOLEAN :
         /\ sslCert' = [sslCert EXCEPT ![h] = sslCert[h] \/ askX509]
         /\ x509' = [x509 EXCEPT ![o] = x509[o] \/ askX509]
         /\ sockData' = IF hint THEN [sockData EXCEPT ![h] = o] ELSE sockData
         /\ \/ /\ IsStat(o)
               /\ \E pelican \in BOOLEAN :
                   IF pelican
                   THEN /\ customReq' = [customReq EXCEPT ![h] = "PROPFIND"]
                        /\ propfind' = [propfind EXCEPT ![o] = TRUE]
                        /\ UNCHANGED noBody
                   ELSE /\ noBody' = [noBody EXCEPT ![h] = TRUE]
                        /\ UNCHANGED <<customReq, propfind>>
            \/ /\ ~IsStat(o)
               /\ UNCHANGED <<customReq, noBody, propfind>>
    /\ UNCHANGED <<owner, writeData, httpHeader, phase>>

\* CurlOperation::ReleaseHandle: clear the certificate and let go of m_curl.
BaseRelease(h) ==
    /\ sslCert' = [sslCert EXCEPT ![h] = FALSE]
    /\ owner' = [owner EXCEPT ![h] = NoOp]

\* CurlStatOp::ReleaseHandle: reset NOBODY, the custom request if this
\* operation set one, and the write callback.
StatRelease(o, h) ==
    /\ noBody' = [noBody EXCEPT ![h] = FALSE]
    /\ customReq' = IF propfind[o] THEN [customReq EXCEPT ![h] = "none"]
                    ELSE customReq
    /\ writeData' = [writeData EXCEPT ![h] = NoOp]
    /\ BaseRelease(h)

\* Mutant: CurlReadOp::ReleaseHandle leaves CURLOPT_HTTPHEADER set.
ReadReleaseKeepsHeaders(h) ==
    /\ writeData' = [writeData EXCEPT ![h] = NoOp]
    /\ sockData' = [sockData EXCEPT ![h] = NoOp]
    /\ BaseRelease(h)
    /\ UNCHANGED <<httpHeader, customReq, noBody>>

\* CurlReadOp::ReleaseHandle: the write callback, the Range header list and
\* the socket hooks.
ReadRelease(h) ==
    /\ writeData' = [writeData EXCEPT ![h] = NoOp]
    /\ httpHeader' = [httpHeader EXCEPT ![h] = NoOp]
    /\ sockData' = [sockData EXCEPT ![h] = NoOp]
    /\ BaseRelease(h)
    /\ UNCHANGED <<customReq, noBody>>

\* CurlOpenOp::ReleaseHandle: the socket hooks, then CurlStatOp's.
OpenRelease(o, h) ==
    /\ sockData' = [sockData EXCEPT ![h] = NoOp]
    /\ StatRelease(o, h)
    /\ UNCHANGED httpHeader

\* CurlListdirOp::ReleaseHandle: the write callback, the custom request and
\* the Depth header list, but not the socket hooks.
ListdirRelease(h) ==
    /\ writeData' = [writeData EXCEPT ![h] = NoOp]
    /\ customReq' = [customReq EXCEPT ![h] = "none"]
    /\ httpHeader' = [httpHeader EXCEPT ![h] = NoOp]
    /\ BaseRelease(h)
    /\ UNCHANGED <<sockData, noBody>>

\* The ReleaseHandle of each variant, called by the worker when o is done
\* with h, which then goes back to the pool: CurlReadOp's and CurlOpenOp's
\* clear the socket hooks, CurlStatOp's and CurlListdirOp's do not.
ReleaseHandle(o, h) ==
    /\ phase[o] = "running"
    /\ h = HandleOf(o)
    /\ \/ Kind[o] = "read" /\ ReadRelease(h)
       \/ Kind[o] = "stat" /\ StatRelease(o, h) /\ UNCHANGED <<sockData, httpHeader>>
       \/ Kind[o] = "open" /\ OpenRelease(o, h)
       \/ Kind[o] = "listdir" /\ ListdirRelease(h)
    /\ phase' = [phase EXCEPT ![o] = "released"]
    /\ UNCHANGED <<propfind, x509>>

\* The operation object is deleted once its handle has been released.
Destroy(o) ==
    /\ phase[o] = "released"
    /\ phase' = [phase EXCEPT ![o] = "destroyed"]
    /\ UNCHANGED <<owner, sockData, writeData, httpHeader, customReq, noBody,
                   sslCert, propfind, x509>>

Init ==
    /\ owner = [h \in Handles |-> NoOp]
    /\ sockData = [h \in Handles |-> NoOp]
    /\ writeData = [h \in Handles |-> NoOp]
    /\ httpHeader = [h \in Handles |-> NoOp]
    /\ customReq = [h \in Handles |-> "none"]
    /\ noBody = [h \in Handles |-> FALSE]
    /\ sslCert = [h \in Handles |-> FALSE]
    /\ phase = [o \in Ops |-> "new"]
    /\ propfind = [o \in Ops |-> FALSE]
    /\ x509 = [o \in Ops |-> FALSE]

\* Every operation runs to its end: the system may stop once all are gone.
Done ==
    /\ \A o \in Ops : phase[o] = "destroyed"
    /\ UNCHANGED vars

Next ==
    \/ \E o \in Ops, h \in Handles : Setup(o, h) \/ ReleaseHandle(o, h)
    \/ \E o \in Ops : Redirect(o) \/ Destroy(o)
    \/ Done

Spec == Init /\ [][Next]_vars

-----------------------------------------------------------------------------
(* Properties.                                                             *)

\* The shape of every variable.
TypeOK ==
    /\ owner \in [Handles -> Ops \cup {NoOp}]
    /\ sockData \in [Handles -> Ops \cup {NoOp}]
    /\ writeData \in [Handles -> Ops \cup {NoOp}]
    /\ httpHeader \in [Handles -> Ops \cup {NoOp}]
    /\ customReq \in [Handles -> {"none", "PROPFIND"}]
    /\ noBody \in [Handles -> BOOLEAN]
    /\ sslCert \in [Handles -> BOOLEAN]
    /\ phase \in [Ops -> {"new", "running", "released", "destroyed"}]
    /\ propfind \in [Ops -> BOOLEAN]
    /\ x509 \in [Ops -> BOOLEAN]

\* The spec (4.1): ReleaseHandle reverses what Setup configured so that a
\* handle can be reused by a different operation.  Whatever sequence of
\* operations of whatever kinds used a handle before, the request an
\* operation sends is shaped by that operation alone: only a stat asks for
\* no body, only a stat or a listing sends PROPFIND (and a stat only when
\* it chose it), the custom headers are its own, and a client certificate
\* is attached only when it uses X.509.
RequestShapeOwn ==
    \A h \in Handles : owner[h] # NoOp =>
        LET o == owner[h] IN
        /\ noBody[h] => IsStat(o)
        /\ customReq[h] = "PROPFIND" =>
              (IsStat(o) /\ propfind[o]) \/ Kind[o] = "listdir"
        /\ httpHeader[h] \in {NoOp, o}
        /\ sslCert[h] => x509[o]

\* The spec (4.1, 5): a broker socket is handed to the transport through
\* the open-socket hook, whose data pointer must be the operation that owns
\* the handle: curl calls OpenSocketCallback with it whenever the handle
\* opens a connection, so a pointer to another, deleted, operation is a
\* use after free.
SocketHookOwned ==
    \A h \in Handles : owner[h] # NoOp => sockData[h] \in {NoOp, owner[h]}

=============================================================================
