---------------------------- MODULE CurlOperation ----------------------------
(***************************************************************************)
(* The base HTTP operation of src/src/CurlOps.cc (class CurlOperation):    *)
(* its one-shot result handler, header ingestion, redirect handling,       *)
(* header timeout and connection-broker handoff, together with the         *)
(* environment that drives it: the worker's curl easy handle (CurlWorker,  *)
(* not part of this repository, modelled from the spec) and the server     *)
(* answering each request.  A variant module (CurlReadOp, ...) EXTENDS     *)
(* this one, adds its own state, its body callback and its Success, and    *)
(* composes the next-state relation.                                       *)
(*                                                                         *)
(* Data is abstracted: a URL is only "the current target", a header line   *)
(* is the name of the field it carries, a body byte is the file offset it  *)
(* holds (Junk for bytes of an error or redirect page).                    *)
(***************************************************************************)
EXTENDS Integers, Sequences, FiniteSets

CONSTANTS
    Offsets,        \* file offsets a server may report in Content-Range
    DefaultOffset,  \* HeaderParser::GetOffset() when no Content-Range was seen
    MaxBody,        \* longest body a server sends
    MaxChunk,       \* longest chunk curl hands to one write callback
    MaxRedirects,   \* longest redirect chain the servers build
    Fds,            \* descriptors the connection broker can hand over
    BrokerUrls,     \* broker URLs, configured or sent in a redirect
    NoUrl,          \* the empty broker URL
    BrokerHints,    \* TRUE iff a redirect may carry a broker URL
    RedirectBody    \* TRUE iff a 3xx response carries a (non-file) body

ASSUME OffsetsAssumption == Offsets \subseteq Nat /\ DefaultOffset \in Offsets
ASSUME BoundsAssumption ==
    /\ MaxBody \in Nat /\ MaxChunk \in Nat \ {0} /\ MaxRedirects \in Nat
ASSUME FdsAssumption == Fds \subseteq Nat
ASSUME UrlAssumption == NoUrl \notin BrokerUrls
ASSUME EnvAssumption == BrokerHints \in BOOLEAN /\ RedirectBody \in BOOLEAN

NoSock == -1    \* m_broker_reverse_socket when no descriptor is held
Junk == -1      \* a body byte that is not file data
Bytes == Nat \cup {Junk}

VARIABLES
    handler,      \* m_handler != nullptr: the caller still awaits its result
    done,         \* SetDone() was called
    results,      \* history: every result delivered through m_handler
    error,        \* m_error (OpError::ErrHeaderTimeout or none)
    received,     \* m_received_header
    hdr,          \* m_headers, the HeaderParser state
    pending,      \* header lines of the current response not yet delivered
    x509,         \* m_x509_auth
    brokerUrl,    \* m_broker_url
    broker,       \* m_broker: "none" (null), "created", "started", "finished"
    reverseSock,  \* m_broker_reverse_socket
    triedBroker,  \* m_tried_broker
    sockHook,     \* CURLOPT_OPENSOCKETFUNCTION installed on the handle
    fdState,      \* owner of each broker descriptor: free, op, curl, closed
    xfer,         \* phase of the current request in the worker
    resp,         \* the response the server is sending
    bodyLeft,     \* body bytes of resp not yet handed to the write callback
    redirects,    \* redirects followed so far
    late          \* the clock is past m_header_expiry

resultVars == <<handler, done, results>>
hdrVars == <<error, received, hdr, pending, x509>>
brokerVars == <<brokerUrl, broker, reverseSock, triedBroker, sockHook, fdState>>
envVars == <<xfer, resp, bodyLeft, redirects, late>>
baseVars == <<resultVars, hdrVars, brokerVars, envVars>>

Phases == {"init", "connect", "connfail", "waitsock", "headers", "body",
           "complete", "failed", "released", "destroyed", "crashed"}
Statuses == {0, 200, 302, 404}
HdrFields == {"location", "broker", "x509", "offset", "multipart"}

Outcome == [kind : {"ok", "err"}, data : Seq(Bytes)]

\* A freshly constructed HeaderParser.
EmptyHdr == [status |-> 0, done |-> FALSE, location |-> FALSE, broker |-> NoUrl,
             x509 |-> FALSE, offset |-> DefaultOffset, multipart |-> FALSE]

NoResponse == [status |-> 0, location |-> FALSE, broker |-> NoUrl, x509 |-> FALSE,
               offset |-> DefaultOffset, multipart |-> FALSE, body |-> <<>>]

FileBytes(o, n) == [i \in 1..n |-> o + i - 1]

\* What a server may answer: data with the range it claims to start at ...
DataResponses ==
    {[status |-> 200, location |-> FALSE, broker |-> NoUrl, x509 |-> FALSE,
      offset |-> o, multipart |-> m, body |-> FileBytes(o, n)] :
        o \in Offsets, m \in BOOLEAN, n \in 0..MaxBody}

\* ... a redirect, with or without a location, broker URL, X.509 request ...
RedirectResponses ==
    {[status |-> 302, location |-> l, broker |-> b, x509 |-> x,
      offset |-> DefaultOffset, multipart |-> FALSE, body |-> bd] :
        l \in BOOLEAN,
        b \in IF BrokerHints THEN BrokerUrls \cup {NoUrl} ELSE {NoUrl},
        x \in BOOLEAN,
        bd \in IF RedirectBody THEN {<<Junk>>} ELSE {<<>>}}

\* ... or an error page.
ErrorResponse == [status |-> 404, location |-> FALSE, broker |-> NoUrl,
                  x509 |-> FALSE, offset |-> DefaultOffset, multipart |-> FALSE,
                  body |-> <<Junk>>]

Responses == DataResponses \cup RedirectResponses \cup {ErrorResponse}

ServerResponses ==
    IF redirects < MaxRedirects THEN Responses
    ELSE {r \in Responses : r.status # 302}

\* The header lines a response is made of, besides the status line.
LinesOf(r) == {f \in HdrFields : r[f] # EmptyHdr[f]}

HTTPStatusIsError(s) == s >= 400

IsRedirect == hdr.status >= 300 /\ hdr.status < 400

\* CurlOperation::WaitSocket() >= 0: a broker request is in flight.
WaitSocket == broker = "started"

-----------------------------------------------------------------------------
(* The operation's handlers.                                               *)

\* CurlOperation::Setup, the part common to every variant: arm the header
\* deadline and, when a broker URL is already known, create the broker
\* request and install the socket hooks.  The variant's Setup completes it.
Setup ==
    /\ xfer = "init"
    /\ broker' = IF brokerUrl # NoUrl THEN "created" ELSE "none"
    /\ sockHook' = (brokerUrl # NoUrl)

\* Mutant: m_handler is not cleared after use.
DeliverKeepsHandler(kind, data) ==
    IF handler
    THEN /\ results' = Append(results, [kind |-> kind, data |-> data])
         /\ UNCHANGED handler
    ELSE UNCHANGED <<results, handler>>

\* Deliver a result through m_handler if it is still set, then clear it.
Deliver(kind, data) ==
    IF handler
    THEN /\ results' = Append(results, [kind |-> kind, data |-> data])
         /\ handler' = FALSE
    ELSE UNCHANGED <<results, handler>>

\* CurlOperation::Fail (and CurlReadOp::Fail, which differs only in wording).
Fail ==
    /\ done' = TRUE
    /\ Deliver("err", <<>>)

\* The server's answer reaches curl: the request is now awaiting headers.
Respond ==
    /\ resp' \in ServerResponses
    /\ pending' = {"status"} \cup LinesOf(resp')
    /\ xfer' = "headers"

\* Mutant: the descriptor is handed to curl but not forgotten.
OpenSocketKeepsFd ==
    /\ UNCHANGED reverseSock
    /\ IF reverseSock = NoSock
       THEN /\ xfer' = "connfail"
            /\ UNCHANGED <<fdState, resp, pending>>
       ELSE /\ fdState' = [fdState EXCEPT ![reverseSock] = "curl"]
            /\ Respond

\* CurlOperation::OpenSocketCallback, installed when a broker is in use.
OpenSocketCallback ==
    /\ reverseSock' = NoSock
    /\ IF reverseSock = NoSock
       THEN /\ xfer' = "connfail"
            /\ UNCHANGED <<fdState, resp, pending>>
       ELSE /\ fdState' = [fdState EXCEPT ![reverseSock] = "curl"]
            /\ Respond

\* Curl connects.  A pooled handle may still hold a connection to the
\* server, which curl reuses without opening a socket, so without calling
\* the open-socket hook even when it is installed.  Otherwise curl opens a
\* socket: through the broker hook, or directly, which may fail.
Connect ==
    /\ xfer = "connect"
    /\ \/ /\ Respond
          /\ UNCHANGED <<reverseSock, fdState>>
       \/ /\ sockHook
          /\ OpenSocketCallback
       \/ /\ ~sockHook
          /\ xfer' = "connfail"
          /\ UNCHANGED <<resp, pending, reverseSock, fdState>>
    /\ UNCHANGED <<resultVars, error, received, hdr, x509, brokerUrl, broker,
                   triedBroker, sockHook, bodyLeft, redirects, late>>

\* CurlOperation::HeaderCallback and Header for one header line.  The status
\* line comes first.  A line HeaderParser::Parse rejects makes the callback
\* return 0, and curl aborts the transfer.
HeaderCallback ==
    /\ xfer = "headers"
    /\ received' = TRUE
    /\ \E f \in pending :
        /\ f = "status" \/ "status" \notin pending
        /\ \/ /\ hdr' = [hdr EXCEPT ![f] = resp[f]]
              /\ pending' = pending \ {f}
              /\ UNCHANGED xfer
           \/ /\ xfer' = "failed"
              /\ UNCHANGED <<hdr, pending>>
    /\ UNCHANGED <<resultVars, error, x509, brokerVars, resp, bodyLeft,
                   redirects, late>>

\* The blank line ending the headers: HeadersDone() now holds, and an HTTP
\* error status fails the operation at once; the transfer itself goes on.
HeaderEnd ==
    /\ xfer = "headers"
    /\ pending = {}
    /\ hdr' = [hdr EXCEPT !.done = TRUE]
    /\ IF HTTPStatusIsError(hdr.status) THEN Fail
       ELSE UNCHANGED resultVars
    /\ xfer' = "body"
    /\ bodyLeft' = resp.body
    /\ UNCHANGED <<error, received, pending, x509, brokerVars, resp, redirects,
                   late>>

\* CurlOperation::XferInfoCallback when HeaderTimeoutExpired() holds: no
\* header seen yet and the deadline is past; curl aborts the transfer.
XferInfoCallback ==
    /\ xfer \in {"connect", "headers"}
    /\ ~received
    /\ late
    /\ error' = "timeout"
    /\ xfer' = "failed"
    /\ UNCHANGED <<resultVars, received, hdr, pending, x509, brokerVars, resp,
                   bodyLeft, redirects, late>>

\* The monotonic clock passes m_header_expiry.
Tick ==
    /\ xfer \notin {"init", "destroyed", "crashed"}
    /\ ~late
    /\ late' = TRUE
    /\ UNCHANGED <<resultVars, hdrVars, brokerVars, xfer, resp, bodyLeft,
                   redirects>>

\* Mutant: the missing-location branch returns false without failing.
RedirectWithoutLocationNoFail ==
    /\ ~hdr.location
    /\ broker' = "none"
    /\ xfer' = "released"
    /\ UNCHANGED <<resultVars, hdr, x509, brokerUrl, sockHook, redirects>>

\* Redirect without a Location header: fail and return false.
RedirectWithoutLocation ==
    /\ ~hdr.location
    /\ broker' = "none"
    /\ Fail
    /\ xfer' = "released"
    /\ UNCHANGED <<hdr, x509, brokerUrl, sockHook, redirects>>

\* The broker part of a followed redirect.  Without a hint m_broker stays
\* null (m_broker_url and the socket hooks are left as they were); with one,
\* a new BrokerRequest is started and the hooks installed, or the operation
\* fails if StartRequest does.
RedirectBroker(hint) ==
    \/ /\ hint = NoUrl
       /\ broker' = "none"
       /\ xfer' = "connect"
       /\ redirects' = redirects + 1
       /\ UNCHANGED <<resultVars, brokerUrl, sockHook>>
    \/ /\ hint # NoUrl
       /\ brokerUrl' = hint
       /\ broker' = "started"
       /\ sockHook' = TRUE
       /\ xfer' = "waitsock"
       /\ redirects' = redirects + 1
       /\ UNCHANGED resultVars
    \/ /\ hint # NoUrl
       /\ brokerUrl' = hint
       /\ broker' = "created"
       /\ Fail
       /\ xfer' = "released"
       /\ UNCHANGED <<sockHook, redirects>>

\* Mutant: the header state is not reset on a redirect.
RedirectFollowKeepsHeaders ==
    /\ hdr.location
    /\ x509' = (x509 \/ hdr.x509)
    /\ UNCHANGED hdr
    /\ RedirectBroker(hdr.broker)

\* Redirect to the new location: switch to client-certificate auth if the
\* response asks for it, reset m_headers, then handle the broker hint.
RedirectFollow ==
    /\ hdr.location
    /\ x509' = (x509 \/ hdr.x509)
    /\ hdr' = EmptyHdr
    /\ RedirectBroker(hdr.broker)

\* CurlOperation::Redirect, called by the worker on a completed 3xx
\* response: the old broker and any held descriptor are dropped first.
\* When it returns true the worker re-issues the request, waiting on the
\* broker's socket first if WaitSocket() is set.
Redirect ==
    /\ reverseSock' = NoSock
    /\ RedirectWithoutLocation \/ RedirectFollow
    /\ UNCHANGED <<error, received, pending, triedBroker, fdState, resp,
                   bodyLeft, late>>

\* CurlOperation::StartBroker, called by the worker (once, see
\* triedBroker) after a failed connection when a broker URL is known.
StartBroker ==
    \/ /\ broker = "none"
       /\ xfer' = "crashed"          \* m_broker->StartRequest on a null m_broker
       /\ UNCHANGED <<resultVars, broker>>
    \/ /\ broker # "none"
       /\ broker' = "started"
       /\ xfer' = "waitsock"
       /\ UNCHANGED resultVars
    \/ /\ broker # "none"
       /\ Fail
       /\ xfer' = "released"
       /\ UNCHANGED broker

\* The worker on a failed connection: one retry through the broker.
ConnectFailed ==
    /\ xfer = "connfail"
    /\ IF brokerUrl # NoUrl /\ ~triedBroker
       THEN /\ triedBroker' = TRUE
            /\ StartBroker
       ELSE /\ Fail
            /\ xfer' = "released"
            /\ UNCHANGED <<triedBroker, broker>>
    /\ UNCHANGED <<hdrVars, brokerUrl, reverseSock, sockHook, fdState, resp,
                   bodyLeft, redirects, late>>

\* CurlOperation::WaitSocketCallback once the broker socket is readable:
\* FinishRequest yields a connected descriptor, or -1 and the worker fails
\* the operation.
WaitSocketCallback ==
    /\ xfer = "waitsock"
    /\ broker' = "finished"
    /\ \/ \E fd \in Fds :
            /\ fdState[fd] = "free"
            /\ reverseSock' = fd
            /\ fdState' = [fdState EXCEPT ![fd] = "op"]
            /\ xfer' = "connect"
            /\ UNCHANGED resultVars
       \/ /\ reverseSock' = NoSock
          /\ Fail
          /\ xfer' = "released"
          /\ UNCHANGED fdState
    /\ UNCHANGED <<hdrVars, brokerUrl, triedBroker, sockHook, resp, bodyLeft,
                   redirects, late>>

\* The body has been received in full: curl reports the transfer complete.
BodyDone ==
    /\ xfer = "body"
    /\ bodyLeft = <<>>
    /\ xfer' = "complete"
    /\ UNCHANGED <<resultVars, hdrVars, brokerVars, resp, bodyLeft, redirects,
                   late>>

\* The worker on a transfer curl aborted (callback returned 0 or 1).
TransferFailed ==
    /\ xfer = "failed"
    /\ Fail
    /\ xfer' = "released"
    /\ UNCHANGED <<hdrVars, brokerVars, resp, bodyLeft, redirects, late>>

\* CurlOperation::~CurlOperation closes a descriptor still held.
Destroy ==
    /\ xfer = "released"
    /\ xfer' = "destroyed"
    /\ reverseSock' = NoSock
    /\ IF reverseSock # NoSock
       THEN fdState' = [fdState EXCEPT ![reverseSock] = "closed"]
       ELSE UNCHANGED fdState
    /\ UNCHANGED <<resultVars, hdrVars, brokerUrl, broker,
                   triedBroker, sockHook, resp, bodyLeft, redirects, late>>

\* The operation's lifetime is over (or the process died): nothing changes.
Finished ==
    /\ xfer \in {"destroyed", "crashed"}
    /\ UNCHANGED baseVars

=============================================================================
