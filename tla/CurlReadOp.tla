----------------------------- MODULE CurlReadOp -----------------------------
(***************************************************************************)
(* The ranged-read operation (class CurlReadOp of src/src/CurlOps.cc): a   *)
(* CurlOperation that asks for m_op = (offset, length) with a Range header *)
(* and copies the streamed body into the caller's buffer, checking the     *)
(* multipart flag, the first byte's offset and the buffer bound on every   *)
(* chunk.  The buffer is a ghost sequence of the file offsets its bytes    *)
(* hold, so that what the caller finally receives can be compared with    *)
(* what it asked for.                                                      *)
(***************************************************************************)
EXTENDS CurlOperation

CONSTANT MaxLen     \* longest read the caller asks for

ASSUME MaxLenAssumption == MaxLen \in Nat

VARIABLES
    op,         \* m_op: the requested offset and length
    written,    \* m_written
    buffer      \* contents of m_buffer[0 .. m_written)

readVars == <<op, written, buffer>>
vars == <<baseVars, readVars>>

Requests == [offset : Offsets, length : 0..MaxLen]

-----------------------------------------------------------------------------

\* CurlReadOp::Success: deliver (offset, m_written, m_buffer).
Success ==
    /\ done' = TRUE
    /\ Deliver("ok", buffer)

\* CurlReadOp::Setup: the common setup, then either the zero-length
\* short-cut to Success or the Range header and the request.
ReadSetup ==
    /\ Setup
    /\ IF op.length = 0
       THEN /\ Success
            /\ xfer' = "released"
       ELSE /\ xfer' = "connect"
            /\ UNCHANGED resultVars
    /\ UNCHANGED <<hdrVars, brokerUrl, reverseSock, triedBroker, fdState, resp,
                   bodyLeft, redirects, late, readVars>>

\* A rejected chunk: Fail, and return 0 so that curl aborts the transfer.
RejectChunk ==
    /\ Fail
    /\ xfer' = "failed"
    /\ UNCHANGED <<bodyLeft, written, buffer>>

\* memcpy(m_buffer + m_written, ...) and m_written += length.
AcceptChunk(chunk) ==
    /\ buffer' = buffer \o chunk
    /\ written' = written + Len(chunk)
    /\ bodyLeft' = SubSeq(bodyLeft, Len(chunk) + 1, Len(bodyLeft))
    /\ UNCHANGED <<resultVars, xfer>>

\* Mutant: the first-chunk offset check dropped.
WriteNoOffsetCheck(chunk) ==
    IF \/ hdr.multipart
       \/ written + Len(chunk) > op.length
    THEN RejectChunk
    ELSE AcceptChunk(chunk)

\* Mutant: the buffer-overrun check dropped.
WriteNoOverrunCheck(chunk) ==
    IF \/ hdr.multipart
       \/ written = 0 /\ hdr.offset # op.offset
    THEN RejectChunk
    ELSE AcceptChunk(chunk)

\* CurlReadOp::Write for one chunk: a multipart response, a first chunk not
\* at the requested offset, or more data than requested is rejected.
\* Nothing here looks at whether the operation is already done.
Write(chunk) ==
    IF \/ hdr.multipart
       \/ written = 0 /\ hdr.offset # op.offset
       \/ written + Len(chunk) > op.length
    THEN RejectChunk
    ELSE AcceptChunk(chunk)

\* CurlReadOp::WriteCallback: curl hands over the next chunk of the body.
WriteCallback ==
    /\ xfer = "body"
    /\ bodyLeft # <<>>
    /\ \E n \in 1..MaxChunk :
        /\ n <= Len(bodyLeft)
        /\ Write(SubSeq(bodyLeft, 1, n))
    /\ UNCHANGED <<hdrVars, brokerVars, resp, redirects, late, op>>

\* The worker on a completed transfer: a 3xx goes to Redirect, anything
\* else to Success (a no-op when an HTTP error already failed it).
Complete ==
    /\ xfer = "complete"
    /\ \/ /\ IsRedirect
          /\ Redirect
          /\ UNCHANGED readVars
       \/ /\ ~IsRedirect
          /\ Success
          /\ xfer' = "released"
          /\ UNCHANGED <<hdrVars, brokerVars, resp, bodyLeft, redirects, late,
                         readVars>>

Init ==
    /\ handler = TRUE
    /\ done = FALSE
    /\ results = <<>>
    /\ error = "none"
    /\ received = FALSE
    /\ hdr = EmptyHdr
    /\ pending = {}
    /\ x509 = FALSE
    /\ brokerUrl \in {NoUrl} \cup BrokerUrls
    /\ broker = "none"
    /\ reverseSock = NoSock
    /\ triedBroker = FALSE
    /\ sockHook = FALSE
    /\ fdState = [fd \in Fds |-> "free"]
    /\ xfer = "init"
    /\ resp = NoResponse
    /\ bodyLeft = <<>>
    /\ redirects = 0
    /\ late = FALSE
    /\ op \in Requests
    /\ written = 0
    /\ buffer = <<>>

Next ==
    \/ ReadSetup
    \/ (Connect \/ HeaderCallback \/ HeaderEnd \/ XferInfoCallback \/ Tick
        \/ ConnectFailed \/ WaitSocketCallback \/ BodyDone \/ TransferFailed
        \/ Destroy \/ Finished) /\ UNCHANGED readVars
    \/ WriteCallback
    \/ Complete

\* No fairness: servers may never answer, and after a redirect nothing times
\* the request out (see HeaderTimeoutArmed), so only safety is claimed.
Spec == Init /\ [][Next]_vars

-----------------------------------------------------------------------------
(* Properties.                                                             *)

\* The shape of every variable.  m_written never passes the requested
\* length: the overrun check in CurlReadOp::Write is what keeps the memcpy
\* inside the caller's buffer.
TypeOK ==
    /\ handler \in BOOLEAN
    /\ done \in BOOLEAN
    /\ results \in Seq(Outcome)
    /\ error \in {"none", "timeout"}
    /\ received \in BOOLEAN
    /\ hdr \in [status : Statuses, done : BOOLEAN, location : BOOLEAN,
                broker : BrokerUrls \cup {NoUrl}, x509 : BOOLEAN,
                offset : Offsets, multipart : BOOLEAN]
    /\ pending \subseteq HdrFields \cup {"status"}
    /\ x509 \in BOOLEAN
    /\ brokerUrl \in BrokerUrls \cup {NoUrl}
    /\ broker \in {"none", "created", "started", "finished"}
    /\ reverseSock \in Fds \cup {NoSock}
    /\ triedBroker \in BOOLEAN
    /\ sockHook \in BOOLEAN
    /\ fdState \in [Fds -> {"free", "op", "curl", "closed"}]
    /\ xfer \in Phases
    /\ resp \in Responses \cup {NoResponse}
    /\ bodyLeft \in Seq(Bytes)
    /\ redirects \in Nat
    /\ late \in BOOLEAN
    /\ op \in Requests
    /\ written \in 0..op.length
    /\ buffer \in Seq(Bytes)

\* Fail and Success are reached from the header callback, the write
\* callback, Redirect, the broker paths and the worker, often more than once
\* for one operation: the caller still receives exactly one result, and it
\* is awaiting one exactly while m_handler is set.
ResultDeliveredOnce ==
    /\ Len(results) <= 1
    /\ handler = (results = <<>>)
    /\ results # <<>> => done

\* CurlReadOp::Write and Success: a successful read hands the caller at most
\* the length it asked for, and byte i of it is the file byte at the
\* requested offset + i, whatever ranges, redirects and chunking the servers
\* produced.
DeliveredDataCorrect ==
    \A i \in 1..Len(results) :
        results[i].kind = "ok" =>
            /\ Len(results[i].data) <= op.length
            /\ results[i].data = FileBytes(op.offset, Len(results[i].data))

\* CurlOperation::Redirect resets m_headers: while a request is on its way
\* the header state is empty, and while its headers arrive every field holds
\* either its empty value or the value of the current response, never one
\* left over from the redirect before.
HeaderStateFresh ==
    /\ xfer \in {"connect", "connfail", "waitsock"} => hdr = EmptyHdr
    /\ xfer \in {"headers", "body", "complete"} =>
            \A f \in HdrFields : hdr[f] \in {EmptyHdr[f], resp[f]}

\* OpenSocketCallback hands the broker's descriptor to curl and sets
\* m_broker_reverse_socket to -1, and the destructor closes the descriptor
\* still held there: through broker retries, reused connections, redirects
\* and timeouts the descriptor the operation holds is its own, never one
\* curl owns or one already closed, so the destructor never closes curl's
\* socket under it.
ReverseSocketExclusive ==
    reverseSock # NoSock => fdState[reverseSock] = "op"

\* The spec (4.1): the broker's descriptor belongs to the operation until it
\* is handed to curl, and the destructor closes it otherwise.  Every
\* descriptor the operation owns is the one m_broker_reverse_socket names,
\* so none stays open with nobody to close it.  CurlOperation::Redirect sets
\* m_broker_reverse_socket to -1 without closing it.
NoLeakedFd ==
    \A fd \in Fds : fdState[fd] = "op" => reverseSock = fd

\* The spec (4.1, 5): the worker retries a failed connection through the
\* broker whenever a broker URL is known.  CurlOperation::StartBroker then
\* calls m_broker->StartRequest; the process must never reach that call with
\* a null m_broker (Redirect resets m_broker but keeps m_broker_url).
NoNullBrokerDeref == xfer # "crashed"

\* The spec (4.1, 5): once an HTTP error has failed the operation no body
\* bytes are read, and the operation never touches the caller's buffer after
\* delivering its result.  CurlReadOp::Write copies a chunk without checking
\* whether the result was already delivered.
NoWriteAfterResult == [][~handler => buffer' = buffer]_vars

\* The spec (5): the header timeout is the only cancellation mechanism, so
\* every request still waiting for its first header line can be aborted by
\* HeaderTimeoutExpired, which requires m_received_header to be false.
HeaderTimeoutArmed ==
    (xfer = "connect" \/ (xfer = "headers" /\ "status" \in pending))
        => ~received

=============================================================================
