------------------------- MODULE CurlReadOpDataProofs -------------------------
(***************************************************************************)
(* The data a read hands its caller is right: the proof of                *)
(* DeliveredDataCorrect for every value of the constants, when redirect    *)
(* responses carry no body (RedirectBody = FALSE; with a body the          *)
(* implementation is wrong, see the read_redirect_body run).               *)
(***************************************************************************)
EXTENDS CurlReadOpProofs

USE OffsetsAssumption, BoundsAssumption, FdsAssumption, UrlAssumption,
    EnvAssumption, MaxLenAssumption

HdrKeys == HdrFields \cup {"status"}

\* Where the next body byte lies in the file: the Content-Range start before
\* the first chunk is taken, right after what was copied afterwards.
BodyStart == IF written = 0 THEN hdr.offset ELSE op.offset + written

\* Header state: empty while a request is on its way, a copy of the current
\* response's delivered lines while its headers arrive, all of them after.
HeadersInv ==
    /\ xfer \in {"init", "connect", "connfail", "waitsock"} => hdr = EmptyHdr
    /\ xfer = "headers" =>
          /\ resp \in Responses
          /\ \A f \in HdrKeys \ pending : hdr[f] = resp[f]
    /\ xfer \in {"body", "complete"} =>
          /\ resp \in Responses
          /\ \A f \in HdrKeys : hdr[f] = resp[f]

\* While the caller waits, the buffer holds the file bytes from the
\* requested offset on, the copied bytes come from the one 200 response
\* being received, and what is left of the body continues them.
BufferInv ==
    /\ written = Len(buffer)
    /\ handler => /\ Len(buffer) <= op.length
                  /\ buffer = FileBytes(op.offset, Len(buffer))
    /\ handler /\ written > 0 => xfer \in {"body", "complete"} /\ hdr.status = 200
    /\ handler /\ xfer = "body" => bodyLeft = FileBytes(BodyStart, Len(bodyLeft))
    /\ handler /\ xfer = "body" /\ hdr.status # 200 => bodyLeft = <<>>

\* DeliveredDataCorrect needs the header and buffer
\* invariants: the check of the first chunk's offset is only sound because
\* the header state belongs to the response whose body is being copied.
RInv == IInv /\ HeadersInv /\ BufferInv /\ DeliveredDataCorrect

-----------------------------------------------------------------------------
(* Facts about file byte ranges.                                          *)

LEMMA FileBytesConcat ==
    ASSUME NEW o \in Nat, NEW m \in Nat, NEW n \in Nat
    PROVE  FileBytes(o, m) \o FileBytes(o + m, n) = FileBytes(o, m + n)
BY DEF FileBytes

LEMMA FileBytesSplit ==
    ASSUME NEW o \in Nat, NEW m \in Nat, NEW n \in 1..m
    PROVE  /\ SubSeq(FileBytes(o, m), 1, n) = FileBytes(o, n)
           /\ SubSeq(FileBytes(o, m), n + 1, m) = FileBytes(o + n, m - n)
BY DEF FileBytes

LEMMA FileBytesLen ==
    ASSUME NEW o \in Nat, NEW n \in Nat
    PROVE  Len(FileBytes(o, n)) = n
BY DEF FileBytes

\* m_op is never written after construction.
LEMMA OpConstant ==
    ASSUME [Next]_vars
    PROVE  op' = op
BY DEF Next, ReadSetup, WriteCallback, Complete, vars, readVars

\* Fail hands the caller an error, which DeliveredDataCorrect allows, and
\* leaves it waiting for nothing.
LEMMA FailStep ==
    ASSUME TypeOK, DeliveredDataCorrect, op' = op, Fail
    PROVE  ~handler' /\ DeliveredDataCorrect'
<1>1. CASE handler
  <2>1. results' = Append(results, [kind |-> "err", data |-> <<>>]) /\ ~handler'
    BY <1>1 DEF Fail, Deliver
  <2>2. QED
    BY <2>1 DEF DeliveredDataCorrect, TypeOK
<1>2. CASE ~handler
  BY <1>2 DEF Fail, Deliver, DeliveredDataCorrect
<1>3. QED
  BY <1>1, <1>2

\* The part of RInv that the base actions must preserve.
RPart == HeadersInv /\ BufferInv /\ DeliveredDataCorrect

LEMMA InitRInv == Init => RInv
<1> SUFFICES ASSUME Init PROVE RInv
  OBVIOUS
<1>1. IInv
  BY OnceInit
<1>2. HeadersInv /\ DeliveredDataCorrect
  BY DEF Init, HeadersInv, DeliveredDataCorrect
<1>3. BufferInv
  <2>1. written = 0 /\ buffer = <<>> /\ op.length \in Nat /\ xfer = "init"
    BY DEF Init, Requests
  <2>2. FileBytes(op.offset, 0) = <<>>
    BY DEF FileBytes
  <2>3. QED
    BY <2>1, <2>2 DEF BufferInv
<1>4. QED
  BY <1>1, <1>2, <1>3 DEF RInv

LEMMA TickRInv ==
    ASSUME RInv, Tick, UNCHANGED readVars
    PROVE  RPart'
BY DEF RInv, RPart, Tick, readVars, resultVars, hdrVars, HeadersInv, BufferInv,
       BodyStart, DeliveredDataCorrect

LEMMA XferInfoRInv ==
    ASSUME RInv, XferInfoCallback, UNCHANGED readVars
    PROVE  RPart'
<1>1. xfer \in {"connect", "headers"} /\ xfer' = "failed"
  BY DEF XferInfoCallback
<1>2. handler => written = 0
  BY <1>1 DEF RInv, BufferInv, IInv, TypeOK
<1>3. QED
  BY <1>1, <1>2 DEF RInv, RPart, XferInfoCallback, readVars, resultVars,
     HeadersInv, BufferInv, DeliveredDataCorrect

LEMMA BodyDoneRInv ==
    ASSUME RInv, BodyDone, UNCHANGED readVars
    PROVE  RPart'
BY DEF RInv, RPart, BodyDone, readVars, resultVars, hdrVars, HeadersInv,
       BufferInv, BodyStart, DeliveredDataCorrect

LEMMA DestroyRInv ==
    ASSUME RInv, Destroy, UNCHANGED readVars
    PROVE  RPart'
<1>1. xfer = "released" /\ xfer' = "destroyed"
  BY DEF Destroy
<1>2. handler => written = 0
  BY <1>1 DEF RInv, BufferInv, IInv, TypeOK
<1>3. QED
  BY <1>1, <1>2 DEF RInv, RPart, Destroy, readVars, resultVars, hdrVars,
     HeadersInv, BufferInv, DeliveredDataCorrect

LEMMA FinishedRInv ==
    ASSUME RInv, Finished, UNCHANGED readVars
    PROVE  RPart'
BY DEF RInv, RPart, Finished, readVars, baseVars, resultVars, hdrVars,
       brokerVars, envVars, HeadersInv, BufferInv, BodyStart,
       DeliveredDataCorrect

LEMMA TransferFailedRInv ==
    ASSUME RInv, TransferFailed, UNCHANGED readVars
    PROVE  RPart'
<1>1. ~handler' /\ DeliveredDataCorrect'
  BY FailStep DEF TransferFailed, RInv, IInv, readVars
<1>2. xfer' = "released" /\ UNCHANGED <<hdr, written, buffer>>
  BY DEF TransferFailed, hdrVars, readVars
<1>3. QED
  BY <1>1, <1>2 DEF RInv, RPart, HeadersInv, BufferInv

\* A response arriving on an empty header state: the lines not yet
\* delivered are exactly those the response has.
LEMMA RespondHeaders ==
    ASSUME hdr = EmptyHdr, Respond, hdr' = hdr
    PROVE  /\ resp' \in Responses
           /\ \A f \in HdrKeys \ pending' : hdr'[f] = resp'[f]
<1>1. resp' \in Responses
  BY DEF Respond, ServerResponses
<1>2. pending' = {"status"} \cup LinesOf(resp')
  BY DEF Respond
<1>3. ASSUME NEW f \in HdrKeys \ pending' PROVE hdr'[f] = resp'[f]
  <2>1. f \in HdrFields /\ ~(resp'[f] # EmptyHdr[f])
    BY <1>2 DEF HdrKeys, LinesOf
  <2>2. QED
    BY <2>1
<1>4. QED
  BY <1>1, <1>3

LEMMA ConnectRInv ==
    ASSUME RInv, Connect, UNCHANGED readVars
    PROVE  RPart'
<1>1. xfer = "connect" /\ hdr = EmptyHdr /\ hdr' = hdr
  BY DEF Connect, RInv, HeadersInv
<1>2. handler => written = 0
  BY <1>1 DEF RInv, BufferInv, IInv, TypeOK
<1>3. UNCHANGED <<resultVars, bodyLeft>>
  BY DEF Connect
<1>4. \/ xfer' = "connfail"
      \/ Respond
  BY DEF Connect, OpenSocketCallback
<1>5. CASE xfer' = "connfail"
  BY <1>1, <1>2, <1>3, <1>5 DEF RInv, RPart, readVars, resultVars, HeadersInv,
     BufferInv, DeliveredDataCorrect
<1>6. CASE Respond
  <2>1. xfer' = "headers"
    BY <1>6 DEF Respond
  <2>2. HeadersInv'
    BY <1>1, <1>6, <2>1, RespondHeaders DEF HeadersInv
  <2>3. QED
    BY <1>1, <1>2, <1>3, <2>1, <2>2 DEF RInv, RPart, readVars, resultVars,
       BufferInv, DeliveredDataCorrect
<1>7. QED
  BY <1>4, <1>5, <1>6

LEMMA HeaderCallbackRInv ==
    ASSUME RInv, HeaderCallback, UNCHANGED readVars
    PROVE  RPart'
<1>1. xfer = "headers" /\ resp \in Responses
      /\ \A f \in HdrKeys \ pending : hdr[f] = resp[f]
  BY DEF HeaderCallback, RInv, HeadersInv
<1>2. handler => written = 0
  BY <1>1 DEF RInv, BufferInv, IInv, TypeOK
<1>3. UNCHANGED <<resultVars, resp, bodyLeft>>
  BY DEF HeaderCallback
<1>4. PICK f \in pending :
        \/ /\ hdr' = [hdr EXCEPT ![f] = resp[f]]
           /\ pending' = pending \ {f}
           /\ xfer' = xfer
        \/ /\ xfer' = "failed"
           /\ hdr' = hdr /\ pending' = pending
  BY DEF HeaderCallback
<1>5. CASE hdr' = [hdr EXCEPT ![f] = resp[f]] /\ pending' = pending \ {f}
           /\ xfer' = xfer
  <2>1. f \in HdrKeys
    BY DEF RInv, IInv, TypeOK, HdrKeys
  <2>2. \A g \in HdrKeys \ pending' : hdr'[g] = resp'[g]
    <3>1. hdr \in HdrType
      BY DEF RInv, IInv, TypeOK, HdrType
    <3>2. DOMAIN hdr = HdrKeys \cup {"done"}
      BY <3>1 DEF HdrType, HdrKeys, HdrFields
    <3>3. TAKE g \in HdrKeys \ pending'
    <3>4. CASE g = f
      BY <1>3, <1>5, <2>1, <3>2, <3>4
    <3>5. CASE g # f
      BY <1>1, <1>3, <1>5, <3>2, <3>5
    <3>6. QED
      BY <3>4, <3>5
  <2>3. QED
    BY <1>1, <1>2, <1>3, <1>5, <2>2 DEF RInv, RPart, readVars, resultVars,
       HeadersInv, BufferInv, DeliveredDataCorrect
<1>6. CASE xfer' = "failed" /\ hdr' = hdr /\ pending' = pending
  BY <1>1, <1>2, <1>3, <1>6 DEF RInv, RPart, readVars, resultVars,
     HeadersInv, BufferInv, DeliveredDataCorrect
<1>7. QED
  BY <1>4, <1>5, <1>6

LEMMA ConnectFailedRInv ==
    ASSUME RInv, ConnectFailed, UNCHANGED readVars
    PROVE  RPart'
<1>1. xfer = "connfail" /\ hdr = EmptyHdr /\ UNCHANGED <<hdr, bodyLeft>>
  BY DEF ConnectFailed, RInv, HeadersInv, hdrVars
<1>2. handler => written = 0
  BY <1>1 DEF RInv, BufferInv, IInv, TypeOK
<1>3. op' = op
  BY DEF readVars
<1>4. CASE UNCHANGED resultVars /\ xfer' \in {"crashed", "waitsock"}
  BY <1>1, <1>2, <1>4 DEF RInv, RPart, readVars, resultVars,
     HeadersInv, BufferInv, DeliveredDataCorrect
<1>5. CASE Fail /\ xfer' = "released"
  <2>1. ~handler' /\ DeliveredDataCorrect'
    BY <1>3, <1>5, FailStep DEF RInv, IInv
  <2>2. QED
    BY <1>1, <1>5, <2>1 DEF RInv, RPart, readVars, HeadersInv, BufferInv
<1>6. QED
  BY <1>4, <1>5 DEF ConnectFailed, StartBroker

LEMMA WaitSocketRInv ==
    ASSUME RInv, WaitSocketCallback, UNCHANGED readVars
    PROVE  RPart'
<1>1. xfer = "waitsock" /\ hdr = EmptyHdr /\ UNCHANGED <<hdr, bodyLeft>>
  BY DEF WaitSocketCallback, RInv, HeadersInv, hdrVars
<1>2. handler => written = 0
  BY <1>1 DEF RInv, BufferInv, IInv, TypeOK
<1>3. op' = op
  BY DEF readVars
<1>4. CASE UNCHANGED resultVars /\ xfer' = "connect"
  BY <1>1, <1>2, <1>4 DEF RInv, RPart, readVars, resultVars,
     HeadersInv, BufferInv, DeliveredDataCorrect
<1>5. CASE Fail /\ xfer' = "released"
  <2>1. ~handler' /\ DeliveredDataCorrect'
    BY <1>3, <1>5, FailStep DEF RInv, IInv
  <2>2. QED
    BY <1>1, <1>5, <2>1 DEF RInv, RPart, readVars, HeadersInv, BufferInv
<1>6. QED
  BY <1>4, <1>5 DEF WaitSocketCallback

\* What the body of a response the operation does not fail on looks like:
\* file bytes from the offset it claims, or nothing for a redirect.
LEMMA BodyOfResponse ==
    ASSUME ~RedirectBody, NEW r \in Responses, ~HTTPStatusIsError(r.status)
    PROVE  /\ r.offset \in Nat
           /\ r.body = FileBytes(r.offset, Len(r.body))
           /\ r.status # 200 => r.body = <<>>
<1>1. CASE r \in DataResponses
  <2>1. PICK o \in Offsets, m \in BOOLEAN, n \in 0..MaxBody :
          r = [status |-> 200, location |-> FALSE, broker |-> NoUrl,
               x509 |-> FALSE, offset |-> o, multipart |-> m,
               body |-> FileBytes(o, n)]
    BY <1>1 DEF DataResponses
  <2>2. o \in Nat /\ n \in Nat
    BY OffsetsAssumption, BoundsAssumption
  <2>3. Len(FileBytes(o, n)) = n
    BY <2>2, FileBytesLen
  <2>4. QED
    BY <2>1, <2>2, <2>3
<1>2. CASE r \in RedirectResponses
  <2>1. r.body = <<>> /\ r.offset = DefaultOffset
    BY <1>2, EnvAssumption DEF RedirectResponses
  <2>2. FileBytes(DefaultOffset, 0) = <<>> /\ DefaultOffset \in Nat
    BY OffsetsAssumption DEF FileBytes
  <2>3. QED
    BY <2>1, <2>2
<1>3. CASE r = ErrorResponse
  BY <1>3 DEF ErrorResponse, HTTPStatusIsError
<1>4. QED
  BY <1>1, <1>2, <1>3 DEF Responses

LEMMA HeaderEndRInv ==
    ASSUME RInv, HeaderEnd, UNCHANGED readVars, ~RedirectBody
    PROVE  RPart'
<1>1. /\ xfer = "headers" /\ pending = {} /\ resp \in Responses
      /\ \A f \in HdrKeys : hdr[f] = resp[f]
  BY DEF HeaderEnd, RInv, HeadersInv
<1>2. handler => written = 0
  BY <1>1 DEF RInv, BufferInv, IInv, TypeOK
<1>3. /\ hdr' = [hdr EXCEPT !.done = TRUE] /\ xfer' = "body"
      /\ bodyLeft' = resp.body /\ resp' = resp
      /\ UNCHANGED <<op, written, buffer>>
  BY DEF HeaderEnd, readVars
<1>4. hdr \in HdrType
  BY DEF RInv, IInv, TypeOK, HdrType
<1>5. \A f \in HdrKeys : hdr'[f] = resp'[f]
  BY <1>1, <1>3, <1>4 DEF HdrType, HdrKeys, HdrFields
<1>6. HeadersInv'
  BY <1>1, <1>3, <1>5 DEF HeadersInv
<1>7. CASE HTTPStatusIsError(hdr.status)
  <2>1. ~handler' /\ DeliveredDataCorrect'
    BY <1>3, <1>7, FailStep DEF HeaderEnd, RInv, IInv
  <2>2. QED
    BY <1>3, <1>6, <2>1 DEF RInv, RPart, BufferInv
<1>8. CASE ~HTTPStatusIsError(hdr.status)
  <2>1. UNCHANGED resultVars
    BY <1>8 DEF HeaderEnd
  <2>2. /\ resp.offset \in Nat
        /\ resp.body = FileBytes(resp.offset, Len(resp.body))
        /\ resp.status # 200 => resp.body = <<>>
    <3>1. hdr.status = resp.status
      BY <1>1 DEF HdrKeys
    <3>2. QED
      BY <1>1, <1>8, <3>1, BodyOfResponse
  <2>3. hdr'.status = resp.status /\ hdr'.offset = resp.offset
    BY <1>3, <1>5 DEF HdrKeys, HdrFields
  <2>4. handler' => BodyStart' = resp.offset
    BY <1>2, <1>3, <2>1, <2>3 DEF BodyStart, resultVars
  <2>5. BufferInv'
    BY <1>2, <1>3, <2>1, <2>2, <2>3, <2>4 DEF RInv, BufferInv, resultVars
  <2>6. DeliveredDataCorrect'
    BY <1>3, <2>1 DEF RInv, DeliveredDataCorrect, resultVars
  <2>7. QED
    BY <1>6, <2>5, <2>6 DEF RPart
<1>9. QED
  BY <1>7, <1>8

\* Success hands the caller the buffer, which is the requested file bytes.
LEMMA SuccessStep ==
    ASSUME TypeOK, DeliveredDataCorrect, BufferInv, op' = op, Success
    PROVE  ~handler' /\ DeliveredDataCorrect'
<1>1. CASE handler
  <2>1. results' = Append(results, [kind |-> "ok", data |-> buffer]) /\ ~handler'
    BY <1>1 DEF Success, Deliver
  <2>2. Len(buffer) <= op.length /\ buffer = FileBytes(op.offset, Len(buffer))
    BY <1>1 DEF BufferInv
  <2>3. QED
    BY <2>1, <2>2 DEF DeliveredDataCorrect, TypeOK
<1>2. CASE ~handler
  BY <1>2 DEF Success, Deliver, DeliveredDataCorrect
<1>3. QED
  BY <1>1, <1>2

LEMMA ReadSetupRInv ==
    ASSUME RInv, ReadSetup
    PROVE  RPart'
<1>1. xfer = "init" /\ hdr = EmptyHdr /\ UNCHANGED <<hdr, bodyLeft, readVars>>
  BY DEF ReadSetup, Setup, RInv, HeadersInv, hdrVars
<1>2. handler => written = 0
  BY <1>1 DEF RInv, BufferInv, IInv, TypeOK
<1>3. CASE op.length = 0
  <2>1. Success /\ xfer' = "released"
    BY <1>3 DEF ReadSetup
  <2>2. ~handler' /\ DeliveredDataCorrect'
    BY <1>1, <2>1, SuccessStep DEF RInv, IInv, readVars
  <2>3. QED
    BY <1>1, <2>1, <2>2 DEF RInv, RPart, readVars, HeadersInv, BufferInv
<1>4. CASE op.length # 0
  <2>1. UNCHANGED resultVars /\ xfer' = "connect"
    BY <1>4 DEF ReadSetup
  <2>2. QED
    BY <1>1, <1>2, <2>1 DEF RInv, RPart, readVars, resultVars, HeadersInv,
       BufferInv, DeliveredDataCorrect
<1>5. QED
  BY <1>3, <1>4

\* The request's offset and length and the count of bytes written are
\* naturals in every state the invariant allows.
LEMMA RInvNat ==
    ASSUME RInv
    PROVE  op.offset \in Nat /\ op.length \in Nat /\ written \in Nat
<1>1. written \in 0..op.length
  BY DEF RInv, IInv, TypeOK
<1>2. op.offset \in Offsets /\ op.length \in 0..MaxLen
  BY DEF RInv, IInv, TypeOK, Requests
<1>3. Offsets \subseteq Nat /\ MaxLen \in Nat
  BY OffsetsAssumption, MaxLenAssumption
<1>5. op.offset \in Nat
  BY <1>2, <1>3
<1>6. op.length \in Nat
  BY <1>2, <1>3
<1>4. written \in Nat
  BY <1>1, <1>6
<1>7. QED
  BY <1>4, <1>5, <1>6

\* An accepted chunk while the caller waits continues the buffer with the
\* next file bytes: the offset check on the first chunk and the invariant
\* on the rest of the body are what make this so.
LEMMA AcceptRInv ==
    ASSUME RInv, handler, xfer = "body", NEW n \in Nat \ {0}, n <= Len(bodyLeft),
           written = 0 => hdr.offset = op.offset,
           written + n <= op.length,
           AcceptChunk(SubSeq(bodyLeft, 1, n)),
           UNCHANGED <<hdrVars, brokerVars, resp, redirects, late, op>>
    PROVE  RPart'
<1>1. op.offset \in Nat /\ written \in Nat
  BY RInvNat
<1>2. hdr.status = 200
  BY DEF RInv, BufferInv
<1>3. BodyStart = op.offset + written
  BY <1>1 DEF BodyStart
<1>4. bodyLeft = FileBytes(op.offset + written, Len(bodyLeft))
  BY <1>3 DEF RInv, BufferInv
<1>5. buffer = FileBytes(op.offset, written)
  BY DEF RInv, BufferInv
<1>a. op.offset + written \in Nat
  BY <1>1
<1>b. Len(bodyLeft) \in Nat
  BY DEF RInv, IInv, TypeOK
<1>c. n \in 1..Len(bodyLeft)
  OBVIOUS
<1>6. SubSeq(bodyLeft, 1, n) = FileBytes(op.offset + written, n)
  <2>1. SubSeq(FileBytes(op.offset + written, Len(bodyLeft)), 1, n)
          = FileBytes(op.offset + written, n)
    BY <1>a, <1>b, <1>c, FileBytesSplit
  <2>2. QED
    BY <1>4, <2>1
<1>7. SubSeq(bodyLeft, n + 1, Len(bodyLeft))
        = FileBytes(op.offset + written + n, Len(bodyLeft) - n)
  <2>1. SubSeq(FileBytes(op.offset + written, Len(bodyLeft)), n + 1, Len(bodyLeft))
          = FileBytes(op.offset + written + n, Len(bodyLeft) - n)
    BY <1>a, <1>b, <1>c, FileBytesSplit
  <2>2. QED
    BY <1>4, <2>1
<1>8. Len(SubSeq(bodyLeft, 1, n)) = n
  BY <1>1, <1>6, FileBytesLen
<1>9. buffer' = FileBytes(op.offset, written + n)
  <2>1. buffer' = buffer \o FileBytes(op.offset + written, n)
    BY <1>6 DEF AcceptChunk
  <2>2. QED
    BY <1>1, <1>5, <2>1, FileBytesConcat
<1>10. written' = written + n
  BY <1>8 DEF AcceptChunk
<1>11. bodyLeft' = FileBytes(op.offset + written + n, Len(bodyLeft) - n)
  BY <1>7, <1>8 DEF AcceptChunk
<1>12. Len(buffer') = written + n
  BY <1>1, <1>9, FileBytesLen
<1>13. Len(bodyLeft') = Len(bodyLeft) - n
  BY <1>1, <1>11, FileBytesLen
<1>14. handler' /\ xfer' = "body" /\ hdr' = hdr /\ op' = op
  BY DEF AcceptChunk, resultVars, hdrVars
<1>15. BodyStart' = op.offset + written + n
  BY <1>1, <1>10, <1>14 DEF BodyStart
<1>16. BufferInv'
  <2>1. written' = Len(buffer')
    BY <1>10, <1>12
  <2>2. Len(buffer') <= op'.length
    BY <1>12, <1>14
  <2>3. buffer' = FileBytes(op'.offset, Len(buffer'))
    BY <1>9, <1>12, <1>14
  <2>4. hdr'.status = 200
    BY <1>2, <1>14
  <2>5. bodyLeft' = FileBytes(BodyStart', Len(bodyLeft'))
    BY <1>11, <1>13, <1>15
  <2>6. QED
    BY <1>14, <2>1, <2>2, <2>3, <2>4, <2>5 DEF BufferInv
<1>17. HeadersInv'
  BY <1>14 DEF RInv, HeadersInv, hdrVars
<1>18. DeliveredDataCorrect'
  BY <1>14 DEF RInv, DeliveredDataCorrect, AcceptChunk, resultVars
<1>19. QED
  BY <1>16, <1>17, <1>18 DEF RPart

LEMMA WriteCallbackRInv ==
    ASSUME RInv, WriteCallback
    PROVE  RPart'
<1>1. PICK n \in 1..MaxChunk :
        /\ n <= Len(bodyLeft)
        /\ Write(SubSeq(bodyLeft, 1, n))
  BY DEF WriteCallback
<1> DEFINE chunk == SubSeq(bodyLeft, 1, n)
<1>2. /\ xfer = "body"
      /\ UNCHANGED <<hdrVars, brokerVars, resp, redirects, late, op>>
  BY DEF WriteCallback
<1>3. Len(chunk) = n /\ n \in 1..Len(bodyLeft)
  BY <1>1, ChunkType DEF RInv, IInv, TypeOK
<1>4. CASE RejectChunk
  <2>1. ~handler' /\ DeliveredDataCorrect'
    BY <1>2, <1>4, FailStep DEF RejectChunk, RInv, IInv
  <2>2. UNCHANGED <<written, buffer>> /\ xfer' = "failed"
    BY <1>4 DEF RejectChunk
  <2>3. QED
    BY <2>1, <2>2 DEF RInv, RPart, HeadersInv, BufferInv
<1>5. CASE /\ ~hdr.multipart
           /\ written = 0 => hdr.offset = op.offset
           /\ written + n <= op.length
           /\ AcceptChunk(chunk)
  <2>1. CASE handler
    BY <1>2, <1>3, <1>5, <2>1, AcceptRInv DEF chunk
  <2>2. CASE ~handler
    <3>1. /\ buffer' = buffer \o chunk
          /\ written' = written + n
          /\ UNCHANGED <<resultVars, xfer>>
      BY <1>3, <1>5 DEF AcceptChunk
    <3>2. Len(buffer') = written' /\ ~handler'
      <4>1. buffer \in Seq(Bytes) /\ chunk \in Seq(Bytes) /\ written = Len(buffer)
        BY <1>3, ChunkType DEF RInv, IInv, TypeOK, BufferInv
      <4>2. QED
        BY <1>3, <2>2, <3>1, <4>1 DEF resultVars
    <3>3. QED
      BY <1>2, <3>1, <3>2 DEF RInv, RPart, HeadersInv, BufferInv,
         DeliveredDataCorrect, hdrVars, resultVars
  <2>3. QED
    BY <2>1, <2>2
<1>6. QED
  <2>1. CASE \/ hdr.multipart
             \/ written = 0 /\ hdr.offset # op.offset
             \/ written + Len(chunk) > op.length
    BY <1>1, <1>4, <2>1 DEF Write
  <2>2. CASE ~(\/ hdr.multipart
               \/ written = 0 /\ hdr.offset # op.offset
               \/ written + Len(chunk) > op.length)
    <3>1. written + n <= op.length
      BY <1>3, <2>2 DEF RInv, IInv, TypeOK, Requests
    <3>2. QED
      BY <1>1, <1>5, <2>2, <3>1 DEF Write
  <2>3. QED
    BY <2>1, <2>2

\* A completed 3xx is only reached with nothing copied while the caller
\* waits (copied bytes come from a 200), so following or failing the
\* redirect leaves the buffer invariant intact; a completed non-3xx
\* delivers the buffer through Success.
LEMMA CompleteRInv ==
    ASSUME RInv, Complete
    PROVE  RPart'
<1>1. xfer = "complete" /\ TypeOK /\ DeliveredDataCorrect
  BY DEF Complete, RInv, IInv
<1>2. CASE IsRedirect /\ Redirect /\ UNCHANGED readVars
  <2>1. handler => written = 0
    <3>1. hdr.status # 200
      BY <1>2 DEF IsRedirect
    <3>2. QED
      BY <3>1, RInvNat DEF RInv, BufferInv
  <2>2. op' = op /\ written' = written /\ buffer' = buffer
    BY <1>2 DEF readVars
  <2>3. written = Len(buffer)
    BY DEF RInv, BufferInv
  <2>4. CASE RedirectWithoutLocation
    <3>1. ~handler' /\ DeliveredDataCorrect'
      BY <1>1, <2>2, <2>4, FailStep DEF RedirectWithoutLocation
    <3>2. xfer' = "released"
      BY <2>4 DEF RedirectWithoutLocation
    <3>3. QED
      BY <2>2, <2>3, <3>1, <3>2 DEF RPart, HeadersInv, BufferInv
  <2>5. CASE RedirectFollow
    <3>1. hdr' = EmptyHdr
      BY <2>5 DEF RedirectFollow
    <3>2. CASE /\ hdr.broker # NoUrl
               /\ brokerUrl' = hdr.broker
               /\ broker' = "created"
               /\ Fail
               /\ xfer' = "released"
               /\ UNCHANGED <<sockHook, redirects>>
      <4>1. ~handler' /\ DeliveredDataCorrect'
        BY <1>1, <2>2, <3>2, FailStep
      <4>2. QED
        BY <2>2, <2>3, <3>2, <4>1 DEF RPart, HeadersInv, BufferInv
    <3>3. CASE xfer' \in {"connect", "waitsock"} /\ UNCHANGED resultVars
      <4>1. handler' = handler /\ results' = results
        BY <3>3 DEF resultVars
      <4>2. HeadersInv'
        BY <3>1, <3>3 DEF HeadersInv
      <4>3. BufferInv'
        BY <2>1, <2>2, <2>3, <3>3, <4>1 DEF RInv, BufferInv
      <4>4. DeliveredDataCorrect'
        BY <1>1, <2>2, <4>1 DEF DeliveredDataCorrect
      <4>5. QED
        BY <4>2, <4>3, <4>4 DEF RPart
    <3>4. QED
      BY <2>5, <3>2, <3>3 DEF RedirectFollow, RedirectBroker
  <2>6. QED
    BY <1>2, <2>4, <2>5 DEF Redirect
<1>3. CASE ~IsRedirect /\ Success /\ xfer' = "released" /\ UNCHANGED readVars
  <2>1. op' = op /\ written' = written /\ buffer' = buffer
    BY <1>3 DEF readVars
  <2>2. ~handler' /\ DeliveredDataCorrect'
    BY <1>1, <1>3, <2>1, SuccessStep DEF RInv
  <2>3. QED
    BY <1>3, <2>1, <2>2 DEF RInv, RPart, HeadersInv, BufferInv
<1>4. QED
  BY <1>2, <1>3 DEF Complete

\* RInv is inductive when redirects carry no body.
LEMMA RInvStep ==
    ASSUME RInv, [Next]_vars, ~RedirectBody
    PROVE  RInv'
<1>1. IInv'
  BY OnceStep DEF RInv
<1>2. RPart'
  <2>1. CASE ReadSetup
    BY <2>1, ReadSetupRInv
  <2>2. CASE Connect /\ UNCHANGED readVars
    BY <2>2, ConnectRInv
  <2>3. CASE HeaderCallback /\ UNCHANGED readVars
    BY <2>3, HeaderCallbackRInv
  <2>4. CASE HeaderEnd /\ UNCHANGED readVars
    BY <2>4, HeaderEndRInv
  <2>5. CASE XferInfoCallback /\ UNCHANGED readVars
    BY <2>5, XferInfoRInv
  <2>6. CASE Tick /\ UNCHANGED readVars
    BY <2>6, TickRInv
  <2>7. CASE ConnectFailed /\ UNCHANGED readVars
    BY <2>7, ConnectFailedRInv
  <2>8. CASE WaitSocketCallback /\ UNCHANGED readVars
    BY <2>8, WaitSocketRInv
  <2>9. CASE BodyDone /\ UNCHANGED readVars
    BY <2>9, BodyDoneRInv
  <2>10. CASE TransferFailed /\ UNCHANGED readVars
    BY <2>10, TransferFailedRInv
  <2>11. CASE Destroy /\ UNCHANGED readVars
    BY <2>11, DestroyRInv
  <2>12. CASE Finished /\ UNCHANGED readVars
    BY <2>12, FinishedRInv
  <2>13. CASE WriteCallback
    BY <2>13, WriteCallbackRInv
  <2>14. CASE Complete
    BY <2>14, CompleteRInv
  <2>15. CASE UNCHANGED vars
    BY <2>15 DEF RInv, RPart, HeadersInv, BufferInv, BodyStart,
       DeliveredDataCorrect, vars, baseVars, readVars, resultVars, hdrVars,
       brokerVars, envVars
  <2>16. QED
    BY <2>1, <2>2, <2>3, <2>4, <2>5, <2>6, <2>7, <2>8, <2>9, <2>10, <2>11,
       <2>12, <2>13, <2>14, <2>15 DEF Next
<1>3. QED
  BY <1>1, <1>2 DEF RInv, RPart

\* CurlReadOp::Write and Success hand the caller only file bytes from the
\* requested offset (the DeliveredDataCorrect runs), for every value of the
\* constants, provided redirect responses carry no body.
THEOREM DeliveredDataCorrectProved ==
    ASSUME ~RedirectBody
    PROVE  Spec => []DeliveredDataCorrect
<1>1. RInv /\ [Next]_vars => RInv'
  BY RInvStep
<1>2. QED
  BY <1>1, InitRInv, PTL DEF Spec, RInv

=============================================================================
