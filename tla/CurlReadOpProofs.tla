-------------------------- MODULE CurlReadOpProofs --------------------------
(***************************************************************************)
(* Proofs about the read operation, for every value of the constants.     *)
(***************************************************************************)
EXTENDS CurlReadOp, TLAPS, SequenceTheorems

USE OffsetsAssumption, BoundsAssumption, FdsAssumption, UrlAssumption,
    EnvAssumption, MaxLenAssumption

\* The shape of every response a server may send.
RespType ==
    [status : Statuses, location : BOOLEAN, broker : BrokerUrls \cup {NoUrl},
     x509 : BOOLEAN, offset : Offsets, multipart : BOOLEAN, body : Seq(Bytes)]

LEMMA FileBytesType ==
    ASSUME NEW o \in Nat, NEW n \in Nat
    PROVE  FileBytes(o, n) \in Seq(Bytes)
BY DEF FileBytes, Bytes

LEMMA ResponsesType == Responses \cup {NoResponse} \subseteq RespType
<1>1. NoResponse \in RespType
  BY DEF NoResponse, RespType, Statuses
<1>2. ASSUME NEW o \in Offsets, NEW m \in BOOLEAN, NEW n \in 0..MaxBody
      PROVE  [status |-> 200, location |-> FALSE, broker |-> NoUrl,
              x509 |-> FALSE, offset |-> o, multipart |-> m,
              body |-> FileBytes(o, n)] \in RespType
  BY FileBytesType DEF RespType, Statuses
<1>3. ASSUME NEW l \in BOOLEAN,
             NEW b \in IF BrokerHints THEN BrokerUrls \cup {NoUrl} ELSE {NoUrl},
             NEW x \in BOOLEAN,
             NEW bd \in IF RedirectBody THEN {<<Junk>>} ELSE {<<>>}
      PROVE  [status |-> 302, location |-> l, broker |-> b, x509 |-> x,
              offset |-> DefaultOffset, multipart |-> FALSE, body |-> bd]
               \in RespType
  <2>1. b \in BrokerUrls \cup {NoUrl}
    BY EnvAssumption
  <2>2. bd \in Seq(Bytes)
    <3>1. <<Junk>> \in Seq(Bytes) /\ <<>> \in Seq(Bytes)
      BY DEF Junk, Bytes
    <3>2. QED
      BY <3>1, EnvAssumption
  <2>3. QED
    BY <2>1, <2>2 DEF RespType, Statuses
<1>4. ErrorResponse \in RespType
  <2>1. <<Junk>> \in Seq(Bytes)
    BY DEF Junk, Bytes
  <2>2. QED
    BY <2>1 DEF ErrorResponse, RespType, Statuses
<1>5. QED
  <2>1. SUFFICES ASSUME NEW r \in Responses \cup {NoResponse}
                 PROVE  r \in RespType
    OBVIOUS
  <2>2. CASE r \in DataResponses
    BY <2>2, <1>2 DEF DataResponses
  <2>3. CASE r \in RedirectResponses
    BY <2>3, <1>3 DEF RedirectResponses
  <2>4. QED
    BY <2>2, <2>3, <1>1, <1>4 DEF Responses

\* Deliver, reached from every Fail and Success, appends one well-formed
\* result and leaves m_handler a boolean.
LEMMA DeliverType ==
    ASSUME NEW k \in {"ok", "err"}, NEW d \in Seq(Bytes),
           results \in Seq(Outcome), handler \in BOOLEAN, Deliver(k, d)
    PROVE  results' \in Seq(Outcome) /\ handler' \in BOOLEAN
<1>1. [kind |-> k, data |-> d] \in Outcome
  BY DEF Outcome
<1>2. CASE handler
  <2>1. results' = Append(results, [kind |-> k, data |-> d]) /\ handler' = FALSE
    BY <1>2 DEF Deliver
  <2>2. QED
    BY <1>1, <2>1, AppendProperties
<1>3. CASE ~handler
  BY <1>3 DEF Deliver
<1>4. QED
  BY <1>2, <1>3

\* Fail and Success end the operation through Deliver.
LEMMA FailType ==
    ASSUME results \in Seq(Outcome), handler \in BOOLEAN, Fail
    PROVE  results' \in Seq(Outcome) /\ handler' \in BOOLEAN /\ done' \in BOOLEAN
BY DeliverType, <<>> \in Seq(Bytes) DEF Fail

LEMMA SuccessType ==
    ASSUME results \in Seq(Outcome), handler \in BOOLEAN, buffer \in Seq(Bytes),
           Success
    PROVE  results' \in Seq(Outcome) /\ handler' \in BOOLEAN /\ done' \in BOOLEAN
BY DeliverType DEF Success

\* A server answer is one of the responses, and its header lines are fields.
LEMMA RespondType ==
    ASSUME Respond
    PROVE  /\ resp' \in Responses \cup {NoResponse}
           /\ pending' \subseteq HdrFields \cup {"status"}
           /\ xfer' \in Phases
BY DEF Respond, ServerResponses, LinesOf, Phases

HdrType ==
    [status : Statuses, done : BOOLEAN, location : BOOLEAN,
     broker : BrokerUrls \cup {NoUrl}, x509 : BOOLEAN,
     offset : Offsets, multipart : BOOLEAN]

\* Storing the value of one header line of a response keeps m_headers
\* well-formed.
LEMMA HeaderStoreType ==
    ASSUME NEW h \in HdrType, NEW r \in RespType,
           NEW f \in HdrFields \cup {"status"}
    PROVE  [h EXCEPT ![f] = r[f]] \in HdrType
<1>1. CASE f = "status"
  BY <1>1 DEF HdrType, RespType
<1>2. CASE f = "location"
  BY <1>2 DEF HdrType, RespType
<1>3. CASE f = "broker"
  BY <1>3 DEF HdrType, RespType
<1>4. CASE f = "x509"
  BY <1>4 DEF HdrType, RespType
<1>5. CASE f = "offset"
  BY <1>5 DEF HdrType, RespType
<1>6. CASE f = "multipart"
  BY <1>6 DEF HdrType, RespType
<1>7. QED
  BY <1>1, <1>2, <1>3, <1>4, <1>5, <1>6 DEF HdrFields

\* The chunk curl hands to the write callback, and what is left after it,
\* are byte sequences of the expected lengths.
LEMMA ChunkType ==
    ASSUME NEW s \in Seq(Bytes), NEW n \in 1..Len(s)
    PROVE  /\ SubSeq(s, 1, n) \in Seq(Bytes)
           /\ Len(SubSeq(s, 1, n)) = n
           /\ SubSeq(s, n + 1, Len(s)) \in Seq(Bytes)
<1>1. \A i \in 1..n : s[i] \in Bytes
  OBVIOUS
<1>2. \A i \in n + 1..Len(s) : s[i] \in Bytes
  OBVIOUS
<1>3. QED
  BY <1>1, <1>2, SubSeqProperties

\* The initial states are well typed.
LEMMA InitTypeOK == Init => TypeOK
  <2> SUFFICES ASSUME Init PROVE TypeOK
    OBVIOUS
  <2>1. EmptyHdr \in [status : Statuses, done : BOOLEAN, location : BOOLEAN,
                      broker : BrokerUrls \cup {NoUrl}, x509 : BOOLEAN,
                      offset : Offsets, multipart : BOOLEAN]
    BY DEF EmptyHdr, Statuses
  <2>2. <<>> \in Seq(Outcome) /\ <<>> \in Seq(Bytes) /\ 0 \in 0..op.length
    BY DEF Init, Requests
  <2>3. QED
    BY <2>1, <2>2, ResponsesType DEF Init, TypeOK, Phases

\* Every handler, callback and worker action keeps the types.
LEMMA NextTypeOK == TypeOK /\ [Next]_vars => TypeOK'
  <2> SUFFICES ASSUME TypeOK, [Next]_vars PROVE TypeOK'
    OBVIOUS
  <2>1. CASE ReadSetup
    <3>1. results' \in Seq(Outcome) /\ handler' \in BOOLEAN /\ done' \in BOOLEAN
      <4>1. CASE op.length = 0
        BY <2>1, <4>1, SuccessType DEF ReadSetup, TypeOK
      <4>2. CASE op.length # 0
        BY <2>1, <4>2 DEF ReadSetup, TypeOK, resultVars
      <4>3. QED
        BY <4>1, <4>2
    <3>2. broker' \in {"none", "created", "started", "finished"}
          /\ sockHook' \in BOOLEAN /\ xfer' \in Phases
      BY <2>1 DEF ReadSetup, Setup, Phases
    <3>3. UNCHANGED <<hdrVars, brokerUrl, reverseSock, triedBroker, fdState, resp,
                     bodyLeft, redirects, late, readVars>>
      BY <2>1 DEF ReadSetup
    <3>4. QED
      BY <3>1, <3>2, <3>3 DEF TypeOK, hdrVars, readVars
  <2>2. CASE Connect /\ UNCHANGED readVars
    <3>1. /\ reverseSock' \in Fds \cup {NoSock}
          /\ fdState' \in [Fds -> {"free", "op", "curl", "closed"}]
          /\ resp' \in Responses \cup {NoResponse}
          /\ pending' \subseteq HdrFields \cup {"status"}
          /\ xfer' \in Phases
      <4>1. CASE Respond /\ UNCHANGED <<reverseSock, fdState>>
        BY <4>1, RespondType DEF TypeOK
      <4>2. CASE OpenSocketCallback /\ reverseSock = NoSock
        BY <4>2 DEF OpenSocketCallback, TypeOK, Phases
      <4>3. CASE OpenSocketCallback /\ reverseSock # NoSock
        <5>1. reverseSock \in Fds
          BY <4>3 DEF TypeOK
        <5>2. fdState' = [fdState EXCEPT ![reverseSock] = "curl"] /\ Respond
              /\ reverseSock' = NoSock
          BY <4>3 DEF OpenSocketCallback
        <5>3. QED
          BY <5>1, <5>2, RespondType DEF TypeOK
      <4>4. CASE xfer' = "connfail" /\ UNCHANGED <<resp, pending, reverseSock, fdState>>
        BY <4>4 DEF TypeOK, Phases
      <4>5. QED
        BY <2>2, <4>1, <4>2, <4>3, <4>4 DEF Connect
    <3>2. UNCHANGED <<resultVars, error, received, hdr, x509, brokerUrl, broker,
                     triedBroker, sockHook, bodyLeft, redirects, late, readVars>>
      BY <2>2 DEF Connect
    <3>3. QED
      BY <3>1, <3>2 DEF TypeOK, resultVars, readVars
  <2>3. CASE HeaderCallback /\ UNCHANGED readVars
    <3>1. hdr' \in HdrType /\ pending' \subseteq HdrFields \cup {"status"}
          /\ xfer' \in Phases
      <4>1. PICK f \in pending :
              \/ /\ hdr' = [hdr EXCEPT ![f] = resp[f]]
                 /\ pending' = pending \ {f}
                 /\ xfer' = xfer
              \/ /\ xfer' = "failed"
                 /\ hdr' = hdr /\ pending' = pending
        BY <2>3 DEF HeaderCallback
      <4>2. /\ hdr \in HdrType /\ resp \in RespType
            /\ f \in HdrFields \cup {"status"}
            /\ pending \subseteq HdrFields \cup {"status"} /\ xfer \in Phases
        BY ResponsesType DEF TypeOK, HdrType
      <4>3. CASE hdr' = [hdr EXCEPT ![f] = resp[f]] /\ pending' = pending \ {f}
                 /\ xfer' = xfer
        BY <4>2, <4>3, HeaderStoreType
      <4>4. CASE xfer' = "failed" /\ hdr' = hdr /\ pending' = pending
        BY <4>2, <4>4 DEF Phases
      <4>5. QED
        BY <4>1, <4>3, <4>4
    <3>2. UNCHANGED <<resultVars, error, x509, brokerVars, resp, bodyLeft,
                     redirects, late>>
      BY <2>3 DEF HeaderCallback
    <3>3. received' \in BOOLEAN
      BY <2>3 DEF HeaderCallback
    <3>4. QED
      BY <2>3, <3>1, <3>2, <3>3 DEF TypeOK, HdrType, resultVars, brokerVars,
         readVars
  <2>4. CASE HeaderEnd /\ UNCHANGED readVars
    <3>1. results' \in Seq(Outcome) /\ handler' \in BOOLEAN /\ done' \in BOOLEAN
      <4>1. CASE HTTPStatusIsError(hdr.status)
        BY <2>4, <4>1, FailType DEF HeaderEnd, TypeOK
      <4>2. CASE ~HTTPStatusIsError(hdr.status)
        BY <2>4, <4>2 DEF HeaderEnd, TypeOK, resultVars
      <4>3. QED
        BY <4>1, <4>2
    <3>2. hdr' \in HdrType
      BY <2>4 DEF HeaderEnd, TypeOK, HdrType
    <3>3. bodyLeft' \in Seq(Bytes) /\ xfer' \in Phases
      BY <2>4, ResponsesType DEF HeaderEnd, TypeOK, RespType, Phases
    <3>4. UNCHANGED <<error, received, pending, x509, brokerVars, resp, redirects,
                     late, readVars>>
      BY <2>4 DEF HeaderEnd
    <3>5. QED
      BY <3>1, <3>2, <3>3, <3>4 DEF TypeOK, HdrType, brokerVars, readVars
  <2>5. CASE XferInfoCallback /\ UNCHANGED readVars
    <3>1. error' \in {"none", "timeout"} /\ xfer' \in Phases
      BY <2>5 DEF XferInfoCallback, Phases
    <3>2. UNCHANGED <<resultVars, received, hdr, pending, x509, brokerVars, resp,
                     bodyLeft, redirects, late, readVars>>
      BY <2>5 DEF XferInfoCallback
    <3>3. QED
      BY <3>1, <3>2 DEF TypeOK, resultVars, brokerVars, readVars
  <2>6. CASE Tick /\ UNCHANGED readVars
    BY <2>6 DEF Tick, TypeOK, readVars, resultVars, hdrVars, brokerVars
  <2>7. CASE ConnectFailed /\ UNCHANGED readVars
    <3>1. /\ results' \in Seq(Outcome) /\ handler' \in BOOLEAN /\ done' \in BOOLEAN
          /\ triedBroker' \in BOOLEAN
          /\ broker' \in {"none", "created", "started", "finished"}
          /\ xfer' \in Phases
      <4>1. CASE brokerUrl # NoUrl /\ ~triedBroker
        <5>1. triedBroker' = TRUE /\ StartBroker
          BY <2>7, <4>1 DEF ConnectFailed
        <5>2. CASE broker = "none"
          BY <5>1, <5>2 DEF StartBroker, TypeOK, resultVars, Phases
        <5>3. CASE broker # "none"
          BY <5>1, <5>3, FailType DEF StartBroker, TypeOK, resultVars, Phases
        <5>4. QED
          BY <5>2, <5>3
      <4>2. CASE ~(brokerUrl # NoUrl /\ ~triedBroker)
        BY <2>7, <4>2, FailType DEF ConnectFailed, TypeOK, Phases
      <4>3. QED
        BY <4>1, <4>2
    <3>2. UNCHANGED <<hdrVars, brokerUrl, reverseSock, sockHook, fdState, resp,
                     bodyLeft, redirects, late, readVars>>
      BY <2>7 DEF ConnectFailed
    <3>3. QED
      BY <3>1, <3>2 DEF TypeOK, hdrVars, readVars
  <2>8. CASE WaitSocketCallback /\ UNCHANGED readVars
    <3>1. /\ results' \in Seq(Outcome) /\ handler' \in BOOLEAN /\ done' \in BOOLEAN
          /\ reverseSock' \in Fds \cup {NoSock}
          /\ fdState' \in [Fds -> {"free", "op", "curl", "closed"}]
          /\ xfer' \in Phases
      <4>1. CASE \E fd \in Fds :
                   /\ fdState[fd] = "free"
                   /\ reverseSock' = fd
                   /\ fdState' = [fdState EXCEPT ![fd] = "op"]
                   /\ xfer' = "connect"
                   /\ UNCHANGED resultVars
        BY <4>1 DEF TypeOK, resultVars, Phases
      <4>2. CASE reverseSock' = NoSock /\ Fail /\ xfer' = "released"
                 /\ UNCHANGED fdState
        BY <4>2, FailType DEF TypeOK, Phases
      <4>3. QED
        BY <2>8, <4>1, <4>2 DEF WaitSocketCallback
    <3>2. broker' = "finished"
      BY <2>8 DEF WaitSocketCallback
    <3>3. UNCHANGED <<hdrVars, brokerUrl, triedBroker, sockHook, resp, bodyLeft,
                     redirects, late, readVars>>
      BY <2>8 DEF WaitSocketCallback
    <3>4. QED
      BY <3>1, <3>2, <3>3 DEF TypeOK, hdrVars, readVars
  <2>9. CASE BodyDone /\ UNCHANGED readVars
    BY <2>9 DEF BodyDone, TypeOK, Phases, readVars, resultVars, hdrVars, brokerVars
  <2>10. CASE TransferFailed /\ UNCHANGED readVars
    <3>1. results' \in Seq(Outcome) /\ handler' \in BOOLEAN /\ done' \in BOOLEAN
      BY <2>10, FailType DEF TransferFailed, TypeOK
    <3>2. UNCHANGED <<hdrVars, brokerVars, resp, bodyLeft, redirects, late,
                     readVars>> /\ xfer' \in Phases
      BY <2>10 DEF TransferFailed, Phases
    <3>3. QED
      BY <3>1, <3>2 DEF TypeOK, hdrVars, brokerVars, readVars
  <2>11. CASE Destroy /\ UNCHANGED readVars
    <3>1. fdState' \in [Fds -> {"free", "op", "curl", "closed"}]
      BY <2>11 DEF Destroy, TypeOK
    <3>2. UNCHANGED <<resultVars, hdrVars, brokerUrl, broker, triedBroker,
                     sockHook, resp, bodyLeft, redirects, late, readVars>>
          /\ xfer' \in Phases /\ reverseSock' = NoSock
      BY <2>11 DEF Destroy, Phases
    <3>3. QED
      BY <3>1, <3>2 DEF TypeOK, resultVars, hdrVars, readVars
  <2>12. CASE Finished /\ UNCHANGED readVars
    BY <2>12 DEF Finished, TypeOK, readVars, baseVars, resultVars, hdrVars,
       brokerVars, envVars
  <2>13. CASE WriteCallback
    <3>1. PICK n \in 1..MaxChunk :
                /\ n <= Len(bodyLeft)
                /\ Write(SubSeq(bodyLeft, 1, n))
      BY <2>13 DEF WriteCallback
    <3> DEFINE chunk == SubSeq(bodyLeft, 1, n)
    <3>2. /\ chunk \in Seq(Bytes) /\ Len(chunk) = n
          /\ SubSeq(bodyLeft, n + 1, Len(bodyLeft)) \in Seq(Bytes)
      BY <3>1, ChunkType, BoundsAssumption DEF TypeOK
    <3>3. /\ results' \in Seq(Outcome) /\ handler' \in BOOLEAN /\ done' \in BOOLEAN
          /\ xfer' \in Phases /\ bodyLeft' \in Seq(Bytes)
          /\ written' \in 0..op.length /\ buffer' \in Seq(Bytes)
      <4>1. CASE RejectChunk
        BY <4>1, FailType DEF RejectChunk, TypeOK, Phases
      <4>2. CASE written + n <= op.length /\ AcceptChunk(chunk)
        <5>1. buffer \o chunk \in Seq(Bytes)
          BY <3>2, ConcatProperties DEF TypeOK
        <5>2. written + n \in 0..op.length
          BY <4>2 DEF TypeOK, Requests
        <5>3. QED
          BY <4>2, <5>1, <5>2, <3>2 DEF AcceptChunk, TypeOK, resultVars
      <4>3. QED
        <5>1. CASE \/ hdr.multipart
                   \/ written = 0 /\ hdr.offset # op.offset
                   \/ written + Len(chunk) > op.length
          BY <3>1, <4>1, <5>1 DEF Write
        <5>2. CASE ~(\/ hdr.multipart
                     \/ written = 0 /\ hdr.offset # op.offset
                     \/ written + Len(chunk) > op.length)
          <6>1. written + n <= op.length
            BY <3>2, <5>2 DEF TypeOK, Requests
          <6>2. QED
            BY <3>1, <4>2, <5>2, <6>1 DEF Write
        <5>3. QED
          BY <5>1, <5>2
    <3>4. UNCHANGED <<hdrVars, brokerVars, resp, redirects, late, op>>
      BY <2>13 DEF WriteCallback
    <3>5. QED
      BY <3>3, <3>4 DEF TypeOK, hdrVars, brokerVars
  <2>14. CASE Complete
    <3>1. CASE IsRedirect /\ Redirect /\ UNCHANGED readVars
      <4>1. UNCHANGED <<error, received, pending, triedBroker, fdState, resp,
                       bodyLeft, late, readVars>> /\ reverseSock' = NoSock
        BY <3>1 DEF Redirect
      <4>2. /\ results' \in Seq(Outcome) /\ handler' \in BOOLEAN
            /\ done' \in BOOLEAN /\ hdr' \in HdrType /\ x509' \in BOOLEAN
            /\ brokerUrl' \in BrokerUrls \cup {NoUrl}
            /\ broker' \in {"none", "created", "started", "finished"}
            /\ sockHook' \in BOOLEAN /\ xfer' \in Phases /\ redirects' \in Nat
        <5>1. CASE RedirectWithoutLocation
          BY <5>1, FailType DEF RedirectWithoutLocation, TypeOK, HdrType, Phases
        <5>2. CASE RedirectFollow
          <6>1. /\ x509' \in BOOLEAN /\ hdr' \in HdrType
                /\ RedirectBroker(hdr.broker)
                /\ hdr.broker \in BrokerUrls \cup {NoUrl}
            BY <5>2 DEF RedirectFollow, TypeOK, EmptyHdr, HdrType, Statuses
          <6>2. CASE hdr.broker = NoUrl /\ broker' = "none" /\ xfer' = "connect"
                     /\ redirects' = redirects + 1
                     /\ UNCHANGED <<resultVars, brokerUrl, sockHook>>
            BY <6>1, <6>2 DEF TypeOK, resultVars, Phases
          <6>3. CASE hdr.broker # NoUrl /\ brokerUrl' = hdr.broker
                     /\ broker' = "started" /\ sockHook' = TRUE
                     /\ xfer' = "waitsock" /\ redirects' = redirects + 1
                     /\ UNCHANGED resultVars
            BY <6>1, <6>3 DEF TypeOK, resultVars, Phases
          <6>4. CASE hdr.broker # NoUrl /\ brokerUrl' = hdr.broker
                     /\ broker' = "created" /\ Fail /\ xfer' = "released"
                     /\ UNCHANGED <<sockHook, redirects>>
            BY <6>1, <6>4, FailType DEF TypeOK, Phases
          <6>5. QED
            BY <6>1, <6>2, <6>3, <6>4 DEF RedirectBroker
        <5>3. QED
          BY <3>1, <5>1, <5>2 DEF Redirect
      <4>3. QED
        BY <4>1, <4>2 DEF TypeOK, HdrType, readVars
    <3>2. CASE ~IsRedirect /\ Success /\ xfer' = "released"
               /\ UNCHANGED <<hdrVars, brokerVars, resp, bodyLeft, redirects,
                              late, readVars>>
      BY <3>2, SuccessType DEF TypeOK, Phases, hdrVars, brokerVars, readVars
    <3>3. QED
      BY <2>14, <3>1, <3>2 DEF Complete
  <2>15. CASE UNCHANGED vars
    BY <2>15 DEF TypeOK, vars, readVars, baseVars, resultVars, hdrVars, brokerVars, envVars
  <2>16. QED
    BY <2>1, <2>2, <2>3, <2>4, <2>5, <2>6, <2>7, <2>8, <2>9, <2>10, <2>11,
       <2>12, <2>13, <2>14, <2>15 DEF Next

\* Every variable of the read operation keeps its type in every step of
\* every handler, callback and worker action (the base of all the other
\* invariants and of the proofs that follow).
THEOREM TypeCorrect == Spec => []TypeOK
BY InitTypeOK, NextTypeOK, PTL DEF Spec

-----------------------------------------------------------------------------
(* One result per operation.                                               *)

\* Every step either leaves m_handler, SetDone and the delivered results
\* alone, or is a Fail or a Success: no other path reaches the caller.
LEMMA ResultStep ==
    ASSUME TypeOK, [Next]_vars
    PROVE  UNCHANGED resultVars \/ Fail \/ Success
<1>1. CASE ReadSetup
  BY <1>1 DEF ReadSetup
<1>2. CASE (Connect \/ XferInfoCallback \/ Tick \/ BodyDone \/ Destroy
           \/ Finished \/ HeaderCallback) /\ UNCHANGED readVars
  BY <1>2 DEF Connect, XferInfoCallback, Tick, BodyDone, Destroy, Finished,
     HeaderCallback, baseVars
<1>3. CASE HeaderEnd /\ UNCHANGED readVars
  BY <1>3 DEF HeaderEnd
<1>4. CASE ConnectFailed /\ UNCHANGED readVars
  BY <1>4 DEF ConnectFailed, StartBroker
<1>5. CASE WaitSocketCallback /\ UNCHANGED readVars
  BY <1>5 DEF WaitSocketCallback
<1>6. CASE TransferFailed /\ UNCHANGED readVars
  BY <1>6 DEF TransferFailed
<1>7. CASE WriteCallback
  BY <1>7 DEF WriteCallback, Write, RejectChunk, AcceptChunk
<1>8. CASE Complete
  BY <1>8 DEF Complete, Redirect, RedirectWithoutLocation, RedirectFollow,
     RedirectBroker
<1>9. CASE UNCHANGED vars
  BY <1>9 DEF vars, baseVars
<1>10. QED
  BY <1>1, <1>2, <1>3, <1>4, <1>5, <1>6, <1>7, <1>8, <1>9 DEF Next

\* The inductive form of ResultDeliveredOnce: it needs only the types of
\* the result variables besides itself.
IInv == TypeOK /\ ResultDeliveredOnce

LEMMA OnceInit == Init => IInv
<1> SUFFICES ASSUME Init PROVE IInv
  OBVIOUS
<1>1. results = <<>> /\ handler = TRUE
  BY DEF Init
<1>2. Len(results) = 0
  BY <1>1
<1>3. ResultDeliveredOnce
  <2>1. Len(results) <= 1
    BY <1>2
  <2>2. handler = (results = <<>>)
    BY <1>1, Zenon
  <2>3. QED
    BY <1>1, <2>1, <2>2, Zenon DEF ResultDeliveredOnce
<1>4. QED
  BY <1>3, InitTypeOK DEF IInv

LEMMA OnceStep == IInv /\ [Next]_vars => IInv'
<1> SUFFICES ASSUME IInv, [Next]_vars PROVE IInv'
  OBVIOUS
<1>1. TypeOK'
  BY NextTypeOK DEF IInv
<1>2. ResultDeliveredOnce'
  <2>1. CASE UNCHANGED resultVars
    BY <2>1 DEF IInv, ResultDeliveredOnce, resultVars
  <2>2. CASE Fail \/ Success
    <3>1. done' = TRUE /\ \E k \in {"ok", "err"}, d \in Seq(Bytes) : Deliver(k, d)
      <4>1. buffer \in Seq(Bytes)
        BY DEF IInv, TypeOK
      <4>2. CASE Fail
        <5>1. <<>> \in Seq(Bytes)
          OBVIOUS
        <5>2. QED
          BY <4>2, <5>1, Zenon DEF Fail
      <4>3. CASE Success
        BY <4>1, <4>3, Zenon DEF Success
      <4>4. QED
        BY <2>2, <4>2, <4>3, Zenon
    <3>2. PICK k \in {"ok", "err"}, d \in Seq(Bytes) : Deliver(k, d)
      BY <3>1
    <3>3. CASE handler
      <4>1. results = <<>>
        BY <3>3, Zenon DEF IInv, ResultDeliveredOnce
      <4>2. results' = <<[kind |-> k, data |-> d]>> /\ handler' = FALSE
        BY <3>2, <3>3, <4>1 DEF Deliver
      <4>3. Len(results') <= 1 /\ results' # <<>>
        BY <4>2
      <4>4. (handler = (results = <<>>))'
        BY <4>2, <4>3, Zenon
      <4>5. QED
        BY <3>1, <4>3, <4>4, Zenon DEF ResultDeliveredOnce
    <3>4. CASE ~handler
      <4>1. results' = results /\ handler' = handler
        BY <3>2, <3>4 DEF Deliver
      <4>2. ResultDeliveredOnce
        BY DEF IInv
      <4>3. QED
        BY <3>1, <4>1, <4>2, Zenon DEF ResultDeliveredOnce
    <3>5. QED
      BY <3>3, <3>4 DEF IInv, TypeOK
  <2>3. QED
    BY <2>1, <2>2, ResultStep DEF IInv
<1>3. QED
  BY <1>1, <1>2 DEF IInv

\* Fail and Success are reached from the header callback, the write
\* callback, Redirect, the broker paths and the worker, several of them for
\* one operation: whatever the order, the caller is handed exactly one
\* result, and m_handler is set exactly until it has been.
THEOREM ResultDeliveredOnceProved == Spec => []ResultDeliveredOnce
BY OnceInit, OnceStep, PTL DEF Spec, IInv

-----------------------------------------------------------------------------
(* Fresh header state.                                                     *)

\* HeaderStateFresh, and before Setup the header state of a new
\* HeaderParser.
HInv == TypeOK /\ HeaderStateFresh /\ (xfer = "init" => hdr = EmptyHdr)

\* Storing one header line keeps every field empty or the current
\* response's.
LEMMA StoreFresh ==
    ASSUME NEW h, NEW r, NEW f, DOMAIN h = DOMAIN EmptyHdr,
           \A g \in HdrFields : h[g] \in {EmptyHdr[g], r[g]}
    PROVE  \A g \in HdrFields : [h EXCEPT ![f] = r[f]][g] \in {EmptyHdr[g], r[g]}
BY DEF EmptyHdr, HdrFields

LEMMA FreshInit == Init => HInv
BY InitTypeOK DEF Init, HInv, HeaderStateFresh

LEMMA FreshStep == HInv /\ [Next]_vars => HInv'
<1> SUFFICES ASSUME HInv, [Next]_vars
             PROVE  HeaderStateFresh' /\ (xfer' = "init" => hdr' = EmptyHdr)
  BY NextTypeOK DEF HInv
<1> USE DEF HInv, HeaderStateFresh
<1>1. CASE ReadSetup
  BY <1>1 DEF ReadSetup, Setup, Success, hdrVars
<1>2. CASE Connect /\ UNCHANGED readVars
  <2>1. xfer = "connect" /\ hdr' = hdr /\ xfer' \in {"connfail", "headers"}
    BY <1>2 DEF Connect, OpenSocketCallback, Respond
  <2>2. QED
    BY <2>1
<1>3. CASE HeaderCallback /\ UNCHANGED readVars
  <2>1. xfer = "headers" /\ resp' = resp
    BY <1>3 DEF HeaderCallback
  <2>2. PICK f \in pending :
          \/ hdr' = [hdr EXCEPT ![f] = resp[f]] /\ xfer' = xfer
          \/ xfer' = "failed"
    BY <1>3 DEF HeaderCallback
  <2>3. DOMAIN hdr = DOMAIN EmptyHdr
    BY DEF TypeOK, EmptyHdr
  <2>4. QED
    BY <2>1, <2>2, <2>3, StoreFresh
<1>4. CASE HeaderEnd /\ UNCHANGED readVars
  <2>1. xfer = "headers" /\ resp' = resp /\ xfer' = "body"
        /\ hdr' = [hdr EXCEPT !.done = TRUE]
    BY <1>4 DEF HeaderEnd
  <2>2. \A g \in HdrFields : hdr'[g] = hdr[g]
    BY <2>1 DEF TypeOK, HdrFields
  <2>3. QED
    BY <2>1, <2>2
<1>5. CASE XferInfoCallback /\ UNCHANGED readVars
  BY <1>5 DEF XferInfoCallback
<1>6. CASE Tick /\ UNCHANGED readVars
  BY <1>6 DEF Tick, hdrVars
<1>7. CASE ConnectFailed /\ UNCHANGED readVars
  <2>1. xfer = "connfail" /\ hdr' = hdr
        /\ xfer' \in {"crashed", "waitsock", "released"}
    BY <1>7 DEF ConnectFailed, StartBroker, hdrVars
  <2>2. QED
    BY <2>1
<1>8. CASE WaitSocketCallback /\ UNCHANGED readVars
  BY <1>8 DEF WaitSocketCallback, hdrVars
<1>9. CASE BodyDone /\ UNCHANGED readVars
  BY <1>9 DEF BodyDone, hdrVars
<1>10. CASE (TransferFailed \/ Destroy) /\ UNCHANGED readVars
  BY <1>10 DEF TransferFailed, Destroy
<1>15. CASE Finished /\ UNCHANGED readVars
  BY <1>15 DEF Finished, hdrVars, baseVars, envVars
<1>11. CASE WriteCallback
  <2>1. xfer = "body" /\ hdr' = hdr /\ resp' = resp /\ xfer' \in {"body", "failed"}
    BY <1>11 DEF WriteCallback, Write, RejectChunk, AcceptChunk, hdrVars
  <2>2. QED
    BY <2>1
<1>12. CASE Complete
  <2>1. CASE IsRedirect /\ Redirect /\ UNCHANGED readVars
    <3>1. CASE RedirectWithoutLocation
      BY <2>1, <3>1 DEF RedirectWithoutLocation
    <3>2. CASE RedirectFollow
      BY <3>2 DEF RedirectFollow, RedirectBroker
    <3>3. QED
      BY <2>1, <3>1, <3>2 DEF Redirect
  <2>2. CASE ~IsRedirect /\ Success /\ xfer' = "released"
    BY <2>2
  <2>3. QED
    BY <1>12, <2>1, <2>2 DEF Complete
<1>13. CASE UNCHANGED vars
  BY <1>13 DEF vars, baseVars, hdrVars, envVars
<1>14. QED
  BY <1>1, <1>2, <1>3, <1>4, <1>5, <1>6, <1>7, <1>8, <1>9, <1>10, <1>11,
     <1>12, <1>13, <1>15 DEF Next

\* Whatever redirects, broker waits and failed connections came before,
\* a request goes out with the header state CurlOperation::Redirect reset,
\* and while its headers arrive every field holds its empty value or the
\* current response's: no Location, broker URL, X.509 flag or range of an
\* earlier response survives into the next request.
THEOREM HeaderStateFreshProved == Spec => []HeaderStateFresh
<1>1. Init => HInv
  BY FreshInit
<1>2. HInv /\ [Next]_vars => HInv'
  BY FreshStep
<1>3. QED
  BY <1>1, <1>2, PTL DEF Spec, HInv

-----------------------------------------------------------------------------
(* Ownership of the broker's descriptor.                                   *)

\* The descriptor the operation holds is its own, and the types hold.
SockInv == TypeOK /\ ReverseSocketExclusive

LEMMA SockInit == Init => SockInv
BY InitTypeOK DEF Init, SockInv, ReverseSocketExclusive

\* Every step that sets m_broker_reverse_socket to a descriptor makes that
\* descriptor the operation's, every step that gives a descriptor away
\* (OpenSocketCallback, the destructor) or drops it (Redirect, a failed
\* broker wait) sets m_broker_reverse_socket to -1, and no other step
\* changes the descriptors.
LEMMA SockStep == SockInv /\ [Next]_vars => SockInv'
<1> SUFFICES ASSUME SockInv, [Next]_vars
             PROVE  ReverseSocketExclusive'
  BY NextTypeOK DEF SockInv
<1>0. TypeOK /\ ReverseSocketExclusive
  BY DEF SockInv
<1> DEFINE Kept == reverseSock' = reverseSock /\ fdState' = fdState
<1>1. CASE reverseSock' = NoSock
  BY <1>1 DEF ReverseSocketExclusive
<1>2. CASE Kept
  BY <1>0, <1>2 DEF ReverseSocketExclusive
<1>3. CASE WaitSocketCallback /\ UNCHANGED readVars
  <2>1. CASE \E fd \in Fds :
               /\ fdState[fd] = "free"
               /\ reverseSock' = fd
               /\ fdState' = [fdState EXCEPT ![fd] = "op"]
    <3>1. PICK fd \in Fds : /\ reverseSock' = fd
                            /\ fdState' = [fdState EXCEPT ![fd] = "op"]
      BY <2>1
    <3>2. QED
      BY <1>0, <3>1 DEF ReverseSocketExclusive, TypeOK
  <2>2. CASE reverseSock' = NoSock
    BY <2>2, <1>1
  <2>3. QED
    BY <1>3, <2>1, <2>2 DEF WaitSocketCallback
<1>4. CASE Connect /\ UNCHANGED readVars
  BY <1>4, <1>1, <1>2 DEF Connect, OpenSocketCallback
<1>5. ASSUME ~(reverseSock' = NoSock), ~Kept, ~(WaitSocketCallback /\ UNCHANGED readVars),
             ~(Connect /\ UNCHANGED readVars)
      PROVE  FALSE
  <2>1. CASE ReadSetup
    BY <1>5, <2>1 DEF ReadSetup
  <2>2. CASE (HeaderCallback \/ HeaderEnd \/ XferInfoCallback \/ Tick
              \/ BodyDone \/ TransferFailed) /\ UNCHANGED readVars
    BY <1>5, <2>2 DEF HeaderCallback, HeaderEnd, XferInfoCallback, Tick,
       BodyDone, TransferFailed, brokerVars
  <2>3. CASE ConnectFailed /\ UNCHANGED readVars
    BY <1>5, <2>3 DEF ConnectFailed
  <2>4. CASE (Destroy \/ Finished) /\ UNCHANGED readVars
    BY <1>5, <2>4 DEF Destroy, Finished, baseVars, brokerVars
  <2>5. CASE WriteCallback
    BY <1>5, <2>5 DEF WriteCallback, brokerVars
  <2>6. CASE Complete
    BY <1>5, <2>6 DEF Complete, Redirect, brokerVars
  <2>7. CASE UNCHANGED vars
    BY <1>5, <2>7 DEF vars, baseVars, brokerVars
  <2>8. QED
    BY <1>5, <2>1, <2>2, <2>3, <2>4, <2>5, <2>6, <2>7 DEF Next
<1>6. QED
  BY <1>1, <1>2, <1>3, <1>4, <1>5

\* OpenSocketCallback hands the broker's descriptor to curl and forgets it,
\* the destructor closes it and forgets it, and WaitSocketCallback only
\* takes a descriptor the broker has just handed over: through any sequence
\* of broker retries, reused connections, redirects with broker hints,
\* timeouts and releases, m_broker_reverse_socket never names a descriptor
\* curl owns or one already closed, so the destructor's close never hits
\* curl's socket.
THEOREM ReverseSocketExclusiveProved == Spec => []ReverseSocketExclusive
<1>1. Init => SockInv
  BY SockInit
<1>2. SockInv /\ [Next]_vars => SockInv'
  BY SockStep
<1>3. QED
  BY <1>1, <1>2, PTL DEF Spec, SockInv

=============================================================================
