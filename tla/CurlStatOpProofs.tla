--------------------------- MODULE CurlStatOpProofs ---------------------------
(***************************************************************************)
(* Proofs about the stat, open and listdir model: StatResultCorrect holds  *)
(* for every value of the constants.  The argument: m_response only ever   *)
(* holds pages and the units of the current response's document, a        *)
(* document reaches it only from a 207 answer to a PROPFIND, m_length is   *)
(* -1 until the operation is released, and so GetStatInfo at Success       *)
(* reads either the final Content-Length or the final multistatus; the     *)
(* second GetStatInfo of an open agrees with the first.                    *)
(***************************************************************************)
EXTENDS CurlStatOp, TLAPS, SequenceTheorems

Units == Docs \cup {Page}

Status == {0, 200, 207, 302, 404}

RespType == [status : Status, location : BOOLEAN, hint : BOOLEAN,
             cl : Lengths \cup {NoLen}, doc : Units, size : Nat]

XferStates == {"init", "connect", "body", "failed", "complete", "released", "threw"}

TypeOK ==
    /\ kind \in Kinds
    /\ pelican \in BOOLEAN
    /\ origin \in BOOLEAN
    /\ dcache \in BOOLEAN
    /\ handler \in BOOLEAN
    /\ done \in BOOLEAN
    /\ results \in Seq(Outcome)
    /\ propfind \in BOOLEAN
    /\ noBody \in BOOLEAN
    /\ xfer \in XferStates
    /\ resp \in RespType
    /\ bodyLeft \in Seq(Units)
    /\ response \in Seq(Units)
    /\ redirects \in Nat
    /\ length \in Lengths \cup {NoLen}
    /\ isDir \in BOOLEAN
    /\ fileProps \subseteq {"LastURL", "ContentLength"}
    /\ mirror \in Nat
    /\ cache \subseteq Nat

\* The handler is set exactly until the one result is delivered.
Once == handler = (results = <<>>) /\ Len(results) <= 1

\* m_length is only set by the Success that ends the operation.
Memo == xfer # "released" => length = NoLen

\* What the current response can be.
RespShape ==
    /\ xfer \in {"init", "connect"} => resp.doc = Page /\ resp.status \in {0, 302}
    /\ resp.doc # Page => resp.status = 207
    /\ resp.status = 207 => (kind = "listdir" \/ propfind)
    /\ resp.status >= 400 => ~handler
    /\ resp.status = 0 => resp.cl = NoLen

\* m_response holds pages and units of the current document; the body
\* still to come is the current document.
UnitsFrom ==
    /\ \A i \in 1..Len(response) : response[i] \in {Page, resp.doc}
    /\ \A i \in 1..Len(bodyLeft) : bodyLeft[i] = resp.doc

\* A success is delivered only by the step that releases the operation.
OkFinal == \A i \in 1..Len(results) : results[i].kind = "ok" => xfer = "released"

SInv == TypeOK /\ Once /\ Memo /\ RespShape /\ UnitsFrom /\ OkFinal
        /\ StatResultCorrect

InfoType == [size : Lengths \cup {NoLen}, dir : BOOLEAN,
             length : Lengths \cup {NoLen}, isDir : BOOLEAN, threw : BOOLEAN]

-----------------------------------------------------------------------------
(* Facts about the data.                                                   *)

LEMMA PageNotDoc == Page \notin Docs
BY StatAssumption DEF Page, Docs, NoLen, Garbage

LEMMA ErrOutcome == Err \in Outcome
BY StatAssumption DEF Err, Outcome, NoLen

\* ParseProp throws exactly on a getcontentlength std::stoll rejects.
LEMMA ParsePropThrows ==
    ASSUME NEW d, NEW len, d.len = Garbage
    PROVE  ParseProp(d, len).threw
BY DEF ParseProp

\* The fields ParseProp returns.
LEMMA ParsePropFields ==
    ASSUME NEW d, NEW len
    PROVE  /\ ParseProp(d, len).size = IF d.len \in {NoLen, Garbage} THEN len ELSE d.len
           /\ ParseProp(d, len).length = IF d.len \in {NoLen, Garbage} THEN len ELSE d.len
           /\ ParseProp(d, len).dir = d.dir
           /\ ParseProp(d, len).isDir = d.dir
BY DEF ParseProp

\* What GetStatInfo returns is a stat info record.
LEMMA StatInfoType ==
    ASSUME TypeOK, NEW len \in Lengths \cup {NoLen}, NEW dir \in BOOLEAN
    PROVE  GetStatInfo(len, dir) \in InfoType
<1>1. CASE ~propfind
  BY <1>1 DEF TypeOK, GetStatInfo, InfoType, RespType
<1>2. CASE propfind /\ len >= 0
  BY <1>2 DEF GetStatInfo, InfoType
<1>3. CASE propfind /\ ~(len >= 0) /\ ~IsMultistatus(response)
  BY <1>3 DEF GetStatInfo, InfoType
<1>4. CASE propfind /\ ~(len >= 0) /\ IsMultistatus(response)
  <2>1. response[1] \in Docs
    BY <1>4 DEF IsMultistatus
  <2>2. PICK l \in Lengths \cup {NoLen} \cup (IF BadLength THEN {Garbage} ELSE {}),
             d \in BOOLEAN : response[1] = [len |-> l, dir |-> d]
    BY <2>1 DEF Docs
  <2>3. ParseProp(response[1], len) \in InfoType
    BY <2>2, StatAssumption DEF ParseProp, InfoType, NoLen, Garbage
  <2>4. QED
    BY <1>4, <2>3 DEF GetStatInfo
<1>5. QED
  BY <1>1, <1>2, <1>3, <1>4

\* At Success with m_length unset, a stat info that is neither thrown nor
\* sizeless describes the final answer.
LEMMA StatInfoCorrect ==
    ASSUME TypeOK, RespShape, UnitsFrom, kind # "listdir",
           resp.status \in {0, 200, 207}, NEW dir \in BOOLEAN,
           ~GetStatInfo(NoLen, dir).threw, GetStatInfo(NoLen, dir).size >= 0
    PROVE  /\ resp.status \in {200, 207}
           /\ GetStatInfo(NoLen, dir).size = ServerSize(resp)
           /\ GetStatInfo(NoLen, dir).size # NoLen
           /\ GetStatInfo(NoLen, dir).dir = ServerDir(resp)
<1>1. CASE ~propfind
  <2>1. GetStatInfo(NoLen, dir).size = resp.cl /\ GetStatInfo(NoLen, dir).dir = FALSE
    BY <1>1 DEF GetStatInfo
  <2>2. resp.cl >= 0
    BY <2>1
  <2>3. resp.status = 200
    BY <1>1, <2>2 DEF RespShape, NoLen
  <2>4. ServerSize(resp) = resp.cl
    BY <2>3 DEF ServerSize
  <2>5. ServerDir(resp) = FALSE
    BY <2>3 DEF ServerDir
  <2>6. GetStatInfo(NoLen, dir).size = ServerSize(resp)
        /\ GetStatInfo(NoLen, dir).size # NoLen
    BY <2>1, <2>2, <2>4 DEF NoLen
  <2>7. GetStatInfo(NoLen, dir).dir = ServerDir(resp)
    BY <2>1, <2>5
  <2>8. QED
    BY <2>3, <2>6, <2>7
<1>2. CASE propfind
  <2>1. ~(NoLen >= 0)
    BY DEF NoLen
  <2>2. IsMultistatus(response)
    BY <1>2, <2>1 DEF GetStatInfo, NoLen
  <2>3. GetStatInfo(NoLen, dir) = ParseProp(response[1], NoLen)
    BY <1>2, <2>1, <2>2 DEF GetStatInfo
  <2>4. response[1] \in Docs /\ 1 \in 1..Len(response)
    BY <2>2, TypeOK DEF IsMultistatus, TypeOK
  <2>5. response[1] = resp.doc
    BY <2>4, PageNotDoc DEF UnitsFrom
  <2>6. resp.status = 207 /\ resp.doc \in Docs
    BY <2>4, <2>5, PageNotDoc DEF RespShape
  <2>7. PICK l \in Lengths \cup {NoLen} \cup (IF BadLength THEN {Garbage} ELSE {}),
             d \in BOOLEAN : resp.doc = [len |-> l, dir |-> d]
    BY <2>6 DEF Docs
  <2>8. l # Garbage /\ l # NoLen
    BY <2>3, <2>5, <2>7, StatAssumption DEF ParseProp, NoLen, Garbage
  <2>9. l \in Lengths
    BY <2>7, <2>8
  <2>10. QED
    BY <2>3, <2>5, <2>6, <2>7, <2>8, <2>9, StatAssumption
    DEF ParseProp, ServerSize, ServerDir, NoLen, Garbage
<1>3. QED
  BY <1>1, <1>2

\* The second GetStatInfo of CurlOpenOp::Success, on the memo the first
\* left, agrees with the first.
LEMMA SecondCall ==
    ASSUME TypeOK, NEW dir \in BOOLEAN, ~GetStatInfo(NoLen, dir).threw
    PROVE  /\ GetStatInfo(GetStatInfo(NoLen, dir).length,
                          GetStatInfo(NoLen, dir).isDir).size
              = GetStatInfo(NoLen, dir).size
           /\ GetStatInfo(GetStatInfo(NoLen, dir).length,
                          GetStatInfo(NoLen, dir).isDir).dir
              = GetStatInfo(NoLen, dir).dir
           /\ ~GetStatInfo(GetStatInfo(NoLen, dir).length,
                           GetStatInfo(NoLen, dir).isDir).threw
<1> DEFINE f == GetStatInfo(NoLen, dir)
<1>1. ~(NoLen >= 0)
  BY DEF NoLen
<1>2. CASE ~propfind
  BY <1>2 DEF GetStatInfo
<1>3. CASE propfind /\ ~IsMultistatus(response)
  <2>1. f = [size |-> NoLen, dir |-> FALSE, length |-> NoLen, isDir |-> dir,
             threw |-> FALSE]
    BY <1>1, <1>3 DEF GetStatInfo
  <2>2. QED
    BY <1>1, <1>3, <2>1 DEF GetStatInfo
<1>4. CASE propfind /\ IsMultistatus(response)
  <2>1. response[1] \in Docs
    BY <1>4 DEF IsMultistatus
  <2>2. PICK l \in Lengths \cup {NoLen} \cup (IF BadLength THEN {Garbage} ELSE {}),
             d \in BOOLEAN : response[1] = [len |-> l, dir |-> d]
    BY <2>1 DEF Docs
  <2>3. f = ParseProp(response[1], NoLen)
    BY <1>1, <1>4 DEF GetStatInfo
  <2>4. l # Garbage
    <3>1. SUFFICES ASSUME l = Garbage PROVE FALSE
      OBVIOUS
    <3>a. response[1].len = Garbage
      BY <2>2, <3>1
    <3>2. f.threw
      BY <2>3, <3>a, ParsePropThrows
    <3>3. QED
      BY <3>2
  <2>5. CASE l = NoLen
    <3>1. f.length = NoLen /\ f.isDir = d
      BY <2>2, <2>3, <2>5, ParsePropFields
    <3>2. GetStatInfo(f.length, f.isDir) = f
      BY <1>1, <1>4, <2>3, <3>1 DEF GetStatInfo
    <3>3. QED
      BY <3>2
  <2>6. CASE l # NoLen
    <3>1. l \in Lengths /\ l >= 0
      <4>1. l \in Lengths \/ l = NoLen \/ l = Garbage
        BY <2>2, Zenon
      <4>2. l \in Lengths
        BY <2>4, <2>6, <4>1, Zenon
      <4>3. QED
        BY <4>2, StatAssumption
    <3>2. f.length = l /\ f.size = l /\ f.dir = d /\ f.isDir = d
      BY <2>2, <2>3, <2>4, <2>6, StatAssumption, ParsePropFields
    <3>3. GetStatInfo(f.length, f.isDir)
          = [size |-> l, dir |-> d, length |-> l, isDir |-> d, threw |-> FALSE]
      BY <1>4, <3>1, <3>2 DEF GetStatInfo
    <3>4. QED
      BY <3>2, <3>3
  <2>7. QED
    BY <2>5, <2>6
<1>5. QED
  BY <1>2, <1>3, <1>4

-----------------------------------------------------------------------------
(* The steps.                                                              *)

\* The handler call: at most one result, appended while m_handler is set.
LEMMA DeliverStep ==
    ASSUME TypeOK, Once, NEW o \in Outcome, Deliver(o)
    PROVE  /\ results' \in Seq(Outcome)
           /\ handler' \in BOOLEAN
           /\ Once'
           /\ ~handler'
           /\ \/ results' = results /\ handler' = handler
              \/ handler /\ results = <<>> /\ results' = <<o>> /\ ~handler'
<1>1. CASE handler
  <2>1. results = <<>>
    BY <1>1, Zenon DEF Once
  <2>2. results' = <<o>> /\ handler' = FALSE
    BY <1>1, <2>1 DEF Deliver
  <2>3. results' # <<>> /\ Len(results') = 1 /\ results' \in Seq(Outcome)
    BY <2>2
  <2>4. Once'
    <3>1. (handler = (results = <<>>))'
      BY <2>2, <2>3, Zenon
    <3>2. Len(results') <= 1
      BY <2>3
    <3>3. QED
      BY <3>1, <3>2 DEF Once
  <2>5. QED
    BY <1>1, <2>1, <2>2, <2>3, <2>4
<1>2. CASE ~handler
  <2>1. results' = results /\ handler' = handler
    BY <1>2 DEF Deliver
  <2>2. ~handler'
    BY <1>2, <2>1, Zenon
  <2>3. Once'
    BY <2>1, Zenon DEF Once
  <2>4. QED
    BY <2>1, <2>2, <2>3 DEF TypeOK
<1>3. QED
  BY <1>1, <1>2 DEF TypeOK

\* Before the release, no success has been delivered.
LEMMA NoOkYet ==
    ASSUME OkFinal, xfer # "released"
    PROVE  \A i \in 1..Len(results) : results[i].kind # "ok"
BY DEF OkFinal

\* What a server can answer.
LEMMA ResponseFacts ==
    ASSUME TypeOK, NEW r \in ServerResponses
    PROVE  /\ r \in RespType
           /\ r.doc # Page => r.status = 207
           /\ r.status = 207 => (kind = "listdir" \/ propfind)
           /\ r.status \in {200, 207, 302, 404}
           /\ Body(r) \in Seq(Units)
           /\ \A i \in 1..Len(Body(r)) : Body(r)[i] = r.doc
<1>1. r \in RespType /\ (r.doc # Page => r.status = 207)
      /\ (r.status = 207 => Method = "PROPFIND") /\ r.status \in {200, 207, 302, 404}
  <2>1. CASE r \in RedirectResponses
    <3>1. PICK l \in BOOLEAN, m \in BOOLEAN :
            r = [status |-> 302, location |-> l, hint |-> m, cl |-> NoLen, doc |-> Page,
                 size |-> IF RedirectBody THEN 1 ELSE 0]
      BY <2>1 DEF RedirectResponses
    <3>2. QED
      BY <3>1 DEF RespType, Units, Status, NoLen
  <2>2. CASE r \in ErrorResponses
    <3>1. PICK c \in Lengths \cup {NoLen}, n \in 1..MaxBody :
            r = [status |-> 404, location |-> FALSE, hint |-> FALSE, cl |-> c,
                 doc |-> Page, size |-> n]
      BY <2>2 DEF ErrorResponses
    <3>2. QED
      BY <3>1, StatAssumption DEF RespType, Units, Status
  <2>3. CASE r \in Answers /\ Method = "PROPFIND"
    <3>1. PICK d \in Docs \cup {Page}, n \in 1..MaxBody :
            r = [status |-> 207, location |-> FALSE, hint |-> FALSE, cl |-> NoLen,
                 doc |-> d, size |-> n]
      BY <2>3 DEF Answers
    <3>2. QED
      BY <2>3, <3>1, StatAssumption DEF RespType, Units, Status, NoLen
  <2>4. CASE r \in Answers /\ Method # "PROPFIND"
    <3>1. PICK c \in Lengths \cup {NoLen}, n \in 1..MaxBody :
            r = [status |-> 200, location |-> FALSE, hint |-> FALSE, cl |-> c,
                 doc |-> Page, size |-> n]
      BY <2>4 DEF Answers
    <3>2. QED
      BY <3>1, StatAssumption DEF RespType, Units, Status
  <2>5. QED
    BY <2>1, <2>2, <2>3, <2>4 DEF ServerResponses
<1>2. Method = "PROPFIND" => (kind = "listdir" \/ propfind)
  BY DEF Method
<1>3. r.size \in Nat /\ r.doc \in Units
  BY <1>1 DEF RespType
<1>4. Body(r) \in Seq(Units) /\ \A i \in 1..Len(Body(r)) : Body(r)[i] = r.doc
  BY <1>3 DEF Body
<1>5. QED
  BY <1>1, <1>2, <1>4

LEMMA InitSInv == Init => SInv
<1> SUFFICES ASSUME Init PROVE SInv
  OBVIOUS
<1>1. TypeOK
  <2>1. resp \in RespType
    BY DEF Init, NoResponse, RespType, Status, Units, NoLen
  <2>2. length \in Lengths \cup {NoLen} /\ mirror \in Nat /\ cache \subseteq Nat
    BY DEF Init, NoLen, NoMirror
  <2>3. results \in Seq(Outcome) /\ bodyLeft \in Seq(Units) /\ response \in Seq(Units)
    BY DEF Init
  <2>4. QED
    BY <2>1, <2>2, <2>3 DEF Init, TypeOK, XferStates
<1>2. Once
  <2>1. handler = (results = <<>>)
    BY Zenon DEF Init
  <2>2. Len(results) <= 1
    BY DEF Init
  <2>3. QED
    BY <2>1, <2>2 DEF Once
<1>3. QED
  BY <1>1, <1>2 DEF Init, SInv, Memo, RespShape, NoResponse, UnitsFrom, OkFinal,
     StatResultCorrect

LEMMA SetupSInv ==
    ASSUME SInv, Setup
    PROVE  SInv'
<1>1. TypeOK'
  BY DEF SInv, Setup, TypeOK, XferStates, opVars, resultVars
<1>2. Once'
  BY Zenon DEF SInv, Setup, Once, resultVars
<1>3. QED
  BY <1>1, <1>2 DEF SInv, Setup, Memo, RespShape, UnitsFrom, OkFinal,
     StatResultCorrect, opVars, resultVars

LEMMA RespondSInv ==
    ASSUME SInv, Respond
    PROVE  SInv'
<1>1. PICK r \in ServerResponses :
        /\ resp' = r
        /\ bodyLeft' = IF Method = "HEAD" THEN <<>> ELSE Body(r)
        /\ IF HTTPStatusIsError(r.status) THEN Fail ELSE UNCHANGED resultVars
  BY DEF Respond
<1>2. r \in RespType /\ (r.doc # Page => r.status = 207)
      /\ (r.status = 207 => (kind = "listdir" \/ propfind))
      /\ r.status \in {200, 207, 302, 404}
      /\ bodyLeft' \in Seq(Units) /\ \A i \in 1..Len(bodyLeft') : bodyLeft'[i] = r.doc
  BY <1>1, ResponseFacts DEF SInv
<1>3. /\ xfer = "connect" /\ xfer' = "body"
      /\ UNCHANGED <<opVars, propfind, noBody, redirects, response, length, isDir,
                     fileProps, mirror, cache>>
  BY DEF Respond
<1>4. resp.doc = Page
  BY <1>3 DEF SInv, RespShape
<1>5. \A i \in 1..Len(results) : results[i].kind # "ok"
  BY <1>3, NoOkYet DEF SInv
<1>6. /\ results' \in Seq(Outcome) /\ handler' \in BOOLEAN /\ done' \in BOOLEAN
      /\ Once'
      /\ \/ results' = results
         \/ results' = <<Err>>
      /\ (r.status >= 400 => ~handler')
  <2>1. CASE HTTPStatusIsError(r.status)
    BY <1>1, <2>1, DeliverStep, ErrOutcome DEF Fail, SInv, HTTPStatusIsError
  <2>2. CASE ~HTTPStatusIsError(r.status)
    BY <1>1, <2>2 DEF SInv, TypeOK, Once, HTTPStatusIsError, resultVars
  <2>3. QED
    BY <2>1, <2>2
<1>7. \A i \in 1..Len(results') : results'[i].kind # "ok"
  BY <1>5, <1>6 DEF Err
<1>8. TypeOK'
  BY <1>1, <1>2, <1>3, <1>6 DEF SInv, TypeOK, XferStates, opVars
<1>9. RespShape'
  BY <1>1, <1>2, <1>3, <1>6 DEF SInv, RespShape, opVars
<1>10. UnitsFrom'
  BY <1>1, <1>2, <1>3, <1>4 DEF SInv, UnitsFrom
<1>11. QED
  BY <1>3, <1>6, <1>7, <1>8, <1>9, <1>10
  DEF SInv, Memo, OkFinal, StatResultCorrect

\* Appending a chunk keeps every unit of m_response in a set.
LEMMA ConcatUnits ==
    ASSUME NEW S, NEW A, NEW u \in Seq(S), NEW v \in Seq(S),
           \A i \in 1..Len(u) : u[i] \in A, \A i \in 1..Len(v) : v[i] \in A
    PROVE  u \o v \in Seq(S) /\ \A i \in 1..Len(u \o v) : (u \o v)[i] \in A
<1>1. u \o v \in Seq(S) /\ Len(u \o v) = Len(u) + Len(v)
  OBVIOUS
<1>2. \A i \in 1..Len(u \o v) :
        (u \o v)[i] = IF i <= Len(u) THEN u[i] ELSE v[i - Len(u)]
  OBVIOUS
<1>3. QED
  BY <1>1, <1>2

\* A write callback either aborts the transfer or consumes the chunk,
\* appending it to m_response or dropping it.
LEMMA WriteOutcome ==
    ASSUME NEW chunk, NEW n \in Nat, chunk = SubSeq(bodyLeft, 1, n),
           StatWrite(chunk) \/ ListWrite(chunk)
    PROVE  \/ xfer' = "failed" /\ response' = response /\ bodyLeft' = bodyLeft
           \/ /\ xfer' = xfer
              /\ response' \in {response, response \o chunk}
              /\ bodyLeft' = SubSeq(bodyLeft, n + 1, Len(bodyLeft))
BY DEF StatWrite, ListWrite

LEMMA WriteCallbackSInv ==
    ASSUME SInv, WriteCallback
    PROVE  SInv'
<1>1. PICK n \in 1..MaxChunk :
        /\ n <= Len(bodyLeft)
        /\ IF kind = "listdir" THEN ListWrite(SubSeq(bodyLeft, 1, n))
           ELSE StatWrite(SubSeq(bodyLeft, 1, n))
  BY DEF WriteCallback
<1>2. /\ xfer = "body"
      /\ UNCHANGED <<opVars, resultVars, propfind, noBody, resp, redirects, length,
                     isDir, fileProps, mirror, cache>>
  BY DEF WriteCallback
<1>3. n \in Nat /\ bodyLeft \in Seq(Units) /\ response \in Seq(Units)
  BY StatAssumption DEF SInv, TypeOK
<1>4. \/ xfer' = "failed" /\ response' = response /\ bodyLeft' = bodyLeft
      \/ /\ xfer' = xfer
         /\ response' \in {response, response \o SubSeq(bodyLeft, 1, n)}
         /\ bodyLeft' = SubSeq(bodyLeft, n + 1, Len(bodyLeft))
  BY <1>1, <1>3, WriteOutcome
<1>5. /\ SubSeq(bodyLeft, 1, n) \in Seq(Units)
      /\ \A i \in 1..Len(SubSeq(bodyLeft, 1, n)) : SubSeq(bodyLeft, 1, n)[i] = resp.doc
      /\ SubSeq(bodyLeft, n + 1, Len(bodyLeft)) \in Seq(Units)
      /\ \A i \in 1..Len(SubSeq(bodyLeft, n + 1, Len(bodyLeft))) :
            SubSeq(bodyLeft, n + 1, Len(bodyLeft))[i] = resp.doc
  BY <1>1, <1>3 DEF SInv, UnitsFrom
<1>6. /\ response' \in Seq(Units)
      /\ \A i \in 1..Len(response') : response'[i] \in {Page, resp.doc}
      /\ bodyLeft' \in Seq(Units)
      /\ \A i \in 1..Len(bodyLeft') : bodyLeft'[i] = resp.doc
  <2>1. CASE xfer' = "failed" /\ response' = response /\ bodyLeft' = bodyLeft
    BY <2>1 DEF SInv, UnitsFrom, TypeOK
  <2>2. CASE response' = response /\ bodyLeft' = SubSeq(bodyLeft, n + 1, Len(bodyLeft))
    BY <1>5, <2>2 DEF SInv, UnitsFrom, TypeOK
  <2>3. CASE response' = response \o SubSeq(bodyLeft, 1, n)
             /\ bodyLeft' = SubSeq(bodyLeft, n + 1, Len(bodyLeft))
    <3>1. \A i \in 1..Len(SubSeq(bodyLeft, 1, n)) :
            SubSeq(bodyLeft, 1, n)[i] \in {Page, resp.doc}
      BY <1>5
    <3>2. response \o SubSeq(bodyLeft, 1, n) \in Seq(Units)
          /\ \A i \in 1..Len(response \o SubSeq(bodyLeft, 1, n)) :
                (response \o SubSeq(bodyLeft, 1, n))[i] \in {Page, resp.doc}
      BY <1>3, <1>5, <3>1, ConcatUnits DEF SInv, UnitsFrom
    <3>3. QED
      BY <1>5, <2>3, <3>2
  <2>4. QED
    BY <1>4, <2>1, <2>2, <2>3
<1>7. xfer' \in {"body", "failed"}
  BY <1>2, <1>4
<1>8. TypeOK'
  BY <1>2, <1>6, <1>7 DEF SInv, TypeOK, XferStates, opVars, resultVars
<1>9. Once' /\ OkFinal' /\ StatResultCorrect'
  BY <1>2, <1>7, NoOkYet DEF SInv, Once, OkFinal, StatResultCorrect, resultVars
<1>10. QED
  BY <1>2, <1>6, <1>7, <1>8, <1>9 DEF SInv, Memo, RespShape, UnitsFrom, opVars,
     resultVars

LEMMA BodyDoneSInv ==
    ASSUME SInv, BodyDone
    PROVE  SInv'
<1>1. TypeOK'
  BY DEF SInv, BodyDone, TypeOK, XferStates, opVars, resultVars
<1>2. Once'
  BY Zenon DEF SInv, BodyDone, Once, resultVars
<1>3. QED
  BY <1>1, <1>2, NoOkYet DEF SInv, BodyDone, Memo, RespShape, UnitsFrom, OkFinal,
     StatResultCorrect, opVars, resultVars

LEMMA TransferFailedSInv ==
    ASSUME SInv, TransferFailed
    PROVE  SInv'
<1>1. /\ results' \in Seq(Outcome) /\ handler' \in BOOLEAN /\ Once' /\ ~handler'
      /\ (results' = results \/ results' = <<Err>>)
  BY ErrOutcome, DeliverStep DEF SInv, TransferFailed, Fail
<1>2. \A i \in 1..Len(results') : results'[i].kind # "ok"
  <2>1. \A i \in 1..Len(results) : results[i].kind # "ok"
    BY NoOkYet DEF SInv, TransferFailed
  <2>2. QED
    BY <1>1, <2>1 DEF Err
<1>3. TypeOK'
  BY <1>1 DEF SInv, TransferFailed, Fail, TypeOK, XferStates, opVars
<1>4. QED
  BY <1>1, <1>2, <1>3 DEF SInv, TransferFailed, Memo, RespShape, UnitsFrom,
     OkFinal, StatResultCorrect, opVars

\* A 3xx at completion: CurlOperation::Redirect either fails the operation
\* (no Location) or sends the request again; m_length stays unset.
LEMMA RedirectSInv ==
    ASSUME SInv, xfer = "complete", IsRedirect, Redirect
    PROVE  SInv'
<1>1. resp.status = 302 /\ resp.doc = Page
  BY DEF SInv, TypeOK, RespType, Status, IsRedirect, RespShape
<1>2. \A i \in 1..Len(results) : results[i].kind # "ok"
  BY NoOkYet DEF SInv
<1>3. UNCHANGED <<opVars, resp, bodyLeft, response, length, isDir, fileProps, cache>>
  BY DEF Redirect
<1>4. propfind' \in BOOLEAN /\ noBody' \in BOOLEAN
  BY DEF Redirect, SInv, TypeOK
<1>5. length = NoLen
  BY DEF SInv, Memo
<1>6. CASE ~resp.location /\ Fail /\ xfer' = "released" /\ UNCHANGED <<redirects, mirror>>
  <2>1. /\ results' \in Seq(Outcome) /\ handler' \in BOOLEAN /\ Once' /\ ~handler'
        /\ (results' = results \/ results' = <<Err>>)
    BY <1>6, ErrOutcome, DeliverStep DEF SInv, Fail
  <2>2. \A i \in 1..Len(results') : results'[i].kind # "ok"
    BY <1>2, <2>1 DEF Err
  <2>3. TypeOK'
    BY <1>3, <1>4, <1>6, <2>1 DEF SInv, TypeOK, XferStates, Fail, opVars
  <2>4. QED
    BY <1>1, <1>3, <1>6, <2>1, <2>2, <2>3 DEF SInv, Memo, RespShape, UnitsFrom,
       OkFinal, StatResultCorrect, opVars
<1>7. CASE /\ resp.location /\ xfer' = "connect" /\ redirects' = redirects + 1
           /\ mirror' = IF resp.hint THEN redirects + 1 ELSE NoMirror
           /\ UNCHANGED resultVars
  <2>1. TypeOK'
    BY <1>3, <1>4, <1>7 DEF SInv, TypeOK, XferStates, NoMirror, opVars, resultVars
  <2>2. Once'
    BY <1>7, Zenon DEF SInv, Once, resultVars
  <2>3. \A i \in 1..Len(results') : results'[i].kind # "ok"
    BY <1>2, <1>7 DEF resultVars
  <2>4. QED
    BY <1>1, <1>3, <1>5, <1>7, <2>1, <2>2, <2>3 DEF SInv, Memo, RespShape,
       UnitsFrom, OkFinal, StatResultCorrect, opVars, resultVars
<1>8. QED
  BY <1>6, <1>7 DEF Redirect

\* The fields of a stat info record.
LEMMA InfoFields ==
    ASSUME NEW info \in InfoType
    PROVE  /\ info.size \in Lengths \cup {NoLen}
           /\ info.length \in Lengths \cup {NoLen}
           /\ info.dir \in BOOLEAN
           /\ info.isDir \in BOOLEAN
           /\ info.threw \in BOOLEAN
BY DEF InfoType

\* A length or the unknown length -1.
LEMMA LenFacts ==
    ASSUME NEW x \in Lengths \cup {NoLen}
    PROVE  /\ x \in Int
           /\ x < 0 \/ x >= 0
           /\ x >= 0 => ~(x < 0) /\ x # NoLen
BY StatAssumption DEF NoLen

\* The size of a stat info is a length or unknown.
LEMMA InfoSizeSplit ==
    ASSUME NEW info \in InfoType
    PROVE  info.size < 0 \/ info.size >= 0
<1>1. info.size \in Lengths \cup {NoLen}
  BY InfoFields
<1>2. QED
  BY <1>1, LenFacts, Zenon

\* Success on a known size: the mirror step and the handler call.
LEMMA StatDeliverOk ==
    ASSUME NEW info, info.threw = FALSE, ~(info.size < 0), StatDeliver(info)
    PROVE  /\ xfer' = "released" /\ done' = TRUE /\ PutMirror
           /\ length' = info.length /\ isDir' = info.isDir
           /\ Deliver([kind |-> "ok", size |-> info.size, dir |-> info.dir,
                       data |-> <<>>])
BY Zenon DEF StatDeliver

\* CurlStatOp::Success after GetStatInfo: whatever it hands over satisfies
\* the invariant, provided a success it can deliver describes the final
\* answer.
LEMMA StatDeliverSInv ==
    ASSUME SInv, xfer = "complete", kind # "listdir", NEW info \in InfoType,
           (~info.threw /\ info.size >= 0 /\ handler) =>
             /\ resp.status \in {200, 207}
             /\ info.size = ServerSize(resp)
             /\ info.size # NoLen
             /\ info.dir = ServerDir(resp)
             /\ (kind = "open" => ~info.dir),
           StatDeliver(info),
           UNCHANGED <<opVars, propfind, noBody, resp, bodyLeft, redirects,
                       response, mirror>>,
           fileProps' \subseteq {"LastURL", "ContentLength"}
    PROVE  SInv'
<1>1. \A i \in 1..Len(results) : results[i].kind # "ok"
  BY NoOkYet DEF SInv
<1>2. length = NoLen
  BY DEF SInv, Memo
<1>3. CASE info.threw
  <2>1. xfer' = "threw" /\ UNCHANGED <<handler, results, length, isDir, cache>>
        /\ done' = TRUE
    BY <1>3 DEF StatDeliver
  <2>2. TypeOK'
    BY <2>1 DEF SInv, TypeOK, XferStates, opVars
  <2>3. Once'
    BY <2>1, Zenon DEF SInv, Once
  <2>4. QED
    BY <1>1, <1>2, <2>1, <2>2, <2>3 DEF SInv, Memo, RespShape, UnitsFrom,
       OkFinal, StatResultCorrect, opVars
<1>4. CASE ~info.threw /\ info.size < 0
  <2>1. /\ xfer' = "released" /\ done' = TRUE /\ Deliver(Err) /\ UNCHANGED cache
        /\ length' = info.length /\ isDir' = info.isDir
    BY <1>4 DEF StatDeliver
  <2>2. /\ results' \in Seq(Outcome) /\ handler' \in BOOLEAN /\ Once' /\ ~handler'
        /\ (results' = results \/ results' = <<Err>>)
    BY <2>1, ErrOutcome, DeliverStep DEF SInv
  <2>3. \A i \in 1..Len(results') : results'[i].kind # "ok"
    BY <1>1, <2>2 DEF Err
  <2>4. TypeOK'
    BY <2>1, <2>2 DEF SInv, TypeOK, XferStates, InfoType, opVars
  <2>5. QED
    BY <2>1, <2>2, <2>3, <2>4 DEF SInv, Memo, RespShape, UnitsFrom,
       OkFinal, StatResultCorrect, opVars
<1>5. CASE ~info.threw /\ info.size >= 0
  <2> DEFINE o == [kind |-> "ok", size |-> info.size, dir |-> info.dir, data |-> <<>>]
  <2>1. /\ xfer' = "released" /\ done' = TRUE /\ Deliver(o) /\ PutMirror
        /\ length' = info.length /\ isDir' = info.isDir
    <3>1. info.threw = FALSE
      BY <1>5, InfoFields, Zenon
    <3>a. ~(info.size < 0)
      BY <1>5, InfoFields, LenFacts, Zenon
    <3>2. QED
      BY <3>1, <3>a, StatDeliverOk DEF o
  <2>2. o \in Outcome
    BY DEF InfoType, Outcome, o
  <2>3. /\ results' \in Seq(Outcome) /\ handler' \in BOOLEAN /\ Once' /\ ~handler'
        /\ \/ results' = results
           \/ handler /\ results' = <<o>>
    BY <2>1, <2>2, DeliverStep DEF SInv
  <2>4. cache' \subseteq Nat
    BY <2>1 DEF PutMirror, SInv, TypeOK
  <2>5. TypeOK'
    BY <2>1, <2>3, <2>4 DEF SInv, TypeOK, XferStates, InfoType, opVars
  <2>6. StatResultCorrect'
    <3>1. CASE results' = results
      BY <1>1, <3>1 DEF StatResultCorrect
    <3>2. CASE handler /\ results' = <<o>>
      <4>1. /\ resp.status \in {200, 207}
            /\ info.size = ServerSize(resp)
            /\ info.size # NoLen
            /\ info.dir = ServerDir(resp)
            /\ (kind = "open" => ~info.dir)
        BY <1>5, <3>2
      <4>2. QED
        BY <3>2, <4>1 DEF StatResultCorrect, opVars
    <3>3. QED
      BY <2>3, <3>1, <3>2
  <2>7. QED
    BY <2>1, <2>3, <2>5, <2>6 DEF SInv, Memo, RespShape, UnitsFrom,
       OkFinal, opVars
<1>6. info.size < 0 \/ info.size >= 0
  BY InfoSizeSplit
<1>7. QED
  BY <1>3, <1>4, <1>5, <1>6, Zenon

\* A Success runs with the handler set only on a 2xx or on a response
\* that never reached the header callback.
LEMMA SuccessStatus ==
    ASSUME SInv, ~IsRedirect, handler
    PROVE  resp.status \in {0, 200, 207}
BY DEF SInv, TypeOK, RespType, Status, IsRedirect, RespShape

\* The Success part of the worker's completion, for each variant, leaves
\* the request state alone.
SuccessFrame ==
    /\ xfer = "complete"
    /\ ~IsRedirect
    /\ UNCHANGED <<opVars, propfind, noBody, resp, bodyLeft, redirects,
                   response, mirror>>

LEMMA StatSuccessSInv ==
    ASSUME SInv, SuccessFrame, kind = "stat", StatSuccess
    PROVE  SInv'
<1> DEFINE info == GetStatInfo(NoLen, isDir)
<1>1. length = NoLen /\ isDir \in BOOLEAN /\ TypeOK
  BY DEF SInv, Memo, SuccessFrame, TypeOK
<1>2. StatDeliver(info) /\ UNCHANGED fileProps
  BY <1>1 DEF StatSuccess, info
<1>3. info \in InfoType
  BY <1>1, StatInfoType DEF info
<1>4. ASSUME ~info.threw, info.size >= 0, handler
      PROVE  /\ resp.status \in {200, 207}
             /\ info.size = ServerSize(resp)
             /\ info.size # NoLen
             /\ info.dir = ServerDir(resp)
             /\ (kind = "open" => ~info.dir)
  <2>1. resp.status \in {0, 200, 207}
    BY <1>4, SuccessStatus DEF SuccessFrame
  <2>2. QED
    BY <1>1, <1>4, <2>1, StatInfoCorrect DEF SInv, info
<1>5. fileProps' \subseteq {"LastURL", "ContentLength"}
  BY <1>2 DEF SInv, TypeOK
<1>6. QED
  BY <1>2, <1>3, <1>4, <1>5, StatDeliverSInv DEF SuccessFrame

LEMMA ListdirSuccessSInv ==
    ASSUME SInv, SuccessFrame, kind = "listdir", ListdirSuccess
    PROVE  SInv'
<1> DEFINE o == [kind |-> "ok", size |-> NoLen, dir |-> FALSE, data |-> response]
<1>1. o \in Outcome
  BY DEF SInv, TypeOK, Units, Outcome, o
<1>2. /\ results' \in Seq(Outcome) /\ handler' \in BOOLEAN /\ Once' /\ ~handler'
      /\ UNCHANGED <<length, isDir, fileProps, cache>>
      /\ xfer' = "released" /\ done' = TRUE
  BY <1>1, DeliverStep DEF SInv, ListdirSuccess, o
<1>3. TypeOK'
  BY <1>2 DEF SInv, SuccessFrame, TypeOK, XferStates, opVars
<1>4. StatResultCorrect'
  BY DEF SuccessFrame, StatResultCorrect, opVars
<1>5. QED
  BY <1>2, <1>3, <1>4 DEF SInv, SuccessFrame, Memo, RespShape, UnitsFrom,
     OkFinal, opVars

\* CurlOpenOp::Success on a directory: the operation fails.
LEMMA OpenDirSInv ==
    ASSUME SInv, SuccessFrame, NEW first \in InfoType,
           fileProps' = fileProps \cup {"LastURL"},
           length' = first.length, isDir' = first.isDir,
           Fail, xfer' = "released", UNCHANGED cache
    PROVE  SInv'
<1>1. \A i \in 1..Len(results) : results[i].kind # "ok"
  BY NoOkYet DEF SInv, SuccessFrame
<1>2. /\ results' \in Seq(Outcome) /\ handler' \in BOOLEAN /\ Once' /\ ~handler'
      /\ (results' = results \/ results' = <<Err>>)
  BY ErrOutcome, DeliverStep DEF SInv, Fail
<1>3. \A i \in 1..Len(results') : results'[i].kind # "ok"
  BY <1>1, <1>2 DEF Err
<1>4. length' \in Lengths \cup {NoLen} /\ isDir' \in BOOLEAN
  BY InfoFields
<1>5. TypeOK'
  BY <1>2, <1>4 DEF SInv, SuccessFrame, Fail, TypeOK, XferStates, opVars
<1>6. QED
  BY <1>2, <1>3, <1>5 DEF SInv, SuccessFrame, Memo, RespShape, UnitsFrom,
     OkFinal, StatResultCorrect, opVars

LEMMA OpenSuccessSInv ==
    ASSUME SInv, SuccessFrame, kind = "open", OpenSuccess
    PROVE  SInv'
<1> DEFINE first == GetStatInfo(NoLen, isDir)
           second == GetStatInfo(first.length, first.isDir)
<1>1. length = NoLen /\ isDir \in BOOLEAN /\ TypeOK
  BY DEF SInv, Memo, SuccessFrame, TypeOK
<1>2. first \in InfoType
  BY <1>1, StatInfoType DEF first
<1>3. first.threw \in BOOLEAN /\ first.dir \in BOOLEAN
      /\ first.length \in Lengths \cup {NoLen} /\ first.isDir \in BOOLEAN
  BY <1>2, InfoFields
<1>4. fileProps \subseteq {"LastURL", "ContentLength"}
  BY DEF SInv, TypeOK
<1>5. CASE first.threw
  <2>1. fileProps' = fileProps \cup {"LastURL"} /\ StatDeliver(first)
    BY <1>1, <1>3, <1>5, Zenon DEF OpenSuccess, first
  <2>2. ~(~first.threw /\ first.size >= 0 /\ handler)
    BY <1>5
  <2>3. QED
    BY <1>2, <1>4, <2>1, <2>2, StatDeliverSInv, Zenon DEF SuccessFrame
<1>6. CASE ~first.threw /\ first.dir
  <2>1. /\ fileProps' = fileProps \cup {"LastURL"}
        /\ length' = first.length /\ isDir' = first.isDir
        /\ Fail /\ xfer' = "released" /\ UNCHANGED cache
    BY <1>1, <1>3, <1>6, Zenon DEF OpenSuccess, first
  <2>2. QED
    BY <1>2, <2>1, OpenDirSInv
<1>7. CASE ~first.threw /\ ~first.dir
  <2>1. /\ fileProps' = fileProps \cup {"LastURL"}
                        \cup (IF first.size >= 0 THEN {"ContentLength"} ELSE {})
        /\ StatDeliver(second)
    BY <1>1, <1>3, <1>7, Zenon DEF OpenSuccess, first, second
  <2>2. second \in InfoType
    BY <1>1, <1>3, StatInfoType DEF second
  <2>3. second.size = first.size /\ second.dir = first.dir /\ ~second.threw
    BY <1>1, <1>7, SecondCall DEF first, second
  <2>4. ASSUME ~second.threw, second.size >= 0, handler
        PROVE  /\ resp.status \in {200, 207}
               /\ second.size = ServerSize(resp)
               /\ second.size # NoLen
               /\ second.dir = ServerDir(resp)
               /\ (kind = "open" => ~second.dir)
    <3>1. resp.status \in {0, 200, 207}
      BY <2>4, SuccessStatus DEF SuccessFrame
    <3>2. first.size >= 0
      BY <2>3, <2>4
    <3>3. /\ resp.status \in {200, 207}
          /\ first.size = ServerSize(resp)
          /\ first.size # NoLen
          /\ first.dir = ServerDir(resp)
      BY <1>1, <1>7, <3>1, <3>2, StatInfoCorrect DEF SInv, first
    <3>4. second.dir = FALSE
      BY <1>3, <1>7, <2>3, Zenon
    <3>5. QED
      BY <2>3, <3>3, <3>4
  <2>5. fileProps' \subseteq {"LastURL", "ContentLength"}
    BY <1>4, <2>1
  <2>6. QED
    BY <2>1, <2>2, <2>4, <2>5, StatDeliverSInv DEF SuccessFrame
<1>8. QED
  BY <1>3, <1>5, <1>6, <1>7

LEMMA CompleteSInv ==
    ASSUME SInv, Complete
    PROVE  SInv'
<1>1. xfer = "complete"
  BY DEF Complete
<1>2. CASE IsRedirect /\ Redirect
  BY <1>1, <1>2, RedirectSInv
<1>3. CASE ~IsRedirect /\ kind = "stat" /\ StatSuccess
           /\ UNCHANGED <<opVars, propfind, noBody, resp, bodyLeft, redirects,
                          response, mirror>>
  BY <1>1, <1>3, StatSuccessSInv DEF SuccessFrame
<1>4. CASE ~IsRedirect /\ kind = "open" /\ OpenSuccess
           /\ UNCHANGED <<opVars, propfind, noBody, resp, bodyLeft, redirects,
                          response, mirror>>
  BY <1>1, <1>4, OpenSuccessSInv DEF SuccessFrame
<1>5. CASE ~IsRedirect /\ kind = "listdir" /\ ListdirSuccess
           /\ UNCHANGED <<opVars, propfind, noBody, resp, bodyLeft, redirects,
                          response, mirror>>
  BY <1>1, <1>5, ListdirSuccessSInv DEF SuccessFrame
<1>6. QED
  BY <1>2, <1>3, <1>4, <1>5, Zenon DEF Complete

LEMMA StutterSInv ==
    ASSUME SInv, UNCHANGED vars
    PROVE  SInv'
<1>1. TypeOK'
  BY DEF SInv, TypeOK, vars, opVars, resultVars
<1>2. Once'
  BY Zenon DEF SInv, Once, vars, opVars, resultVars
<1>3. QED
  BY <1>1, <1>2 DEF SInv, Memo, RespShape, UnitsFrom, OkFinal, StatResultCorrect,
     vars, opVars, resultVars

LEMMA NextSInv == SInv /\ [Next]_vars => SInv'
<1> SUFFICES ASSUME SInv, [Next]_vars PROVE SInv'
  OBVIOUS
<1>1. CASE Setup
  BY <1>1, SetupSInv
<1>2. CASE Respond
  BY <1>2, RespondSInv
<1>3. CASE WriteCallback
  BY <1>3, WriteCallbackSInv
<1>4. CASE BodyDone
  BY <1>4, BodyDoneSInv
<1>5. CASE TransferFailed
  BY <1>5, TransferFailedSInv
<1>6. CASE Complete
  BY <1>6, CompleteSInv
<1>7. CASE Finished \/ UNCHANGED vars
  BY <1>7, StutterSInv DEF Finished
<1>8. QED
  BY <1>1, <1>2, <1>3, <1>4, <1>5, <1>6, <1>7 DEF Next

\* A stat or an open reports success only with the size and the directory
\* flag of the final server's answer, a known size, and (for an open) a
\* file: CurlStatOp::Success, CurlOpenOp::Success and GetStatInfo, for any
\* caps, lengths and redirect bound, with or without redirect bodies.
THEOREM StatResultCorrectProved == Spec => []StatResultCorrect
<1>1. Init => SInv
  BY InitSInv
<1>2. SInv /\ [Next]_vars => SInv'
  BY NextSInv
<1>3. SInv => StatResultCorrect
  BY DEF SInv
<1>4. QED
  BY <1>1, <1>2, <1>3, PTL DEF Spec

-----------------------------------------------------------------------------
(* The mirror put into the director cache.                                 *)

\* m_mirror_url names the hint of the last redirect followed or nothing,
\* and the cache holds a mirror only after the success that put it there.
MInv == mirror \in {NoMirror, redirects} /\ MirrorCachedOnSuccess

LEMMA InitMInv == Init => MInv
BY DEF Init, MInv, MirrorCachedOnSuccess

\* Until the operation is released, nothing is in the director cache.
LEMMA CacheEmptyEarly ==
    ASSUME SInv, MInv, xfer # "released"
    PROVE  cache = {}
<1> SUFFICES ASSUME cache # {} PROVE FALSE
  OBVIOUS
<1>1. results # <<>> /\ results[1].kind = "ok"
  BY DEF MInv, MirrorCachedOnSuccess
<1>2. 1 \in 1..Len(results)
  BY <1>1 DEF SInv, TypeOK
<1>3. QED
  BY <1>1, <1>2 DEF SInv, OkFinal

\* CurlStatOp::Success on an empty cache puts at most the mirror of the
\* current redirect count into it, and only together with a success for a
\* target that is no origin.
LEMMA StatDeliverCache ==
    ASSUME Once, results \in Seq(Outcome), cache = {},
           mirror \in {NoMirror, redirects},
           NEW info, StatDeliver(info), origin' = origin, redirects' = redirects
    PROVE  \/ cache' = {}
           \/ /\ cache' = {redirects'}
              /\ results' # <<>>
              /\ results'[1].kind = "ok"
              /\ ~origin'
<1>1. CASE info.threw
  BY <1>1 DEF StatDeliver
<1>2. CASE ~info.threw /\ info.size < 0
  BY <1>2 DEF StatDeliver
<1>3. CASE ~info.threw /\ ~(info.size < 0)
  <2> DEFINE o == [kind |-> "ok", size |-> info.size, dir |-> info.dir, data |-> <<>>]
  <2>1. PutMirror /\ Deliver(o)
    BY <1>3 DEF StatDeliver, o
  <2>2. CASE handler /\ dcache /\ ~origin /\ mirror # NoMirror
    <3>1. results = <<>>
      BY <2>2, Zenon DEF Once
    <3>2. results' = <<o>>
      BY <2>1, <2>2, <3>1 DEF Deliver
    <3>3. cache' = {redirects}
      BY <2>1, <2>2 DEF PutMirror
    <3>4. QED
      BY <2>2, <3>2, <3>3 DEF o
  <2>3. CASE ~(handler /\ dcache /\ ~origin /\ mirror # NoMirror)
    BY <2>1, <2>3 DEF PutMirror
  <2>4. QED
    BY <2>2, <2>3
<1>4. QED
  BY <1>1, <1>2, <1>3

LEMMA MInvStep ==
    ASSUME SInv, MInv, [Next]_vars
    PROVE  MInv'
<1>1. CASE xfer = "released"
  <2>1. UNCHANGED vars
    BY <1>1 DEF Next, Setup, Respond, WriteCallback, BodyDone, TransferFailed,
       Complete, Finished
  <2>2. QED
    BY <2>1 DEF MInv, MirrorCachedOnSuccess, vars, opVars, resultVars
<1>2. CASE xfer # "released"
  <2>1. cache = {}
    BY <1>2, CacheEmptyEarly
  <2> DEFINE Good == \/ cache' = {}
                     \/ /\ cache' = {redirects'}
                        /\ results' # <<>>
                        /\ results'[1].kind = "ok"
                        /\ ~origin'
  <2>2. Good => MirrorCachedOnSuccess'
    BY DEF MirrorCachedOnSuccess, Good
  <2>3. CASE UNCHANGED <<cache, mirror, redirects>>
    BY <2>1, <2>3 DEF MInv, MirrorCachedOnSuccess
  <2>4. CASE Complete /\ IsRedirect /\ Redirect
    <3>1. mirror' \in {NoMirror, redirects'}
      <4>1. CASE ~resp.location
        BY <2>4, <4>1 DEF Redirect, MInv
      <4>2. CASE resp.location /\ resp.hint
        BY <2>4, <4>2 DEF Redirect
      <4>3. CASE resp.location /\ ~resp.hint
        BY <2>4, <4>3 DEF Redirect
      <4>4. QED
        BY <4>1, <4>2, <4>3
    <3>2. cache' = {}
      BY <2>1, <2>4 DEF Redirect
    <3>3. QED
      BY <2>2, <3>1, <3>2 DEF MInv, Good
  <2>5. CASE Complete /\ ~IsRedirect
    <3>1. UNCHANGED <<opVars, mirror, redirects>>
      BY <2>5 DEF Complete
    <3>2. Once /\ results \in Seq(Outcome) /\ mirror \in {NoMirror, redirects}
      BY DEF SInv, TypeOK, MInv
    <3>a. origin' = origin /\ redirects' = redirects
      BY <3>1 DEF opVars
    <3>3. ASSUME kind = "stat" /\ StatSuccess
          PROVE  Good
      <4>1. StatDeliver(GetStatInfo(length, isDir))
        BY <3>3 DEF StatSuccess
      <4>2. QED
        BY <2>1, <3>2, <3>a, <4>1, StatDeliverCache DEF Good
    <3>4. ASSUME kind = "open" /\ OpenSuccess
          PROVE  Good
      <4> DEFINE first == GetStatInfo(length, isDir)
      <4>1. \/ StatDeliver(first)
            \/ StatDeliver(GetStatInfo(first.length, first.isDir))
            \/ UNCHANGED cache
        BY <3>4 DEF OpenSuccess, first
      <4>2. CASE StatDeliver(first)
        BY <2>1, <3>2, <3>a, <4>2, StatDeliverCache DEF Good
      <4>3. CASE StatDeliver(GetStatInfo(first.length, first.isDir))
        BY <2>1, <3>2, <3>a, <4>3, StatDeliverCache DEF Good
      <4>4. QED
        BY <2>1, <4>1, <4>2, <4>3 DEF Good
    <3>5. ASSUME kind = "listdir" /\ ListdirSuccess
          PROVE  Good
      BY <2>1, <3>5 DEF ListdirSuccess, Good
    <3>6. Good
      BY <2>5, <3>3, <3>4, <3>5 DEF Complete
    <3>7. mirror' \in {NoMirror, redirects'}
      BY <3>1, <3>2
    <3>8. QED
      BY <2>2, <3>6, <3>7 DEF MInv
  <2>6. QED
    BY <2>3, <2>4, <2>5 DEF Next, Setup, Respond, WriteCallback, BodyDone,
       TransferFailed, Complete, Finished, vars
<1>3. QED
  BY <1>1, <1>2

\* The director cache is given a mirror only by a stat or an open of a
\* target that is no origin, only after it succeeded, and only the hint of
\* the last redirect it followed (CurlStatOp::Success puts after the handler
\* check; CurlOperation::Redirect overwrites m_mirror_url at every hop), for
\* any caps, lengths and redirect bound, with or without redirect bodies.
THEOREM MirrorCachedOnSuccessProved == Spec => []MirrorCachedOnSuccess
<1>1. Init => SInv /\ MInv
  BY InitSInv, InitMInv
<1>2. SInv /\ MInv /\ [Next]_vars => SInv' /\ MInv'
  BY NextSInv, MInvStep
<1>3. QED
  BY <1>1, <1>2, PTL DEF Spec, MInv

-----------------------------------------------------------------------------
(* The answer delivered, when redirects carry no body.                     *)

\* The request is a PROPFIND: its body is kept in m_response.
Kept == kind = "listdir" \/ propfind

\* What AnswerDelivered rests on: m_response followed by the body still to
\* come is the current response's body for a PROPFIND and empty otherwise
\* (a redirect page is empty, an earlier answer is never appended); a 200
\* answers a request that is no PROPFIND; the handler stays set until an
\* HTTP error or a failure; and a transfer a cap aborted had no good answer.
AInv ==
    /\ xfer \in {"init", "connect"} => response = <<>>
    /\ (xfer \in {"body", "complete"} /\ Kept) => response \o bodyLeft = Body(resp)
    /\ (xfer \in {"body", "complete"} /\ ~Kept) => response = <<>>
    /\ xfer = "complete" => bodyLeft = <<>>
    /\ resp.status = 200 => ~Kept
    /\ resp.status = 207 => resp.size >= 1
    /\ resp.status = 302 => resp.size = 0
    /\ (xfer \in {"init", "connect", "body", "complete", "failed"}
        /\ resp.status < 400) => handler
    /\ xfer = "failed" => ~GoodAnswer(resp)
    /\ AnswerDelivered

\* What a server answers, when a redirect has no body.
LEMMA ResponseShape ==
    ASSUME ~RedirectBody, NEW r \in ServerResponses
    PROVE  /\ r.status = 200 => Method # "PROPFIND"
           /\ r.status = 207 => r.size >= 1
           /\ r.status = 302 => r.size = 0
<1>1. CASE r \in RedirectResponses
  BY <1>1 DEF RedirectResponses
<1>2. CASE r \in ErrorResponses
  BY <1>2 DEF ErrorResponses
<1>3. CASE r \in Answers /\ Method = "PROPFIND"
  BY <1>3, StatAssumption DEF Answers
<1>4. CASE r \in Answers /\ Method # "PROPFIND"
  BY <1>4 DEF Answers
<1>5. QED
  BY <1>1, <1>2, <1>3, <1>4 DEF ServerResponses

LEMMA MethodKept == Method = "PROPFIND" <=> Kept
BY DEF Method, Kept

\* A response's body: its size in units of its document.
LEMMA BodyFacts ==
    ASSUME NEW r \in RespType
    PROVE  /\ Body(r) \in Seq(Units)
           /\ Len(Body(r)) = r.size
           /\ \A i \in 1..r.size : Body(r)[i] = r.doc
           /\ r.size = 0 => Body(r) = <<>>
BY DEF Body, RespType

\* A chunk taken off the body and appended keeps m_response followed by
\* the rest of the body the same.
LEMMA WriteSplit ==
    ASSUME NEW S, NEW b \in Seq(S), NEW u \in Seq(S), NEW n \in 1..Len(b)
    PROVE  (u \o SubSeq(b, 1, n)) \o SubSeq(b, n + 1, Len(b)) = u \o b
<1>1. SubSeq(b, 1, n) \in Seq(S) /\ SubSeq(b, n + 1, Len(b)) \in Seq(S)
  BY SubSeqProperties
<1>2. SubSeq(b, 1, n) \o SubSeq(b, n + 1, Len(b)) = SubSeq(b, 1, Len(b))
  BY ConcatAdjacentSubSeq
<1>3. SubSeq(b, 1, Len(b)) = b
  BY SubSeqFull
<1>4. (u \o SubSeq(b, 1, n)) \o SubSeq(b, n + 1, Len(b))
        = u \o (SubSeq(b, 1, n) \o SubSeq(b, n + 1, Len(b)))
  <2>1. ASSUME NEW x \in Seq(S), NEW y \in Seq(S), NEW z \in Seq(S)
        PROVE  (x \o y) \o z = x \o (y \o z)
    BY SMT
  <2>2. QED
    BY <1>1, <2>1
<1>5. QED
  BY <1>2, <1>3, <1>4

LEMMA InitAInv == Init => AInv
BY DEF Init, AInv, NoResponse, AnswerDelivered, Kept

LEMMA SetupAInv ==
    ASSUME SInv, AInv, Setup
    PROVE  AInv'
<1>1. resp.status \in {0, 302}
  BY DEF Setup, SInv, RespShape
<1>2. QED
  BY <1>1 DEF Setup, AInv, AnswerDelivered, opVars, resultVars

LEMMA RespondAInv ==
    ASSUME ~RedirectBody, SInv, AInv, Respond
    PROVE  AInv'
<1>1. PICK r \in ServerResponses :
        /\ resp' = r
        /\ bodyLeft' = IF Method = "HEAD" THEN <<>> ELSE Body(r)
        /\ IF HTTPStatusIsError(r.status) THEN Fail ELSE UNCHANGED resultVars
  BY DEF Respond
<1>2. /\ xfer = "connect" /\ xfer' = "body"
      /\ UNCHANGED <<opVars, propfind, noBody, redirects, response, length, isDir,
                     fileProps, mirror, cache>>
  BY DEF Respond
<1>3. response = <<>> /\ handler
  <2>1. resp.status \in {0, 302}
    BY <1>2 DEF SInv, RespShape
  <2>2. QED
    BY <1>2, <2>1 DEF AInv
<1>4. r.status = 200 => ~Kept
  BY <1>1, ResponseShape, MethodKept
<1>8. r \in RespType
  BY ResponseFacts DEF SInv
<1>5. Kept => (Method # "HEAD" /\ response' \o bodyLeft' = Body(r))
  <2>1. Kept => Method = "PROPFIND"
    BY MethodKept
  <2>3. QED
    BY <1>1, <1>2, <1>3, <2>1, <1>8, BodyFacts, ConcatEmptySeq
<1>6. r.status < 400 => handler'
  <2>1. r.status < 400 => ~HTTPStatusIsError(r.status)
    BY <1>8 DEF HTTPStatusIsError, RespType, Status
  <2>2. ~HTTPStatusIsError(r.status) => handler' = handler
    BY <1>1 DEF resultVars
  <2>3. QED
    BY <1>3, <2>1, <2>2
<1>7. QED
  BY <1>1, <1>2, <1>3, <1>4, <1>5, <1>6, ResponseShape
  DEF AInv, Kept, AnswerDelivered, opVars

LEMMA BodyDoneAInv ==
    ASSUME SInv, AInv, BodyDone
    PROVE  AInv'
BY DEF BodyDone, AInv, Kept, AnswerDelivered, opVars, resultVars

LEMMA TransferFailedAInv ==
    ASSUME SInv, AInv, TransferFailed
    PROVE  AInv'
<1>1. ~GoodAnswer(resp)'
  BY DEF TransferFailed, AInv, GoodAnswer, ServerSize, ServerDir, opVars
<1>2. QED
  BY <1>1 DEF TransferFailed, AInv, Kept, AnswerDelivered, opVars

LEMMA StutterAInv ==
    ASSUME AInv, UNCHANGED vars
    PROVE  AInv'
BY DEF AInv, Kept, AnswerDelivered, GoodAnswer, Expected, ServerSize, ServerDir,
   Body, vars, opVars, resultVars

\* m_response and the body still to come add up to the response's size.
LEMMA KeptSize ==
    ASSUME SInv, AInv, xfer \in {"body", "complete"}, Kept
    PROVE  Len(response) + Len(bodyLeft) = resp.size
<1>1. response \o bodyLeft = Body(resp)
  BY DEF AInv
<1>2. Len(Body(resp)) = resp.size
  BY BodyFacts DEF SInv, TypeOK
<1>3. Len(response \o bodyLeft) = Len(response) + Len(bodyLeft)
  BY DEF SInv, TypeOK
<1>4. QED
  BY <1>1, <1>2, <1>3, Zenon

\* A chunk that passes the cap belongs to a body past the cap, so the answer
\* it is part of is no good answer.
LEMMA CapNotGood ==
    ASSUME SInv, AInv, xfer = "body", NEW n \in 1..Len(bodyLeft),
           IF kind = "listdir" THEN n + Len(response) > ListCap
           ELSE propfind /\ n + Len(response) > Cap
    PROVE  ~GoodAnswer(resp)
<1>1. Kept
  BY DEF Kept
<1>2. Len(response) + Len(bodyLeft) = resp.size
  BY <1>1, KeptSize
<1>3. CASE kind = "listdir"
  BY <1>2, <1>3, StatAssumption DEF GoodAnswer, SInv, TypeOK, RespType
<1>4. CASE kind # "listdir"
  <2>1. resp.status # 200
    BY <1>1 DEF AInv
  <2>2. resp.size > Cap
    BY <1>2, <1>4, StatAssumption DEF SInv, TypeOK, RespType
  <2>3. QED
    BY <1>4, <2>1, <2>2, StatAssumption DEF GoodAnswer, SInv, TypeOK, RespType
<1>5. QED
  BY <1>3, <1>4

LEMMA WriteCallbackAInv ==
    ASSUME SInv, AInv, WriteCallback
    PROVE  AInv'
<1>1. PICK n \in 1..MaxChunk :
        /\ n <= Len(bodyLeft)
        /\ IF kind = "listdir" THEN ListWrite(SubSeq(bodyLeft, 1, n))
           ELSE StatWrite(SubSeq(bodyLeft, 1, n))
  BY DEF WriteCallback
<1>2. /\ xfer = "body"
      /\ UNCHANGED <<opVars, resultVars, propfind, noBody, resp, redirects, length,
                     isDir, fileProps, mirror, cache>>
  BY DEF WriteCallback
<1>3. /\ n \in 1..Len(bodyLeft)
      /\ Len(SubSeq(bodyLeft, 1, n)) = n
      /\ bodyLeft \in Seq(Units) /\ response \in Seq(Units)
  BY <1>1, StatAssumption DEF SInv, TypeOK
<1>4. CASE IF kind = "listdir" THEN n + Len(response) > ListCap
           ELSE propfind /\ n + Len(response) > Cap
  <2>1. xfer' = "failed" /\ response' = response /\ bodyLeft' = bodyLeft
    BY <1>1, <1>3, <1>4 DEF ListWrite, StatWrite
  <2>2. ~GoodAnswer(resp)
    BY <1>2, <1>3, <1>4, CapNotGood
  <2>3. ~GoodAnswer(resp)'
    BY <1>2, <2>2 DEF GoodAnswer, ServerSize, ServerDir, opVars
  <2>4. QED
    BY <1>2, <2>1, <2>3 DEF AInv, Kept, AnswerDelivered, opVars, resultVars
<1>5. CASE ~IF kind = "listdir" THEN n + Len(response) > ListCap
            ELSE propfind /\ n + Len(response) > Cap
  <2> DEFINE chunk == SubSeq(bodyLeft, 1, n)
             rest == SubSeq(bodyLeft, n + 1, Len(bodyLeft))
  <2>1. /\ xfer' = "body"
        /\ bodyLeft' = rest
        /\ Kept => response' = response \o chunk
        /\ ~Kept => response' = response
    BY <1>1, <1>2, <1>3, <1>5 DEF ListWrite, StatWrite, Kept, opVars
  <2>2. Kept => response' \o bodyLeft' = Body(resp')
    <3>1. (response \o chunk) \o rest = response \o bodyLeft
      BY <1>3, WriteSplit
    <3>2. QED
      BY <1>2, <2>1, <3>1 DEF AInv
  <2>3. ~Kept => response' = <<>>
    BY <1>2, <2>1 DEF AInv
  <2>4. (Kept => Kept') /\ (~Kept => ~Kept')
    BY <1>2 DEF Kept, opVars
  <2>5. QED
    BY <1>2, <2>1, <2>2, <2>3, <2>4 DEF AInv, AnswerDelivered, opVars, resultVars
<1>6. QED
  BY <1>4, <1>5

\* At the end of a transfer m_response is the whole body of a PROPFIND.
LEMMA ResponseComplete ==
    ASSUME SInv, AInv, xfer = "complete", Kept
    PROVE  response = Body(resp)
<1>1. response \o bodyLeft = Body(resp) /\ bodyLeft = <<>>
  BY DEF AInv
<1>2. response \o <<>> = response
  BY DEF SInv, TypeOK
<1>3. QED
  BY <1>1, <1>2

\* A redirect page is empty, and so is m_response when it arrives.
LEMMA RedirectEmpty ==
    ASSUME SInv, AInv, xfer = "complete", IsRedirect
    PROVE  /\ resp.status = 302
           /\ response = <<>>
           /\ ~GoodAnswer(resp)
<1>1. resp.status = 302
  BY DEF IsRedirect, SInv, TypeOK, RespType, Status
<1>2. Body(resp) = <<>>
  <2>1. resp.size = 0
    BY <1>1 DEF AInv
  <2>2. QED
    BY <2>1, BodyFacts DEF SInv, TypeOK
<1>3. response = <<>>
  <2>1. CASE Kept
    BY <1>2, <2>1, ResponseComplete
  <2>2. CASE ~Kept
    BY <2>2 DEF AInv
  <2>3. QED
    BY <2>1, <2>2
<1>4. ~GoodAnswer(resp)
  BY <1>1 DEF GoodAnswer
<1>5. QED
  BY <1>1, <1>3, <1>4

LEMMA RedirectAInv ==
    ASSUME SInv, AInv, xfer = "complete", IsRedirect, Redirect
    PROVE  AInv'
<1>1. resp.status = 302 /\ response = <<>> /\ ~GoodAnswer(resp)
  BY RedirectEmpty
<1>2. UNCHANGED <<opVars, resp, bodyLeft, response>>
  BY DEF Redirect
<1>3. ~GoodAnswer(resp)'
  BY <1>1, <1>2 DEF GoodAnswer, ServerSize, ServerDir, opVars
<1>4. handler
  BY <1>1 DEF AInv
<1>5. CASE ~resp.location
  <2>1. xfer' = "released"
    BY <1>5 DEF Redirect
  <2>2. QED
    BY <1>1, <1>2, <1>3, <2>1 DEF AInv, AnswerDelivered, opVars
<1>6. CASE resp.location
  <2>1. xfer' = "connect" /\ handler' = handler
    BY <1>5, <1>6 DEF Redirect, resultVars
  <2>2. QED
    BY <1>1, <1>2, <1>4, <2>1 DEF AInv, AnswerDelivered, opVars
<1>7. QED
  BY <1>5, <1>6

\* A length the server sent is a number, neither unknown nor garbage.
LEMMA KnownLen ==
    ASSUME NEW x \in Lengths
    PROVE  x >= 0 /\ x \notin {NoLen, Garbage}
BY StatAssumption DEF NoLen, Garbage

\* A good answer to a stat or an open: GetStatInfo neither throws nor finds
\* the size unknown, and returns the final server's size and directory flag.
LEMMA GoodInfo ==
    ASSUME SInv, AInv, xfer = "complete", kind # "listdir", GoodAnswer(resp),
           NEW dir \in BOOLEAN
    PROVE  /\ ~GetStatInfo(NoLen, dir).threw
           /\ GetStatInfo(NoLen, dir).size >= 0
<1>1. /\ resp.status \in {200, 207}
      /\ ServerSize(resp) # NoLen
  BY DEF GoodAnswer
<1>2. CASE ~propfind
  <2>1. resp.status = 200
    BY <1>1, <1>2 DEF SInv, RespShape
  <2>2. resp.cl # NoLen /\ resp.cl \in Lengths \cup {NoLen}
    BY <1>1, <2>1 DEF ServerSize, SInv, TypeOK, RespType
  <2>3. resp.cl >= 0
    BY <2>2, KnownLen, Zenon
  <2>4. QED
    BY <1>2, <2>3 DEF GetStatInfo
<1>3. CASE propfind
  <2>1. resp.status = 207
    BY <1>1, <1>3 DEF AInv, Kept
  <2>2. resp.doc \in Docs /\ resp.doc.len \in Lengths
    BY <1>1, <2>1 DEF ServerSize
  <2>3. response = Body(resp)
    BY <1>3, ResponseComplete DEF Kept
  <2>4. resp.size >= 1 /\ resp \in RespType
    BY <2>1 DEF AInv, SInv, TypeOK
  <2>5. IsMultistatus(response) /\ response[1] = resp.doc
    BY <2>2, <2>3, <2>4, BodyFacts DEF IsMultistatus
  <2>6. ~(NoLen >= 0)
    BY DEF NoLen
  <2>7. GetStatInfo(NoLen, dir) = ParseProp(resp.doc, NoLen)
    BY <1>3, <2>5, <2>6 DEF GetStatInfo
  <2>8. resp.doc.len \notin {NoLen, Garbage} /\ resp.doc.len >= 0
    BY <2>2, KnownLen, Zenon
  <2>9. ParseProp(resp.doc, NoLen).threw = FALSE
        /\ ParseProp(resp.doc, NoLen).size = resp.doc.len
    BY <2>8 DEF ParseProp
  <2>10. QED
    BY <2>7, <2>8, <2>9, Zenon
<1>4. QED
  BY <1>2, <1>3

\* The variant's Success ends the operation, released or thrown out of.
LEMMA SuccessEnds ==
    ASSUME \/ kind = "stat" /\ StatSuccess
           \/ kind = "open" /\ OpenSuccess
           \/ kind = "listdir" /\ ListdirSuccess
    PROVE  xfer' \in {"released", "threw"}
BY Zenon DEF StatSuccess, OpenSuccess, ListdirSuccess, StatDeliver

\* What a stat info hands to the handler when it neither threw nor has an
\* unknown size.
LEMMA DeliverInfo ==
    ASSUME TypeOK, handler, results = <<>>, NEW info \in InfoType,
           ~info.threw, info.size >= 0, StatDeliver(info)
    PROVE  results' = <<[kind |-> "ok", size |-> info.size, dir |-> info.dir,
                        data |-> <<>>]>>
<1>1. ~(info.size < 0)
  <2>1. info.size \in Lengths \cup {NoLen}
    BY InfoFields
  <2>2. QED
    BY <2>1, LenFacts, Zenon
<1>2. Deliver([kind |-> "ok", size |-> info.size, dir |-> info.dir, data |-> <<>>])
  <2>1. info.threw = FALSE
    BY InfoFields
  <2>2. QED
    BY <1>1, <2>1, StatDeliverOk, Zenon
<1>3. QED
  BY <1>2 DEF Deliver

\* A good final answer: Success hands exactly the expected outcome to the
\* handler, which is still set and has been called by no one.
LEMMA GoodSuccess ==
    ASSUME SInv, AInv, SuccessFrame, GoodAnswer(resp),
           \/ kind = "stat" /\ StatSuccess
           \/ kind = "open" /\ OpenSuccess
           \/ kind = "listdir" /\ ListdirSuccess
    PROVE  results' = <<Expected(resp)>>
<1>1. xfer = "complete" /\ length = NoLen /\ isDir \in BOOLEAN /\ TypeOK
  BY DEF SuccessFrame, SInv, Memo, TypeOK
<1>2. resp.status \in {200, 207}
  BY DEF GoodAnswer
<1>3. handler /\ results = <<>>
  <2>1. handler
    BY <1>1, <1>2 DEF AInv
  <2>2. QED
    BY <2>1, Zenon DEF SInv, Once
<1>4. CASE kind = "stat" /\ StatSuccess
  <2> DEFINE info == GetStatInfo(NoLen, isDir)
  <2>1. ~info.threw /\ info.size >= 0
    BY <1>1, <1>4, GoodInfo
  <2>2. info.size = ServerSize(resp) /\ info.dir = ServerDir(resp)
    BY <1>1, <1>2, <1>4, <2>1, StatInfoCorrect DEF SInv
  <2>3. StatDeliver(info) /\ info \in InfoType
    BY <1>1, <1>4, StatInfoType DEF StatSuccess
  <2>4. results' = <<[kind |-> "ok", size |-> info.size, dir |-> info.dir,
                     data |-> <<>>]>>
    BY <1>1, <1>3, <2>1, <2>3, DeliverInfo
  <2>5. QED
    BY <1>4, <2>2, <2>4 DEF Expected
<1>5. CASE kind = "open" /\ OpenSuccess
  <2> DEFINE first == GetStatInfo(NoLen, isDir)
             second == GetStatInfo(first.length, first.isDir)
  <2>1. ~first.threw /\ first.size >= 0
    BY <1>1, <1>5, GoodInfo
  <2>2. first.size = ServerSize(resp) /\ first.dir = ServerDir(resp)
    BY <1>1, <1>2, <1>5, <2>1, StatInfoCorrect DEF SInv
  <2>3. ~first.dir
    BY <1>5, <2>2 DEF GoodAnswer
  <2>4. StatDeliver(second)
    BY <1>1, <1>5, <2>1, <2>3, Zenon DEF OpenSuccess
  <2>5. second.size = first.size /\ second.dir = first.dir /\ ~second.threw
    BY <1>1, <2>1, SecondCall
  <2>6. second \in InfoType
    <3>1. first \in InfoType
      BY <1>1, StatInfoType
    <3>2. QED
      BY <1>1, <3>1, InfoFields, StatInfoType
  <2>7. results' = <<[kind |-> "ok", size |-> second.size, dir |-> second.dir,
                     data |-> <<>>]>>
    BY <1>1, <1>3, <2>1, <2>4, <2>5, <2>6, DeliverInfo
  <2>8. QED
    BY <1>5, <2>2, <2>5, <2>7 DEF Expected
<1>6. CASE kind = "listdir" /\ ListdirSuccess
  <2>1. response = Body(resp)
    BY <1>1, <1>6, ResponseComplete DEF Kept
  <2>2. results' = <<[kind |-> "ok", size |-> NoLen, dir |-> FALSE, data |-> response]>>
    BY <1>3, <1>6 DEF ListdirSuccess, Deliver
  <2>3. QED
    BY <1>6, <2>1, <2>2 DEF Expected
<1>7. QED
  BY <1>4, <1>5, <1>6

LEMMA SuccessAInv ==
    ASSUME SInv, AInv, SuccessFrame,
           \/ kind = "stat" /\ StatSuccess
           \/ kind = "open" /\ OpenSuccess
           \/ kind = "listdir" /\ ListdirSuccess
    PROVE  AInv'
<1>1. xfer' \in {"released", "threw"}
  BY SuccessEnds
<1>2. GoodAnswer(resp)' = GoodAnswer(resp) /\ Expected(resp)' = Expected(resp)
  BY DEF SuccessFrame, GoodAnswer, Expected, ServerSize, ServerDir, opVars
<1>3. GoodAnswer(resp) => results' = <<Expected(resp)>>
  BY GoodSuccess
<1>4. (Kept' = Kept) /\ resp' = resp
  BY DEF SuccessFrame, Kept, opVars
<1>5. QED
  BY <1>1, <1>2, <1>3, <1>4 DEF AInv, AnswerDelivered

LEMMA CompleteAInv ==
    ASSUME SInv, AInv, Complete
    PROVE  AInv'
<1>1. xfer = "complete"
  BY DEF Complete
<1>2. CASE IsRedirect /\ Redirect
  BY <1>1, <1>2, RedirectAInv
<1>3. CASE /\ ~IsRedirect
           /\ \/ kind = "stat" /\ StatSuccess
              \/ kind = "open" /\ OpenSuccess
              \/ kind = "listdir" /\ ListdirSuccess
           /\ UNCHANGED <<opVars, propfind, noBody, resp, bodyLeft, redirects,
                          response, mirror>>
  BY <1>1, <1>3, SuccessAInv DEF SuccessFrame
<1>4. QED
  BY <1>2, <1>3 DEF Complete

LEMMA NextAInv ==
    ASSUME ~RedirectBody
    PROVE  SInv /\ AInv /\ [Next]_vars => AInv'
<1> SUFFICES ASSUME SInv, AInv, [Next]_vars PROVE AInv'
  OBVIOUS
<1>1. CASE Setup
  BY <1>1, SetupAInv
<1>2. CASE Respond
  BY <1>2, RespondAInv
<1>3. CASE WriteCallback
  BY <1>3, WriteCallbackAInv
<1>4. CASE BodyDone
  BY <1>4, BodyDoneAInv
<1>5. CASE TransferFailed
  BY <1>5, TransferFailedAInv
<1>6. CASE Complete
  BY <1>6, CompleteAInv
<1>7. CASE Finished \/ UNCHANGED vars
  BY <1>7, StutterAInv DEF Finished
<1>8. QED
  BY <1>1, <1>2, <1>3, <1>4, <1>5, <1>6, <1>7 DEF Next

\* Once a stat, an open or a listing is released after a good final answer,
\* the handler was called once, with that answer (CurlStatOp::Success,
\* CurlOpenOp::Success, CurlListdirOp, the write callbacks' caps and
\* CurlOperation::Redirect), for any caps, lengths and redirect bound, as
\* long as redirects carry no body: with a redirect body the earlier page
\* stays in m_response and the property fails (run stat_redirect_body).
THEOREM AnswerDeliveredProved ==
    ASSUME ~RedirectBody
    PROVE  Spec => []AnswerDelivered
<1>1. Init => SInv /\ AInv
  BY InitSInv, InitAInv
<1>2. SInv /\ AInv /\ [Next]_vars => SInv' /\ AInv'
  BY NextSInv, NextAInv
<1>3. AInv => AnswerDelivered
  BY DEF AInv
<1>4. QED
  BY <1>1, <1>2, <1>3, PTL DEF Spec

=============================================================================
