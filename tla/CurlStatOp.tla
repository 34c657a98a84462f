------------------------------ MODULE CurlStatOp ------------------------------
(***************************************************************************)
(* CurlStatOp, CurlOpenOp and CurlListdirOp from the first request to the  *)
(* result (src/src/CurlOps.cc): the method each request uses, the body     *)
(* collected into m_response under its cap, the redirects, the decoding of *)
(* the answer in GetStatInfo and ParseProp, and the Success of each        *)
(* variant.  The header, broker and timeout machinery of the base class is *)
(* modelled in CurlOperation; here the headers of a response arrive at     *)
(* once.  A body is a sequence of units, each naming the document it is    *)
(* part of; a multistatus document is what its prop element holds: the    *)
(* getcontentlength text and whether resourcetype has a collection.        *)
(***************************************************************************)
EXTENDS Integers, Sequences

CONSTANTS
    Lengths,       \* the object sizes servers report
    BadLength,     \* servers may send a getcontentlength that is no number
    Cap,           \* CurlStatOp's m_response cap (1,000,000 bytes), in units
    ListCap,       \* CurlListdirOp's m_response cap (10,000,000 bytes), in units
    MaxBody,       \* the longest body a server sends, in units
    MaxChunk,      \* the most units curl passes to one write callback
    MaxRedirects,  \* the longest redirect chain
    RedirectBody   \* redirect responses carry an HTML page

ASSUME StatAssumption ==
    /\ Lengths \subseteq Nat
    /\ BadLength \in BOOLEAN
    /\ Cap \in Nat /\ ListCap \in Nat
    /\ MaxBody \in Nat \ {0} /\ MaxChunk \in Nat \ {0}
    /\ MaxRedirects \in Nat
    /\ RedirectBody \in BOOLEAN

NoMirror == 0          \* GetMirrorInfo() of a response without a hint
NoLen == -1            \* GetContentLength() of no header; m_length unset
Garbage == -2          \* a getcontentlength text std::stoll rejects

\* An HTML page, or any answer that is no multistatus: a unit no prop
\* element describes.
Page == [len |-> -3, dir |-> FALSE]

\* The prop element of a multistatus document.
Docs == [len : Lengths \cup {NoLen} \cup (IF BadLength THEN {Garbage} ELSE {}),
         dir : BOOLEAN]

Kinds == {"stat", "open", "listdir"}

VARIABLES
    kind,       \* the class of the operation
    pelican,    \* m_is_pelican
    origin,     \* m_is_origin
    handler,    \* m_handler is set
    done,       \* SetDone() was called
    results,    \* the calls made on the handler
    propfind,   \* m_is_propfind, and CURLOPT_CUSTOMREQUEST is PROPFIND
    noBody,     \* CURLOPT_NOBODY
    xfer,       \* where the transfer is
    resp,       \* the response being received (m_headers describes it)
    bodyLeft,   \* body units not yet passed to the write callback
    redirects,  \* redirects followed
    response,   \* m_response
    length,     \* m_length
    isDir,      \* m_is_dir
    fileProps,  \* the properties CurlOpenOp::Success set on the File
    dcache,     \* m_dcache is set
    mirror,     \* m_mirror_url: the hop whose Link hint it names, or NoMirror
    cache       \* the mirror URLs put into the director cache

opVars == <<kind, pelican, origin, dcache>>
resultVars == <<handler, done, results>>
vars == <<opVars, resultVars, propfind, noBody, xfer, resp, bodyLeft, redirects,
          response, length, isDir, fileProps, mirror, cache>>

Outcome == [kind : {"ok", "err"}, size : Lengths \cup {NoLen}, dir : BOOLEAN,
            data : Seq(Docs \cup {Page})]

Err == [kind |-> "err", size |-> NoLen, dir |-> FALSE, data |-> <<>>]

\* The request method: CURLOPT_CUSTOMREQUEST, else NOBODY, else a GET.
Method ==
    IF kind = "listdir" \/ propfind THEN "PROPFIND"
    ELSE IF noBody THEN "HEAD" ELSE "GET"

\* A redirect, with or without a Location header and a mirror hint.
RedirectResponses ==
    {[status |-> 302, location |-> l, hint |-> m, cl |-> NoLen, doc |-> Page,
      size |-> IF RedirectBody THEN 1 ELSE 0] : l, m \in BOOLEAN}

\* An error page.
ErrorResponses ==
    {[status |-> 404, location |-> FALSE, hint |-> FALSE, cl |-> c, doc |-> Page, size |-> n] :
        c \in Lengths \cup {NoLen}, n \in 1..MaxBody}

\* The answer to a request: a multistatus (or a page) to a PROPFIND, the
\* object's Content-Length to a GET or a HEAD.
Answers ==
    IF Method = "PROPFIND"
    THEN {[status |-> 207, location |-> FALSE, hint |-> FALSE, cl |-> NoLen, doc |-> d, size |-> n] :
            d \in Docs \cup {Page}, n \in 1..MaxBody}
    ELSE {[status |-> 200, location |-> FALSE, hint |-> FALSE, cl |-> c, doc |-> Page, size |-> n] :
            c \in Lengths \cup {NoLen}, n \in 1..MaxBody}

ServerResponses ==
    Answers \cup ErrorResponses
            \cup (IF redirects < MaxRedirects THEN RedirectResponses ELSE {})

NoResponse == [status |-> 0, location |-> FALSE, hint |-> FALSE, cl |-> NoLen, doc |-> Page, size |-> 0]

Body(r) == [i \in 1..r.size |-> r.doc]

HTTPStatusIsError(s) == s >= 400

IsRedirect == resp.status >= 300 /\ resp.status < 400

-----------------------------------------------------------------------------
(* Result delivery.                                                        *)

\* The handler is called if it is still set, then cleared.
Deliver(outcome) ==
    IF handler
    THEN /\ results' = Append(results, outcome)
         /\ handler' = FALSE
    ELSE UNCHANGED <<results, handler>>

\* CurlOperation::Fail.
Fail ==
    /\ done' = TRUE
    /\ Deliver(Err)

-----------------------------------------------------------------------------
(* Decoding the answer.                                                    *)

\* tinyxml2 finds a multistatus root with a response, propstat and prop in
\* m_response only when it holds one whole multistatus document.
IsMultistatus(r) ==
    /\ r # <<>>
    /\ r[1] \in Docs
    /\ \A i \in 1..Len(r) : r[i] = r[1]

\* CurlStatOp::ParseProp: std::stoll of getcontentlength into m_length (it
\* throws on a text that is no number), the collection marker into m_is_dir.
\* Without a getcontentlength text m_length keeps its value.
ParseProp(d, len) ==
    LET stored == IF d.len \in {NoLen, Garbage} THEN len ELSE d.len
    IN  [size |-> stored, dir |-> d.dir, length |-> stored, isDir |-> d.dir,
         threw |-> d.len = Garbage]

\* CurlStatOp::GetStatInfo with m_length = len and m_is_dir = dir: the
\* Content-Length header without PROPFIND, the memoized size once known,
\* else the parse of m_response.
GetStatInfo(len, dir) ==
    IF ~propfind
    THEN [size |-> resp.cl, dir |-> FALSE, length |-> resp.cl, isDir |-> dir,
          threw |-> FALSE]
    ELSE IF len >= 0
    THEN [size |-> len, dir |-> dir, length |-> len, isDir |-> dir, threw |-> FALSE]
    ELSE IF ~IsMultistatus(response)
    THEN [size |-> NoLen, dir |-> FALSE, length |-> len, isDir |-> dir, threw |-> FALSE]
    ELSE ParseProp(response[1], len)

-----------------------------------------------------------------------------
(* The operation.                                                          *)

\* CurlStatOp::Setup and CurlListdirOp::Setup: a stat asks for PROPFIND at a
\* Pelican origin and sets nothing else; a listing always uses PROPFIND.
Setup ==
    /\ xfer = "init"
    /\ xfer' = "connect"
    /\ propfind' = (kind # "listdir" /\ pelican /\ origin)
    /\ UNCHANGED <<opVars, resultVars, noBody, resp, bodyLeft, redirects,
                   response, length, isDir, fileProps, mirror, cache>>

\* A server answers and curl hands the header lines to Header: at the blank
\* line an HTTP error status fails the operation, and the body follows
\* (none for a HEAD).
Respond ==
    /\ xfer = "connect"
    /\ \E r \in ServerResponses :
         /\ resp' = r
         /\ bodyLeft' = IF Method = "HEAD" THEN <<>> ELSE Body(r)
         /\ IF HTTPStatusIsError(r.status) THEN Fail ELSE UNCHANGED resultVars
    /\ xfer' = "body"
    /\ UNCHANGED <<opVars, propfind, noBody, redirects, response, length, isDir,
                   fileProps, mirror, cache>>

\* Mutant: the cap check rejects a body that reaches the cap exactly.
StatWriteCapInclusive(chunk) ==
    IF propfind /\ Len(chunk) + Len(response) >= Cap
    THEN xfer' = "failed" /\ UNCHANGED <<response, bodyLeft>>
    ELSE /\ response' = IF propfind THEN response \o chunk ELSE response
         /\ bodyLeft' = SubSeq(bodyLeft, Len(chunk) + 1, Len(bodyLeft))
         /\ UNCHANGED xfer

\* CurlStatOp::WriteCallback: a PROPFIND body is appended to m_response
\* unless that passes the cap (returning 0 makes curl abort); any other body
\* is dropped.
StatWrite(chunk) ==
    IF propfind /\ Len(chunk) + Len(response) > Cap
    THEN xfer' = "failed" /\ UNCHANGED <<response, bodyLeft>>
    ELSE /\ response' = IF propfind THEN response \o chunk ELSE response
         /\ bodyLeft' = SubSeq(bodyLeft, Len(chunk) + 1, Len(bodyLeft))
         /\ UNCHANGED xfer

\* CurlListdirOp::WriteCallback: every body is appended under the larger cap.
ListWrite(chunk) ==
    IF Len(chunk) + Len(response) > ListCap
    THEN xfer' = "failed" /\ UNCHANGED <<response, bodyLeft>>
    ELSE /\ response' = response \o chunk
         /\ bodyLeft' = SubSeq(bodyLeft, Len(chunk) + 1, Len(bodyLeft))
         /\ UNCHANGED xfer

\* Curl passes the next chunk of the body to the write callback.
WriteCallback ==
    /\ xfer = "body"
    /\ bodyLeft # <<>>
    /\ \E n \in 1..MaxChunk :
         /\ n <= Len(bodyLeft)
         /\ IF kind = "listdir" THEN ListWrite(SubSeq(bodyLeft, 1, n))
            ELSE StatWrite(SubSeq(bodyLeft, 1, n))
    /\ UNCHANGED <<opVars, resultVars, propfind, noBody, resp, redirects, length,
                   isDir, fileProps, mirror, cache>>

\* The body is complete: curl reports the transfer done.
BodyDone ==
    /\ xfer = "body"
    /\ bodyLeft = <<>>
    /\ xfer' = "complete"
    /\ UNCHANGED <<opVars, resultVars, propfind, noBody, resp, bodyLeft,
                   redirects, response, length, isDir, fileProps, mirror, cache>>

\* The worker on a transfer curl aborted.
TransferFailed ==
    /\ xfer = "failed"
    /\ Fail
    /\ xfer' = "released"
    /\ UNCHANGED <<opVars, propfind, noBody, resp, bodyLeft, redirects,
                   response, length, isDir, fileProps, mirror, cache>>

\* CurlOperation::Redirect (fail without a Location, else take the mirror
\* hint and re-issue), then for a stat CurlStatOp::Redirect: PROPFIND for a
\* Pelican target, NOBODY otherwise.  m_response is left as it is.
Redirect ==
    /\ \/ /\ ~resp.location
          /\ Fail
          /\ xfer' = "released"
          /\ UNCHANGED <<redirects, mirror>>
       \/ /\ resp.location
          /\ xfer' = "connect"
          /\ redirects' = redirects + 1
          /\ mirror' = IF resp.hint THEN redirects + 1 ELSE NoMirror
          /\ UNCHANGED resultVars
    /\ IF kind = "listdir" THEN UNCHANGED <<propfind, noBody>>
       ELSE IF pelican THEN propfind' = TRUE /\ UNCHANGED noBody
       ELSE noBody' = TRUE /\ UNCHANGED propfind
    /\ UNCHANGED <<opVars, resp, bodyLeft, response, length, isDir, fileProps,
                   cache>>

\* Mutant: the mirror is cached before the handler is checked.
PutMirrorAnyHandler ==
    cache' = IF dcache /\ ~origin /\ mirror # NoMirror
             THEN cache \cup {mirror} ELSE cache

\* CurlStatOp::Success after the size check: return if the handler is gone,
\* else, with a director cache and a target that is no origin, put the
\* mirror URL of the redirect (when there was one) into the cache.
PutMirror ==
    cache' = IF handler /\ dcache /\ ~origin /\ mirror # NoMirror
             THEN cache \cup {mirror} ELSE cache

\* Mutant: Success hands an unknown size to the handler.
StatDeliverNoSizeCheck(info) ==
    /\ done' = TRUE
    /\ IF info.threw
       THEN /\ xfer' = "threw"
            /\ UNCHANGED <<handler, results, length, isDir, cache>>
       ELSE /\ length' = info.length
            /\ isDir' = info.isDir
            /\ PutMirror
            /\ Deliver([kind |-> "ok", size |-> info.size, dir |-> info.dir,
                        data |-> <<>>])
            /\ xfer' = "released"

\* CurlStatOp::Success after GetStatInfo returned info: fail on an unknown
\* size, else hand the size and the directory flag to the handler.  An
\* exception from ParseProp leaves Success at once.
StatDeliver(info) ==
    /\ done' = TRUE
    /\ IF info.threw
       THEN /\ xfer' = "threw"
            /\ UNCHANGED <<handler, results, length, isDir, cache>>
       ELSE /\ length' = info.length
            /\ isDir' = info.isDir
            /\ IF info.size < 0 THEN Deliver(Err) /\ UNCHANGED cache
               ELSE /\ PutMirror
                    /\ Deliver([kind |-> "ok", size |-> info.size,
                                dir |-> info.dir, data |-> <<>>])
            /\ xfer' = "released"

\* CurlStatOp::Success.
StatSuccess ==
    /\ StatDeliver(GetStatInfo(length, isDir))
    /\ UNCHANGED fileProps

\* CurlOpenOp::Success: the effective URL is written to the File, then a
\* directory fails the open; otherwise the Content-Length is written too and
\* CurlStatOp::Success runs, calling GetStatInfo a second time.
OpenSuccess ==
    LET first == GetStatInfo(length, isDir) IN
    IF first.threw
    THEN /\ fileProps' = fileProps \cup {"LastURL"}
         /\ StatDeliver(first)
    ELSE IF first.dir
    THEN /\ fileProps' = fileProps \cup {"LastURL"}
         /\ length' = first.length
         /\ isDir' = first.isDir
         /\ Fail
         /\ xfer' = "released"
         /\ UNCHANGED cache
    ELSE /\ fileProps' = fileProps \cup {"LastURL"}
                          \cup (IF first.size >= 0 THEN {"ContentLength"} ELSE {})
         /\ StatDeliver(GetStatInfo(first.length, first.isDir))

\* CurlListdirOp's result: the raw m_response.
ListdirSuccess ==
    /\ done' = TRUE
    /\ Deliver([kind |-> "ok", size |-> NoLen, dir |-> FALSE, data |-> response])
    /\ xfer' = "released"
    /\ UNCHANGED <<length, isDir, fileProps, cache>>

\* The worker on a completed transfer: a 3xx goes to Redirect, anything
\* else to the variant's Success.
Complete ==
    /\ xfer = "complete"
    /\ \/ IsRedirect /\ Redirect
       \/ /\ ~IsRedirect
          /\ \/ kind = "stat" /\ StatSuccess
             \/ kind = "open" /\ OpenSuccess
             \/ kind = "listdir" /\ ListdirSuccess
          /\ UNCHANGED <<opVars, propfind, noBody, resp, bodyLeft, redirects,
                         response, mirror>>

\* The operation is over (or Success threw): nothing changes.
Finished ==
    /\ xfer \in {"released", "threw"}
    /\ UNCHANGED vars

Init ==
    /\ kind \in Kinds
    /\ pelican \in BOOLEAN
    /\ origin \in BOOLEAN
    /\ handler = TRUE
    /\ done = FALSE
    /\ results = <<>>
    /\ propfind = FALSE
    /\ noBody = FALSE
    /\ xfer = "init"
    /\ resp = NoResponse
    /\ bodyLeft = <<>>
    /\ redirects = 0
    /\ response = <<>>
    /\ length = NoLen
    /\ isDir = FALSE
    /\ fileProps = {}
    /\ dcache \in BOOLEAN
    /\ mirror = NoMirror
    /\ cache = {}

Next ==
    \/ Setup \/ Respond \/ WriteCallback \/ BodyDone \/ TransferFailed
    \/ Complete \/ Finished

Spec == Init /\ [][Next]_vars

-----------------------------------------------------------------------------
(* Properties.                                                             *)

\* What the last server answered: the size and the directory flag.
ServerSize(r) ==
    IF r.status = 207
    THEN IF r.doc \in Docs /\ r.doc.len \in Lengths THEN r.doc.len ELSE NoLen
    ELSE r.cl

ServerDir(r) == r.status = 207 /\ r.doc \in Docs /\ r.doc.dir

\* A stat or an open reports success only with the size and the directory
\* flag the final server sent, never an unknown size, and an open never
\* succeeds on a directory (CurlStatOp::Success and CurlOpenOp::Success,
\* with GetStatInfo choosing between the header and the PROPFIND body).
StatResultCorrect ==
    \A i \in 1..Len(results) :
        (results[i].kind = "ok" /\ kind # "listdir") =>
            /\ resp.status \in {200, 207}
            /\ results[i].size = ServerSize(resp)
            /\ results[i].size # NoLen
            /\ results[i].dir = ServerDir(resp)
            /\ (kind = "open" => ~results[i].dir)

\* The final answer is one the operation must report as a success: a
\* listing within its cap, or a size (and, for an open, a file).
GoodAnswer(r) ==
    IF kind = "listdir"
    THEN r.status = 207 /\ r.size <= ListCap
    ELSE /\ r.status \in {200, 207}
         /\ ServerSize(r) # NoLen
         /\ (r.status = 207 => r.size <= Cap)
         /\ (kind = "open" => ~ServerDir(r))

Expected(r) ==
    IF kind = "listdir"
    THEN [kind |-> "ok", size |-> NoLen, dir |-> FALSE, data |-> Body(r)]
    ELSE [kind |-> "ok", size |-> ServerSize(r), dir |-> ServerDir(r), data |-> <<>>]

\* Once the operation is released after a good final answer, the handler
\* has been called exactly once, with exactly that answer: neither the
\* bodies of earlier responses in m_response, nor the caps of the write
\* callbacks, nor a stale m_length may turn it into a failure or a
\* different result.
AnswerDelivered ==
    (xfer = "released" /\ GoodAnswer(resp)) => results = <<Expected(resp)>>

\* The director cache is given a mirror only by a stat or an open of a
\* target that is no origin and that succeeded, and only the hint of the
\* last redirect it followed: not a hint of an earlier hop, and nothing
\* for an operation an HTTP error already failed (CurlStatOp::Success puts
\* after its handler check; CurlOperation::Redirect overwrites m_mirror_url
\* at every hop).
MirrorCachedOnSuccess ==
    cache # {} =>
        /\ results # <<>>
        /\ results[1].kind = "ok"
        /\ ~origin
        /\ cache = {redirects}

\* A malformed PROPFIND answer is a decode failure reported to the handler
\* (spec: a server answer that cannot be decoded fails the operation); it
\* never makes Success throw out of the worker.
NoExceptionEscapes == xfer # "threw"

=============================================================================
