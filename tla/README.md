# TLA+ models of the xrdcl-pelican curl operations

This directory holds TLA+ models of `src/src/CurlOps.cc`, the HTTP operations
behind the Pelican XRootD client plug-in. It also holds the TLC configurations
that model-check them and the TLAPS proofs about them. (`CurlOps.cc` lines
653-827 are a stale copy of `CurlOps.hh`, and no definition maps to them.)

## The system

`CurlOps.cc` defines one base class and five variants.

| Class | Role |
|---|---|
| `CurlOperation` (base) | Holds the one-shot result handler `m_handler` and the header parser `m_headers`. Holds the header-timeout state `m_received_header` and `m_header_expiry`. Holds the connection-broker state `m_broker`, `m_broker_url`, `m_broker_reverse_socket` and `m_tried_broker`, and the mirror hint `m_mirror_url`. Its handlers are `Setup`, `HeaderCallback`/`Header`, `Redirect`, `StartBroker`, `HeaderTimeoutExpired`/`XferInfoCallback`, `OpenSocketCallback`, `WaitSocketCallback`, `Fail`, `ReleaseHandle` and the destructor. |
| `CurlStatOp` | HEAD or PROPFIND. It buffers the XML response under a 1,000,000-byte cap and decodes it with `ParseProp` and `GetStatInfo`. `Success` puts the mirror of the last redirect into the director cache. |
| `CurlOpenOp` | A stat that also records properties on the `File` and rejects a directory. |
| `CurlReadOp` | A ranged GET. `Write` copies the body into the caller's buffer after three checks. |
| `CurlPgReadOp` | A read that also returns one CRC32C per page. |
| `CurlListdirOp` | A PROPFIND with Depth 1. The body is buffered under a 10,000,000-byte cap. |

**The driver.** `CurlWorker` drives the operations. It is not part of this repository.
- It owns a pool of curl handles. It lends one to an operation for `Setup` and takes it back through `ReleaseHandle`.
- It calls the operation's callbacks one at a time (spec §5).
- When a transfer completes, it calls `Redirect` on a 3xx response and `Success` otherwise.
- When a connection fails and a broker URL is known, it calls `StartBroker` once.
- It waits on `WaitSocket()` and then calls `WaitSocketCallback`.

**What goes on concurrently.** Inside one operation, the order of callbacks is what matters: headers, body chunks, progress ticks, redirects, broker steps, and the worker's own completion and abort handling. Between operations, the shared state is the handle pool: a handle keeps every option its last operation did not reset. The servers are a source of nondeterminism. They answer with data at some offset, with a redirect (with or without a location, a broker hint, an X.509 flag or a mirror hint), with a multistatus document, or with an error page.

## Modules

| Module | Models | Contents |
|---|---|---|
| `CurlOperation` | `CurlOperation` together with the worker and server environment | Shared by the read variants. It has no Init or Next of its own. |
| `CurlReadOp` | `CurlReadOp` | EXTENDS `CurlOperation`. Adds `m_op`, `m_written` and the buffer. Composes `Init`, `Next` and `Spec`, and holds the properties. |
| `CurlHandlePool` | The handles shared by operations of all four classes | The options each variant's `Setup`, `Redirect` and `ReleaseHandle` set and reset. |
| `CurlPgRead` | The page loop of `CurlPgReadOp::Success` | The partition of `m_buffer[0..m_written)` into pages. |
| `CurlStatOp` | `CurlStatOp`, `CurlOpenOp` and `CurlListdirOp` through their whole request | Setup, the redirect loop, the write callbacks with their caps, the decoding and each `Success`. |
| `MCCurlReadOp`, `MCCurlHandlePool`, `MCCurlPgRead`, `MCCurlStatOp` | — | The small instances for TLC. |
| `CurlReadOpProofs`, `CurlReadOpDataProofs`, `CurlHandlePoolProofs`, `CurlPgReadProofs`, `CurlStatOpProofs` | — | The TLAPS proofs. |

### How the read's state corresponds to the code

**Result delivery.**

| Variable | Code |
|---|---|
| `handler` | `m_handler != nullptr` |
| `done` | `SetDone()` |
| `results` | A history variable: every result that went through the handler, as `kind` ok/err plus the delivered bytes. |

**Header state.**

| Variable | Code |
|---|---|
| `hdr` | `m_headers`, abstracted to what its getters return: status, `HeadersDone`, location present, broker URL, X.509 flag, `GetOffset` and the multipart flag. |
| `pending` | The header lines of the current response that curl has not yet passed to `HeaderCallback`. |
| `received` | `m_received_header` |
| `error` | `m_error` |
| `x509` | `m_x509_auth` |

**Broker state.**

| Variable | Code |
|---|---|
| `brokerUrl` | `m_broker_url` |
| `broker` | `m_broker`: `"none"` is the null pointer. Otherwise it is created, started or finished. |
| `reverseSock` | `m_broker_reverse_socket` |
| `triedBroker` | `m_tried_broker` |
| `sockHook` | `CURLOPT_OPENSOCKETFUNCTION` is installed on the handle. |
| `fdState` | Who owns each descriptor the broker can hand over: free, op, curl or closed. |

**Environment.**

| Variable | Meaning |
|---|---|
| `xfer` | The phase of the current request in the worker: init, connect, connfail, waitsock, headers, body, complete, failed, released, destroyed, or crashed (the process died). |
| `resp` | The response being received. |
| `bodyLeft` | The body bytes not yet handed to `WriteCallback`. |
| `redirects` | The number of redirects so far. |
| `late` | The monotonic clock has passed `m_header_expiry`. |

**The read.**

| Variable | Code |
|---|---|
| `op` | `m_op` |
| `written` | `m_written` |
| `buffer` | A ghost copy of `m_buffer[0..m_written)`. |

**Data abstraction.** A body byte is the file offset it holds, and `Junk` (-1) is a byte of an error or redirect page. So "the caller received the right bytes" is an equation on sequences.

### The read's actions

Each action is one whole handler, including every call it makes.

**Code actions.**
- `ReadSetup` is the base `Setup` plus the read's own. A zero-length read calls `Success` at once.
- `HeaderCallback` handles one line. The status line comes first, and a parse failure makes curl abort.
- `HeaderEnd` handles the blank line: `HeadersDone()` holds, and an error status calls `Fail` while the transfer goes on.
- `XferInfoCallback` fires when `HeaderTimeoutExpired` holds.
- `Redirect` has a missing-location branch and a followed branch. The followed branch has three outcomes for the broker hint: none, started, and a failed start.
- `StartBroker`, `OpenSocketCallback`, `WaitSocketCallback` and `Destroy` (the destructor).
- `WriteCallback`/`Write` takes a chunk of 1..`MaxChunk` bytes. It applies the multipart, first-offset and overrun checks in the code's order.
- `Success` and `Fail` both go through `Deliver`. `Deliver` models the `m_handler` null check and reset.

**Worker and server actions.** These are modelled from the spec, because `CurlWorker` is not in this repository.
- `Connect` has three outcomes. Curl may reuse a connection the pooled handle still holds; then it opens no socket and does not call the open-socket hook, even when the hook is installed. The worker comment at lines 723-726 relies on this reuse. Otherwise curl opens a socket: through the hook if it is installed, and directly (which may fail) if not.
- `Respond` is the server's answer.
- `ConnectFailed` is the one broker retry, or `Fail`.
- `BodyDone` and `Complete` handle a finished transfer: `Redirect` on a 3xx response, `Success` otherwise.
- `TransferFailed` is an aborted transfer, which leads to `Fail`.
- `Tick` is the clock passing the deadline.
- `Finished` is the stutter at the end.

### The handle pool (`CurlHandlePool`)

**State.** Each handle `h` has an `owner[h]` (the operation whose `m_curl` holds it, or `NoOp` while it is pooled). It also carries the options that outlive an operation:

| Variable | Option |
|---|---|
| `sockData` | `CURLOPT_OPENSOCKETDATA` / `SOCKOPTDATA` |
| `writeData` | `CURLOPT_WRITEDATA` |
| `httpHeader` | `CURLOPT_HTTPHEADER`: the header list of the operation that set it |
| `customReq` | `CURLOPT_CUSTOMREQUEST` |
| `noBody` | `CURLOPT_NOBODY` |
| `sslCert` | The client certificate |

An operation pointer is the operation's name.

**Actions.**
- `Setup(o, h)` is `CurlOperation::Setup` followed by the variant's `Setup`.
- `Redirect(o)` is `CurlOperation::Redirect` followed by `CurlStatOp::Redirect` for a stat.
- `ReleaseHandle(o, h)` is the variant's `ReleaseHandle`. `CurlReadOp` and `CurlOpenOp` clear the socket hooks. `CurlStatOp` and `CurlListdirOp` do not.
- `Destroy(o)` deletes the operation object.

The instance runs one operation of each class over two handles. So every ordering of operations on a shared handle is explored.

### Stat, open and listdir (`CurlStatOp`)

**State.** The variables of `CurlStatOp` mirror the class fields:

| Variable | Code |
|---|---|
| `propfind` | `m_is_propfind` |
| `noBody` | `CURLOPT_NOBODY` |
| `response` | `m_response`, as a sequence of units |
| `length` | `m_length` |
| `isDir` | `m_is_dir` |
| `mirror` | `m_mirror_url` |
| `dcache` | The director cache is enabled |
| `cache` | What was put into the director cache |
| `fileProps` | The properties `CurlOpenOp::Success` set on the `File` |

The environment uses `xfer`, `resp`, `bodyLeft` and `redirects` as in the read.

**Data abstraction.** A multistatus document is a record `[len, dir]`: the `getcontentlength` text and the collection marker that `ParseProp` finds.
- `len` is a length, `NoLen` (no text), or `Garbage` (a text `std::stoll` rejects).
- `Page` is one unit of any other body (an error page or a redirect page).
- A body is a sequence of units, so the caps count units. `IsMultistatus` holds when `m_response` is one whole document, which is the case in which tinyxml2 finds the prop element.

**Actions.**
- `Setup` is `CurlStatOp::Setup` or `CurlListdirOp::Setup`. The `Method` follows the code: `CUSTOMREQUEST`, else `NOBODY`, else GET.
- `Respond` is the server's answer. Its header is handled at once, and an error status calls `Fail`.
- `WriteCallback` is `StatWrite` or `ListWrite`, each with its cap check.
- `BodyDone` and `TransferFailed` work as in the read.
- `Complete` is `Redirect` on a 3xx response. Otherwise it is the variant's Success:
  - `StatSuccess`: `GetStatInfo`, the size check, `PutMirror` and the handler call;
  - `OpenSuccess`: the `File` properties, the directory check, and a second `GetStatInfo` through `CurlStatOp::Success`;
  - `ListdirSuccess`: the raw response.

## Properties

Every property is preceded, in its module, by a comment that states it and names the code it is about.

**`CurlReadOp`.**
- **`TypeOK`** gives the types. It also says `m_written` never exceeds the requested length `m_op.second`, because the overrun check in `Write` keeps the memcpy inside the caller's buffer.
- **`ResultDeliveredOnce`** says at most one result is delivered, `m_handler` is set exactly until it is, and the operation is then done.
- **`DeliveredDataCorrect`** says a successful read hands the caller at most the requested length, and that byte i is the file byte at offset + i.
- **`HeaderStateFresh`** says that while a request is under way `m_headers` is empty. While headers arrive, every field is empty or comes from the current response, never from a previous redirect.
- **`ReverseSocketExclusive`** says `m_broker_reverse_socket` never names a descriptor curl owns or one already closed. This holds through broker retries, reused connections and redirects, so the destructor never closes curl's socket.
- **Violation properties:** `NoNullBrokerDeref`, `NoWriteAfterResult` (an action property), `HeaderTimeoutArmed`, and `NoLeakedFd` (every descriptor the operation owns is the one `m_broker_reverse_socket` names).

**`CurlHandlePool`.**
- **`RequestShapeOwn`** says the request an operation sends is shaped by that operation alone, whatever operations used the handle before: NOBODY, PROPFIND, the header list and the certificate.
- **Violation property:** `SocketHookOwned`.

**`CurlPgRead`.**
- **`PagesMatchReference`** says that when the loop ends, the checksummed ranges are exactly the reference partition into ceil(written/PageSize) pages, with a short last page.

**`CurlStatOp`.**
- **`StatResultCorrect`** says a stat or an open reports success only with the size and directory flag of the final server's answer, never an unknown size, and for an open never a directory.
- **`AnswerDelivered`** says that once released after a good final answer, the handler was called once with exactly that answer. Earlier bodies in `m_response`, the caps, and a stale `m_length` may not spoil it.
- **`MirrorCachedOnSuccess`** says the director cache gets a mirror only from a successful stat of a non-origin, and only the hint of the last hop.
- **Violation property:** `NoExceptionEscapes`.

## Runs

### Runs of `MCCurlReadOp`

Every run uses these constants:

| Constant | Value |
|---|---|
| Offsets | {0, 1} |
| DefaultOffset | 0 |
| MaxLen | 2 |
| MaxBody | 3 |
| MaxChunk | 2 |
| MaxRedirects | 2 |
| Fds | {3, 4, 5} |
| BrokerUrls | {b1} |

Two booleans select the server behaviour: `BrokerHints` (redirects may carry a broker URL) and `RedirectBody` (a 3xx response has a body).

| Run | cfg | Expect | Shows |
|---|---|---|---|
| read_core | MCCurlReadOp.cfg | pass (607,552 states) | The five invariants hold with broker hints, reused connections and descriptor hand-offs. |
| fd_leak_on_redirect | MCCurlReadOpFdLeak.cfg | violation | **Descriptor leak on redirect** (lines 103-104). A broker connects, and curl then reuses a pooled connection, so `OpenSocketCallback` never takes the descriptor. The response redirects, and `Redirect` sets `m_broker_reverse_socket` to -1 without closing it. The descriptor stays open, and the destructor no longer sees it. |
| broker_null_deref | MCCurlReadOpBrokerCrash.cfg | violation | **Null broker** (lines 102, 127-129, 162). A redirect with a hint, then one without, leaves `m_broker` null and `m_broker_url` set. The direct connection goes through the still-installed hook, which has no descriptor, so it fails. The worker's broker retry then calls `StartRequest` on the null pointer. |
| read_error_body | MCCurlReadOpErrorBody.cfg | violation | **Write after failure** (lines 91-96, 561-579). A 404 fails the read, but `Header` returns true, so the body flows on. `Write` has no done check and copies the error page into the caller's buffer. |
| timeout_after_redirect | MCCurlReadOpTimeout.cfg | violation | **No timeout after a redirect** (lines 78, 172). `m_received_header` is never reset and `m_header_expiry` is never recomputed, so a re-issued request can no longer time out. |
| read_redirect_body | MCCurlReadOpRedirectBody.cfg | violation | **Redirect page taken as data** (line 568). A 3xx body has the default offset, so for a read at that offset it is accepted as data. |

### Runs of the other instances

| Run | Module / cfg | Expect | Shows |
|---|---|---|---|
| pool_request_shape | MCCurlHandlePool / MCCurlHandlePool.cfg | pass (198,489 states) | `RequestShapeOwn` holds for one operation of each class sharing two handles. |
| pool_socket_hook | MCCurlHandlePool / MCCurlHandlePoolSocket.cfg | violation | **Dangling socket hook** (lines 307-318, 630-640). `CurlStatOp` and `CurlListdirOp::ReleaseHandle` leave `OPENSOCKETDATA` pointing at their operation. The next operation on that handle connects through a destroyed object. |
| pgread_pages | MCCurlPgRead / MCCurlPgRead.cfg | pass (228 states) | The page loop matches the reference for every length 0..37 with 4-byte pages. |
| stat_core | MCCurlStatOp / MCCurlStatOp.cfg | pass (18,264 states) | `StatResultCorrect`, `AnswerDelivered` and `MirrorCachedOnSuccess` hold for stat, open and listdir, including malformed lengths. |
| stat_redirect_body | MCCurlStatOp / MCCurlStatOpRedirectBody.cfg | violation | **`m_response` not cleared on redirect** (line 283). Once PROPFIND is chosen, a redirect's page stays in `m_response`. The final multistatus is then no longer one document, so a good answer is reported as a failure. |
| stat_bad_length | MCCurlStatOp / MCCurlStatOpBadLength.cfg | violation | **Exception out of Success** (line 343). `std::stoll` on a non-numeric `getcontentlength` throws through `Success`, and nothing catches it. |

### Bounds

**The read.**
- Two offsets let the offset check both pass and fail.
- `MaxBody` 3 > `MaxLen` 2 makes the overrun check fire.
- `MaxChunk` 2 gives both one-chunk and multi-chunk bodies.
- Two redirects give a hint followed by a hint-less redirect.
- Three descriptors are one more than the broker can hand out in one run.

**The pool.** Four operations of four classes on two handles. Every class follows every other class on the same handle.

**The page loop.** Lengths 0..37 with a page of 4 cover:
- an empty read;
- reads shorter than a page;
- exact multiples;
- a partial last page after many whole ones.

**The stat.**
- `Lengths` = {0, 2}: a zero and a non-zero size.
- `Cap` = `ListCap` = 2 < `MaxBody` 3: both caps are exceeded, reached exactly and left below. The code's 1,000,000 and 10,000,000 differ only in scale.
- `MaxRedirects` 2 lets a hinted hop be followed by an unhinted one.
- `MaxChunk` 2 splits a body.

Between them the pass runs fire every action and every disjunct.

**Fairness.** No specification carries fairness, and no liveness is claimed.
- Whether a read ends depends on the servers, and a server may never answer.
- The code's only cancellation is the header timeout. After a redirect that timeout is disarmed (timeout_after_redirect), so the code cannot itself guarantee that a read ends.
- A fairness condition that made every server answer would prove only an assumption about the environment.

**Deadlock.** The read and stat runs check for deadlock: `Finished` is the stutter of an ended operation. The page loop stops once every page is checksummed, so `MCCurlPgRead.cfg` says `CHECK_DEADLOCK FALSE`.

**Mutants.** Every property of a pass run has a mutant: a plausible bug in the mapped code that TLC catches.
- `Write` without the overrun check breaks `TypeOK`.
- `Write` without the offset check breaks `DeliveredDataCorrect`.
- `Deliver` that keeps `m_handler` breaks `ResultDeliveredOnce`.
- `Redirect` that keeps `m_headers` breaks `HeaderStateFresh`.
- `OpenSocketCallback` that keeps the descriptor breaks `ReverseSocketExclusive`.
- `CurlReadOp::ReleaseHandle` that keeps the header list breaks `RequestShapeOwn`.
- A page count that forgets the partial page breaks `PagesMatchReference`.
- `Success` without the size check breaks `StatResultCorrect`.
- A stat cap check with `>=` breaks `AnswerDelivered`.
- A mirror put before the handler check breaks `MirrorCachedOnSuccess`.

### Divergences noted while modelling, with no run

Each of these is a single handler doing what the spec says it must not. A unit test of that handler reaches it, so no run checks it.
- **A plain stat is a GET** (`CurlStatOp::Setup`, line 301). Setup sets `CUSTOMREQUEST` PROPFIND for a Pelican origin and nothing otherwise; only `Redirect` (line 290) sets NOBODY. Spec §4.2 says a plain target gets a HEAD. The model's `Method` follows the code, so the first request of a plain stat is a GET whose body `WriteCallback` drops.
- **A failed open changes the `File`** (`CurlOpenOp::Success`, line 459). `LastURL` (and `UseX509Auth`, `BrokerURL`) are written before the directory and size checks that fail the open. They are also written after an HTTP error already failed it. Spec §6 lists them as properties of a successful open.
- **A directory stat fails** (`CurlStatOp::Success`, line 406). For a collection without `getcontentlength`, `m_length` stays -1 and `Success` fails with "no object size". Spec §8 says the result is the directory with an unresolved size, and that only the open rejects a directory.

## Proofs

tlapm checks every step of five modules. Each theorem holds for all constants satisfying the ASSUMEs of the module it extends.

**`CurlReadOpProofs`.**
- **`TypeCorrect`: `Spec => []TypeOK`.** One step per action, and one sub-step per changed variable.
- **`ResultDeliveredOnceProved`.** The inductive invariant is `TypeOK /\ ResultDeliveredOnce`. Every step either leaves the result variables alone, or is a `Fail` or a `Success` through `Deliver`, which appends only while `m_handler` is set and then clears it.

- **`HeaderStateFreshProved`.** The inductive invariant `HInv` adds one fact to the property: before Setup the header state is a fresh `HeaderParser`. `StoreFresh` shows that storing one header line keeps each field empty or the current response's.
- **`ReverseSocketExclusiveProved`.** `TypeOK /\ ReverseSocketExclusive` is inductive. The argument has four parts:
  - Every step that gives the descriptor away (`OpenSocketCallback`, the destructor) or drops it (`Redirect`, a failed broker wait) sets `m_broker_reverse_socket` to -1.
  - `WaitSocketCallback` takes only a free descriptor and makes it the operation's.
  - A reused connection changes neither.
  - No other step touches the descriptors.

  The no-leak half of the old ownership statement is false in the code (fd_leak_on_redirect), so it is not claimed.

**`CurlReadOpDataProofs`.** The theorem assumes `~RedirectBody`, because with a redirect body the implementation is wrong (read_redirect_body).
- **`DeliveredDataCorrectProved`.**
- **The invariant `RInv`.** It adds to the one above:
  - `HeadersInv`: the header state is a copy of the current response's delivered lines;
  - `BufferInv`: while the caller waits, the buffer holds the file bytes from the requested offset, they come from the one 200 response being received, and the body still to come continues them from `BodyStart`.

  `DeliveredDataCorrect` is not inductive without them, because a chunk is accepted on the strength of `m_headers`.

**`CurlHandlePoolProofs`.**
- **`PoolTypeCorrect`.**
- **`RequestShapeOwnProved`.** `RequestShapeOwn` needs:
  - `Ownership`: each running operation holds exactly one handle;
  - `PoolClean`: a pooled handle carries no request-shaping option;
  - `HeaderOwners`: only reads and listings attach header lists.

  A `ReleaseHandle` keeps what the variant does not clear, so the invariant must know what each class can leave behind.

**`CurlPgReadProofs`.**
- **`PagesMatchReferenceProved`.** The loop invariant `PgInv` says that after `pg` iterations the first `pg` pages are checksummed and the cursor stands at `min(pg * PageSize, written)`. It rests on `PageCountFacts`, the division facts about the rounded-up page count.

**`CurlStatOpProofs`.**
- **`StatResultCorrectProved`: `Spec => []StatResultCorrect`.** It needs no assumption on `RedirectBody`. The inductive invariant `SInv` is `StatResultCorrect` plus these conjuncts:

  | Conjunct | What it says |
  |---|---|
  | `TypeOK` | The types |
  | `Once` | The handler is set until the single result |
  | `Memo` | `m_length` stays -1 until the releasing step |
  | `RespShape` | Only a 207 to a PROPFIND carries a document, and an HTTP error has cleared the handler |
  | `UnitsFrom` | `m_response` holds only pages and units of the current document |
  | `OkFinal` | A success is delivered only by the releasing step |

- **Why `SInv` needs these conjuncts.** `GetStatInfo` reads `m_response`, which may still hold pages of earlier redirects. A whole multistatus there must therefore be the current answer's, which `UnitsFrom` and `RespShape` give.
- **The lemmas.**
  - `StatInfoCorrect` shows that a sized, non-throwing `GetStatInfo` with `m_length` = -1 describes the final answer.
  - `SecondCall` shows that the open's second `GetStatInfo` on the memo agrees with the first.
  - `StatDeliverSInv` covers every branch of `CurlStatOp::Success`.
- Before the proof, `SInv` was checked with TLC as an invariant of the stat_core instance, with and without redirect bodies.
- **`MirrorCachedOnSuccessProved`: `Spec => []MirrorCachedOnSuccess`.** It needs no assumption on `RedirectBody`.
  - The inductive invariant is `SInv /\ MInv`. `MInv` is the property plus one fact: `m_mirror_url` is unset or is the hint of the hop that `redirects` counts.
  - `CacheEmptyEarly` shows that the cache is empty until release.
  - `StatDeliverCache` shows that the one `PutMirror` of `CurlStatOp::Success` runs only behind a delivered success to a target that is no origin.
- **`AnswerDeliveredProved`: `~RedirectBody => (Spec => []AnswerDelivered)`.** The assumption is needed: with a redirect body the property is false (stat_redirect_body).
  - The inductive invariant is `SInv /\ AInv`. `AInv` adds these facts:

    | Fact | What it says |
    |---|---|
    | Body | For a PROPFIND, `m_response` followed by the body still to come is the current response's body; for any other request, `m_response` is empty |
    | Complete | At completion, the body still to come is empty |
    | 200 | A 200 answers a request that is no PROPFIND |
    | 207 and 302 | A 207 has a body and a 302 has none |
    | Handler | The handler is set until an HTTP error or a failure |
    | Cap | A transfer that a write callback aborted at its cap had no good answer |

  - `AInv` is needed because `AnswerDelivered` speaks only of the released state. The success step must know that `m_response` is exactly the final body: no earlier page, and no chunk lost to a cap.
  - For the write callback, `WriteSplit` is the sequence fact that appending a chunk and dropping it from the remaining body keeps their concatenation.
  - `CapNotGood` shows that a chunk past a cap belongs to a body over the cap.
  - `GoodInfo` shows that on a good answer `GetStatInfo` neither throws nor returns -1.
  - `GoodSuccess` shows that each of the three Success variants hands the handler exactly `Expected(resp)`.
  - `SInv /\ MInv /\ AInv` was checked with TLC on the stat_core instance before the proof: 18,264 states.

**Only model-checked.**
- The properties of the violation runs are false, so TLC's counterexamples are their result: `NoNullBrokerDeref`, `NoWriteAfterResult`, `HeaderTimeoutArmed`, `NoLeakedFd`, `SocketHookOwned`, `NoExceptionEscapes`, and `DeliveredDataCorrect` and `AnswerDelivered` with redirect bodies.

## Not modelled

**Code outside this repository.** `HeaderParser`, `BrokerRequest`, tinyxml2, the CRC32C routine and `CurlWorker` are not in this repository.
- They are abstracted from the spec to what the operations observe: header getters, a broker that starts, finishes and hands over a descriptor, the prop element, page ranges, and the worker's callback order.
- `CurlListdirOp::Success` is modelled from the spec as the delivery of the raw response.

**Parts of `CurlOps.cc` left out.**
- **`UseX509Auth` and `BrokerURL` in `CurlOpenOp::Success`.** They are `File` properties copied from state that `CurlOperation` models. The stat model has no broker, so they would only restate `LastURL`.
- **Formatting and logging.** Log messages, URL strings, XML text and CRC arithmetic change no control state that a property distinguishes.
