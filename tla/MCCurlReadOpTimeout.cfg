\* A redirect followed by a server that never answers: the header timeout
\* cannot fire for the second request.
CONSTANTS
    Offsets <- MCOffsets
    DefaultOffset = 0
    MaxLen = 2
    MaxBody = 3
    MaxChunk = 2
    MaxRedirects = 2
    Fds <- MCFds
    BrokerUrls = {b1}
    NoUrl = NoUrl
    BrokerHints = FALSE
    RedirectBody = FALSE

SPECIFICATION Spec
INVARIANT HeaderTimeoutArmed
