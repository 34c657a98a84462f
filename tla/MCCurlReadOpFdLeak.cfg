\* Read operation through a broker configured before Setup, without broker
\* hints: curl reuses a connection while the operation holds the broker's
\* descriptor, then the response redirects.
CONSTANTS
    Offsets <- MCOffsets
    DefaultOffset = 0
    MaxLen = 2
    MaxBody = 3
    MaxChunk = 2
    MaxRedirects = 2
    Fds <- MCFds
    BrokerUrls = {b1}
    NoUrl = NoUrl
    BrokerHints = FALSE
    RedirectBody = FALSE

SPECIFICATION Spec
INVARIANT
    NoLeakedFd
