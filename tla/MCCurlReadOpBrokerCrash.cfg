\* Two redirects, the first with a broker URL and the second without: the
\* worker's broker retry reaches StartBroker with a null m_broker.
CONSTANTS
    Offsets <- MCOffsets
    DefaultOffset = 0
    MaxLen = 2
    MaxBody = 3
    MaxChunk = 2
    MaxRedirects = 2
    Fds <- MCFds
    BrokerUrls = {b1}
    NoUrl = NoUrl
    BrokerHints = TRUE
    RedirectBody = FALSE

SPECIFICATION Spec
INVARIANT NoNullBrokerDeref
