\* 3xx responses carrying a small HTML body, as many servers send.
CONSTANTS
    Offsets <- MCOffsets
    DefaultOffset = 0
    MaxLen = 2
    MaxBody = 3
    MaxChunk = 2
    MaxRedirects = 2
    Fds <- MCFds
    BrokerUrls = {b1}
    NoUrl = NoUrl
    BrokerHints = FALSE
    RedirectBody = TRUE

SPECIFICATION Spec
INVARIANT DeliveredDataCorrect
