\* An HTTP error response whose body the write callback still copies into
\* the caller's buffer after the failure was delivered.
CONSTANTS
    Offsets <- MCOffsets
    DefaultOffset = 0
    MaxLen = 2
    MaxBody = 3
    MaxChunk = 2
    MaxRedirects = 2
    Fds <- MCFds
    BrokerUrls = {b1}
    NoUrl = NoUrl
    BrokerHints = FALSE
    RedirectBody = FALSE

SPECIFICATION Spec
PROPERTY NoWriteAfterResult
