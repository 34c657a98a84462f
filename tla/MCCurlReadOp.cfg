\* Read operation: two offsets, reads of up to two bytes, bodies of up to
\* three, two redirects that may carry a broker URL, a broker configured or
\* not before Setup, three descriptors.  The null-broker crash is reachable
\* here (see MCCurlReadOpBrokerCrash.cfg), so only safety is checked.
CONSTANTS
    Offsets <- MCOffsets
    DefaultOffset = 0
    MaxLen = 2
    MaxBody = 3
    MaxChunk = 2
    MaxRedirects = 2
    Fds <- MCFds
    BrokerUrls = {b1}
    NoUrl = NoUrl
    BrokerHints = TRUE
    RedirectBody = FALSE

SPECIFICATION Spec
INVARIANTS
    TypeOK
    ResultDeliveredOnce
    DeliveredDataCorrect
    HeaderStateFresh
    ReverseSocketExclusive
