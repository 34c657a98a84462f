SPECIFICATION Spec
CONSTANTS
    Lengths <- MCLengths
    BadLength = TRUE
    Cap = 2
    ListCap = 2
    MaxBody = 3
    MaxChunk = 2
    MaxRedirects = 2
    RedirectBody = FALSE
INVARIANT NoExceptionEscapes
