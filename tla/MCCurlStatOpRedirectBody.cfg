SPECIFICATION Spec
CONSTANTS
    Lengths <- MCLengths
    BadLength = FALSE
    Cap = 2
    ListCap = 2
    MaxBody = 3
    MaxChunk = 2
    MaxRedirects = 2
    RedirectBody = TRUE
INVARIANT AnswerDelivered
