\* The page loop stops once every page is checksummed: no deadlock check.
CONSTANTS
    PageSize <- MCPageSize
    MaxWritten <- MCMaxWritten
SPECIFICATION Spec
INVARIANTS
    PagesMatchReference
CHECK_DEADLOCK FALSE
