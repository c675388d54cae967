CONSTANTS
    MaxChunks = 4
    ErrorLine = ErrorLine
SPECIFICATION FairSpec
\* A request ends, and with it the behaviour.
CHECK_DEADLOCK FALSE
INVARIANTS
    TypeOK
    OutcomeReported
PROPERTIES
    HonoursContract
    GoroutinesEnd
