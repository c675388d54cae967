CONSTANTS
    r1 = r1
    r2 = r2
    r3 = r3
    s1 = s1
    s2 = s2
    None = None
    Requests = {r1, r2, r3}
    Streaming = {r1, r3}
    SessionOf <- MCSessionOf
    Settings <- MCSettings
SPECIFICATION FairSpec
\* The process exits.
CHECK_DEADLOCK FALSE
INVARIANTS
    TypeOK
    TurnsRunInTheirSession
    CutOnlyAfterTheWindow
    SpansFlushed
PROPERTIES
    FlushedAfterTheTurns
    SignalStops
