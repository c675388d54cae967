CONSTANTS
    r1 = r1
    r2 = r2
    r3 = r3
    Requests = {r1, r2, r3}
    Sessions = {s1, s2}
    Present = {s1}
    Turn <- MCTurn
    Foreign = Foreign
    None = None
    Kinds = {"append", "save", "fork"}
    MaxCalls = 3
    MaxFaults = 1
SPECIFICATION Spec
SYMMETRY MCSymmetry
\* Every request has made its calls.
CHECK_DEADLOCK FALSE
INVARIANTS
    TypeOK
    FailuresHaveCauses
    AppendKeepsTheTurn
    SaveRepeatsNothing
    SessionsAreWritten
PROPERTIES
    ForkCopies
    LaterTurnsSeeEarlierOnes
