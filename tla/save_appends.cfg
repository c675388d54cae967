CONSTANTS
    r1 = r1
    r2 = r2
    r3 = r3
    Requests = {r1}
    Sessions = {s1}
    Present = {}
    Turn <- MCTurn
    Foreign = Foreign
    None = None
    Kinds = {"append", "save"}
    MaxCalls = 2
    MaxFaults = 0
SPECIFICATION Spec
CHECK_DEADLOCK FALSE
INVARIANTS
    SaveAppendsWhatIsMissing
