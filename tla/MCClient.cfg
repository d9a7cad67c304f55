SPECIFICATION CFairSpec
CONSTANTS
    Callers = {c1, c2}
    NoCaller = NoCaller
    Bodies <- MCBodies
    Buffer = 2
    MaxSent = 2
    MaxChatter = 1
INVARIANTS
    CTypeOK
    OwnAnswer
PROPERTIES
    CallReturns
    ClosedIsReaped
CHECK_DEADLOCK FALSE
