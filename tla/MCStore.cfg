SPECIFICATION Spec
CONSTANTS
    Keep = 2
    DailyDays = 1
    RejectedKeep = 1
    DayLength = 2
    MinPanes = 5
    Divisor = 3
    Procs = {p1, p2}
    NoProc = NoProc
    Layouts = {"rich", "poor"}
    None = None
    PaneCount <- MCPaneCount
    MaxClock = 3
    Mishaps = {"crash", "fault", "clock_back"}
    MaxMishaps = 1
SYMMETRY ProcSymmetry
INVARIANTS
    TypeOK
    StagingSafe
    LastWhole
PROPERTIES
    KeepsEnough
    GuardHolds
    FreshHonest
