SPECIFICATION FairSpec
CONSTANTS
    Keep = 1
    DailyDays = 1
    RejectedKeep = 1
    DayLength = 2
    MinPanes = 5
    Divisor = 3
    Procs = {p1, p2}
    NoProc = NoProc
    Layouts = {"rich", "poor"}
    None = None
    PaneCount <- MCPaneCount
    MaxClock = 1
    Mishaps = {"crash", "fault", "delete"}
    MaxMishaps = 2
PROPERTIES
    LeftoversSwept
    GuardNeverBlind
