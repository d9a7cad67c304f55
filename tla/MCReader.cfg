SPECIFICATION ReaderSpec
CONSTANTS
    Keep = 2
    DailyDays = 0
    RejectedKeep = 1
    DayLength = 2
    MinPanes = 7
    Divisor = 2
    Procs = {p1}
    NoProc = NoProc
    Readers = {r1}
    Layouts = {"rich", "middling"}
    None = None
    PaneCount <- MCPaneCount
    MaxClock = 2
    Mishaps = {"crash", "fault"}
    MaxMishaps = 2
INVARIANTS
    ReaderProtected
    NeverMixed
PROPERTY
    ImplementsArchive
