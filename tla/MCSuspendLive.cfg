SPECIFICATION SSpec
CONSTANTS
    Panes = {p1, p2}
    Sids = {s1, s2}
    IdleFor = FALSE
    MaxRuns = 1
    MaxActs = 3
    MaxFails = 1
INVARIANT
    NeverIntoLive
CHECK_DEADLOCK FALSE
