SPECIFICATION SFairSpec
CONSTANTS
    Panes = {p1, p2}
    Sids = {s1, s2}
    IdleFor = TRUE
    MaxRuns = 1
    MaxActs = 4
    MaxFails = 1
INVARIANTS
    STypeOK
    EnterOnlyConfirms
    ParkedIsResumable
PROPERTIES
    OnlyIdleEnded
    NoneLost
CHECK_DEADLOCK FALSE
