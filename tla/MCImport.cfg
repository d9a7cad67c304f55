SPECIFICATION ISpec
CONSTANTS
    Field <- MCField
    Panes <- MCPanes
    Windows <- MCWindows
    Clients = {"a b"}
    Oddities <- MCOddities
    Number <- MCNumber
    Stripped <- MCStripped
    Resumes = {"claude"}
    KeyName <- MCKeyName
    Slashed = {"a/c"}
    Strangers <- MCStrangers
    MaxRecords = 3
INVARIANTS
    AsSaved
    Accounted
    TextsFindTheirPanes
CHECK_DEADLOCK FALSE
