SPECIFICATION COSpec
CONSTANTS
    Sessions = {"a b", "a-b", "z", "z-1"}
    Order <- MCOrder
    Flat <- MCFlat
    MaxIndex = 1
    MaxPane = 6
    Servers <- MCServers
    MaxActs = 2
    MaxFails = 1
INVARIANTS
    COTypeOK
    StillWindowsAreSaved
    TextsAreThePanes
    SavedIsLive
PROPERTY
    CollectEnds
CHECK_DEADLOCK FALSE
