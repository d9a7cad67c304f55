SPECIFICATION RSpec
CONSTANTS
    Sessions = {"main", "work", "a:b"}
    Unaddressable = {"a:b"}
    Names = {"h", "a", "b", "c"}
    MaxIndex = 4
    BaseIndex = 0
    Snapshots <- MCSnapshots
    Servers <- MCServers
    MaxRuns = 2
    MaxMishaps = 1
    MaxOpens = 1
INVARIANTS
    RTypeOK
    RightPane
PROPERTIES
    Additive
    Idempotent
    AllMade
CHECK_DEADLOCK FALSE
