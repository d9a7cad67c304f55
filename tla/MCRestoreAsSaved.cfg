SPECIFICATION RSpec
CONSTANTS
    Sessions = {"main", "work", "a:b"}
    Unaddressable = {"a:b"}
    Names = {"h", "a", "b", "c"}
    MaxIndex = 4
    BaseIndex = 0
    Snapshots <- MCSnapshots
    Servers <- MCSeeded
    MaxRuns = 1
    MaxMishaps = 0
    MaxOpens = 0
INVARIANT
    CreatedAsSaved
CHECK_DEADLOCK FALSE
