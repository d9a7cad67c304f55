SPECIFICATION SUSpec
CONSTANTS
    UnitFiles <- MCUnitFiles
    Dropin = "50-go-tmux-saver.conf"
    Renderings = {"v1", "v2"}
    MaxActs = 3
INVARIANTS
    ValidateSatisfied
    
PROPERTIES
    UsersThingsKept
    NeverMissing
