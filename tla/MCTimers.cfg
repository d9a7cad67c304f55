SPECIFICATION TFairSpec
CONSTANTS
    Interval = 3
    Seed <- MCSeed
    WatchEvery = 5
    Accuracy = 1
    SaveTime = 1
    Configs <- MCConfigs
    MaxAge = 10
    MaxJump = 4
    MaxMishaps = 2
INVARIANT
    NoFalseAlarm
PROPERTIES
    StopIsNoticed
    Recovers
