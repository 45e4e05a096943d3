SPECIFICATION Spec
CONSTANTS
    small1 = small1
    small2 = small2
    full = full
    large = large
    NoKey = NoKey
    Keys <- MCKeys
    Size <- MCSize
    CacheSize = 2
    Flaky = {}
    MaxCrashes = 0
    MaxMounts = 2
CHECK_DEADLOCK FALSE
INVARIANTS
    CacheSurvivesRemount
