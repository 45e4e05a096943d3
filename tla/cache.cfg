SPECIFICATION FairSpec
CONSTANTS
    small1 = small1
    small2 = small2
    full = full
    large = large
    NoKey = NoKey
    Keys <- MCKeys
    Size <- MCSize
    CacheSize = 2
    Flaky <- MCFlaky
    MaxCrashes = 1
    MaxMounts = 3
CHECK_DEADLOCK FALSE
VIEW MCView
CONSTRAINT FewFailed
INVARIANTS
    TypeOK
    UsedIsExact
    DirtyNotOnCloud
    CleanOnCloud
    ReplacerTracksCache
PROPERTIES
    ImplementsObjectStore
    RequestsComplete
