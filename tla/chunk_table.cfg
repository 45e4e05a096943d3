SPECIFICATION Spec
CONSTANTS
    Keys = {k1, k2}
    MaxRefs = 2
    MaxShots = 3
    MaxMounts = 2
CHECK_DEADLOCK FALSE
SYMMETRY KeySymmetry
CONSTRAINT FewerAfterRemount
INVARIANTS
    TypeOK
    NoChunkLost
    NoChunkLeaked
    SnapshotCountsExact
    ReleaseNeverThrows
    CallsFitTheStore
