SPECIFICATION Spec
CONSTANTS
    Timestamps = {1, 2, 3, 4}
    Files = {f}
    Contents = {a}
    NoFile = NoFile
    NoObject = NoObject
    MaxSnapshots = 3
    MaxMounts = 3
CHECK_DEADLOCK FALSE
SYMMETRY ContentSymmetry
INVARIANTS
    TypeOK
    ListedAreStored
    InstalledShowSnapshot
PROPERTIES
    InstalledStayListed
    ImplementsSnapshotStore
