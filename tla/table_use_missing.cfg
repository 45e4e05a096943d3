SPECIFICATION Spec
CONSTANTS
    Keys = {k1, k2}
    MaxRefs = 2
    MaxShots = 0
    MaxMounts = 3
CHECK_DEADLOCK FALSE
SYMMETRY KeySymmetry
INVARIANTS
    MissingIsReportedNew
