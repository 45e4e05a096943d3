SPECIFICATION Spec
CONSTANTS
    Fds = {f1}
    Units = {zero, cut}
    Hole = zero
    Cuts = {cut}
    MinSeg = 1
    MaxSeg = 2
    Threshold = 1
    MaxSize = 4
    MaxWrite = 2
CHECK_DEADLOCK FALSE
SYMMETRY FdSymmetry
VIEW Seen
INVARIANTS
    StartsAreOffsets
