SPECIFICATION Spec
CONSTANTS
    Names = {a, b}
    Keys = {k}
    KeyOf <- MCKeyOf
    Inodes = {i1, i2}
    Fds = {f1, f2}
    None = None
    Units = {hole, x}
    Hole = hole
    Lost = Lost
    Threshold = 1
    MaxSize = 2
    MaxWrite = 1
CHECK_DEADLOCK FALSE
SYMMETRY MCSymmetry
VIEW MCView
CONSTRAINT SomeFileSound
INVARIANTS
    TypeOK
    StatIsSize
    ObjectsAreFiles
    SsdHoldsSmall
    SizeChangeIsTruncation
PROPERTIES
    ImplementsFileStore
