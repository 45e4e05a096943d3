SPECIFICATION Spec
CONSTANTS
    Keys = {k1, k2, k3}
    NoKey = NoKey
    MaxMounts = 3
CHECK_DEADLOCK FALSE
SYMMETRY KeySymmetry
VIEW MCView
INVARIANTS
    TypeOK
    DoublyLinked
    OneNodePerEntry
    EntriesAreListed
PROPERTIES
    ImplementsRecencyList
    ImplementsLRUOrder
