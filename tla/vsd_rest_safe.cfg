CONSTANTS
    n_fatent = 6
    n_fats = 1
    sdroot = 2
    NFiles = 1
    Tree <- EmptyEntry
    Own <- NoneOwn
    Settings = 3
    VSD_EXTENTS = 4
    Allocates = TRUE
    AnyWrites = FALSE
    Written <- FreeOrEnd
    CardFaults <- NoFaults
    CutsOff = FALSE
    MaxBoots = 2
SPECIFICATION Spec
INVARIANT RestOfCardSafe
