CONSTANTS
    n_fatent = 6
    n_fats = 1
    sdroot = 2
    NFiles = 1
    Tree <- ShortFile
    Own <- NoneOwn
    Settings = 3
    VSD_EXTENTS = 4
    Allocates = FALSE
    AnyWrites = FALSE
    Written <- FreeOrEnd
    CardFaults <- AllFaults
    CutsOff = TRUE
    MaxBoots = 2
SPECIFICATION Spec
INVARIANT RestOfCardSafe
INVARIANT TreeApart
