CONSTANTS
    n_fatent = 8
    n_fats = 2
    sdroot = 2
    NFiles = 1
    Tree <- LongFile
    Own <- OneOwn
    Settings = 3
    VSD_EXTENTS = 4
    Allocates = TRUE
    AnyWrites = TRUE
    Written <- FreeOrEnd
    CardFaults <- UseFaults
    CutsOff = TRUE
    MaxBoots = 1
SPECIFICATION Spec
INVARIANT RestOfCardSafe
INVARIANT NoStaleSector
INVARIANT RunsSound
INVARIANT InsideExact
INVARIANT RootStays
