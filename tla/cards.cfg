CONSTANTS
    evo = evo
    korvet = korvet
    bk = bk
    a = a
    b = b
    NoCore = NoCore
    NoImage = NoImage
    NoReq = NoReq
    NoFile = NoFile
    MAX_DRIVES = 2
    Images <- TwoImages
    Cores <- ThreeCores
    Evo = evo
    Az = bk
    CoreSize <- Sizes
    SlotPages = 4
    BlockPages = 2
    CmosCells = 1
    MaxFaults = 1
SPECIFICATION FairSpec
INVARIANT InsertedIsOpen
INVARIANT NoImageWhileWriting
INVARIANT OkMeansWhole
INVARIANT ErasedAhead
INVARIANT NothingForgotten
PROPERTY RightSector
PROPERTY EveryRequestAnswered
PROPERTY OsdReturns
