CONSTANTS
    uknc = uknc
    korvet = korvet
    bk = bk
    NoCore = NoCore
    Cores <- TwoCores
    Pieces <- ShortPayloads
    Sidecar <- MixedSidecars
    Chunk = 1
    FifoCap = 2
    RingCap = 3
    FlashCore = NoCore
    SerialCores <- OneSerial
    MaxFaults <- AllFaults
SPECIFICATION FairSpec
INVARIANT TypeOK
INVARIANT StagedIsWhole
PROPERTY KeepsPromise
PROPERTY StartUpEnds
PROPERTY SwitchEnds
