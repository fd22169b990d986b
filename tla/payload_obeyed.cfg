CONSTANTS
    uknc = uknc
    korvet = korvet
    bk = bk
    NoCore = NoCore
    Cores <- TwoCores
    Pieces <- Payloads
    Sidecar <- GoodSidecars
    Chunk = 2
    FifoCap = 2
    RingCap = 3
    FlashCore = korvet
    SerialCores <- NoSerial
    MaxFaults <- CommandLost
SPECIFICATION Spec
PROPERTY FullCoreFirst
