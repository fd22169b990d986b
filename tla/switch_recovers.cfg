CONSTANTS
    uknc = uknc
    korvet = korvet
    bk = bk
    NoCore = NoCore
    Cores <- ThreeCores
    Pieces <- Payloads
    Sidecar <- AllSidecars
    Chunk = 2
    FifoCap = 2
    RingCap = 3
    FlashCore = korvet
    SerialCores <- NoSerial
    MaxFaults <- AnswerLost
SPECIFICATION FairSpec
INVARIANT HeldWhileAnswered
INVARIANT LoadsWhatWasPicked
INVARIANT NoImageWhileBlank
INVARIANT ReleasedAfterError
PROPERTY FullCoreFirst
PROPERTY NeverBlankForGood
PROPERTY DockCatchesUp
PROPERTY SwitchArrives
