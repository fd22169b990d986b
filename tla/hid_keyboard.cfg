CONSTANTS
    LShift = LShift
    RShift = RShift
    Keypad = Keypad
    Slot = Slot
    NoCode = NoCode
    NoKey = NoKey
    NoDevice = NoDevice
    Up = Up
    Devices = {1, 2}
    URB_TIME = 5
    HALT_TIME = 3
    STOP_TIME = 6
    Threads <- OneSlot
    Keys <- ThreeKeys
    Mods <- Shifts
    Rows <- OneRow
    Cols <- TwoCols
    Code <- Codes
    GenMod = 2
SPECIFICATION FairSpec
INVARIANT NoUseAfterFree
INVARIANT LegalStream
INVARIANT NoStuckRow
PROPERTY GivesUpOnParse
PROPERTY KeepsAsking
