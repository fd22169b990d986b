CONSTANTS
    long = long
    short = short
    NoImage = NoImage
    NoUnit = NoUnit
    u0 = u0
    u1 = u1
    Units <- TwoUnits
    Images <- TwoImages
    Size <- Sizes
    Access <- ShortReadOnly
    MaxFaults = 1
SPECIFICATION Spec
SYMMETRY UnitsAlike
INVARIANT ServedFromMounted
INVARIANT SizesFollow
