CONSTANTS
    Size = 6
    Chunks = 3
    Ends <- ThreeEnds
    RegBits = 3
    Tries = 3
SPECIFICATION FairSpec
INVARIANT InstructionHeard
INVARIANT StreamTaken
INVARIANT NotLeftBlank
INVARIANT LoadedIsNew
PROPERTY LoadEnds
