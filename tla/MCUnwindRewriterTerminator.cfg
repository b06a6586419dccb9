\* A compiler-shaped input whose last record before the terminator is an FDE of a pcrel CIE.
CONSTANTS
    Word <- MCWord
    ReadError = 1
    Sections <- MCSections
    Personalities <- MCPersonalities
    Subl = 40
    Unreadable = {80}
    EhFrameOffsets <- MCEhFrameOffsets
SPECIFICATION OutputSpec
CONSTANTS
    Base = 65536
    OrigEhFrame <- MCOrigDwarf
    EntryLists <- MCEntriesDwarf
INVARIANT
    EhFrameWellFormed
