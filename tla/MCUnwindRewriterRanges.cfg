\* Base 0x100000000 (scaled): FDE ranges against section ends.
CONSTANTS
    Word <- MCWord
    ReadError = 1
    Sections <- MCSections
    Personalities <- MCPersonalities
    Subl = 40
    Unreadable = {80}
    EhFrameOffsets <- MCEhFrameOffsets
SPECIFICATION OutputSpec
CONSTANTS
    Base = 65536
    OrigEhFrame <- MCOrigEmpty
    EntryLists <- MCEntriesNoDwarf
INVARIANT
    FdeRangesInsideSections
