\* Base 0, original DWARF FDEs kept beside synthesised ones.
CONSTANTS
    Word <- MCWord
    ReadError = 1
    Sections <- MCSections
    Personalities <- MCPersonalities
    Subl = 40
    Unreadable = {80}
    EhFrameOffsets <- MCEhFrameOffsets
SPECIFICATION OutputSpec
CONSTANTS
    Base = 0
    OrigEhFrame <- MCOrigDwarfPlainLast
    EntryLists <- MCEntriesDwarf
INVARIANTS
    EhFrameWellFormed
    SearchMapComplete
    FdeRangesInsideSections
    ParserFindsPcrel
