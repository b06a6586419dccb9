\* The original DWARF FDEs when the new .eh_frame is placed elsewhere.
CONSTANTS
    Word <- MCWord
    ReadError = 1
    Sections <- MCSections
    Personalities <- MCPersonalities
    Subl = 40
    Unreadable = {80}
    EhFrameOffsets <- MCEhFrameOffsets
SPECIFICATION OutputSpec
CONSTANTS
    Base = 65536
    OrigEhFrame <- MCOrigDwarfPlainLast
    EntryLists <- MCEntriesDwarf
INVARIANT
    UnwindPointersResolve
