CONSTANTS
    Tables <- MCTables
    EncodingTableSize = 2
    Garbage <- MCGarbage
SPECIFICATION Spec
INVARIANTS
    DecodesExactly
