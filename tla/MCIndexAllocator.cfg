\* Two slots per page, five allocate() calls with frees in between.
CONSTANTS
    PerPage = 2
    MaxCalls = 5
SPECIFICATION Spec
INVARIANTS
    NoFreeSlotBeforeHint
    ReturnedIndexHasPage
