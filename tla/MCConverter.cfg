CONSTANTS
    DlNewHash <- MCDlNewHash
    TokenLen <- MCTokenLen
    LookupNames <- MCLookupNames
    Inputs <- MCInputs
    TextPlacements <- MCTextPlacements
    UnwindSize <- MCUnwindSize
SPECIFICATION Spec
INVARIANTS
    GnuHashFindsExports
    ExportsDefined
    RelocationsBindTargets
    DynamicTagsFinal
    MarkersPatched
