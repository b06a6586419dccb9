CONSTANTS
    RbpOffsets = {0, 3}
    StackSizes = {2}
    StackAdjusts = {0, 3}
    Subls = {40}
    AllRbpSlots = FALSE
SPECIFICATION Spec
INVARIANT TypeOK
INVARIANT FramelessRegistersRestored
INVARIANT RbpFrameRegistersRestored
