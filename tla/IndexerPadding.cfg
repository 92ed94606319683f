SPECIFICATION Spec
CONSTANTS
    NumReqs = 3
    MaxLen = 4
    MaxChunk = 3
    NumDrafts = 1
    Window = 2
    TopK = 1
    BlockSize = 2
    MaxLeaves = 0
    Layers <- IndexedLayer
    Uneven = TRUE
INVARIANT AttendsOwnContext
CHECK_DEADLOCK FALSE
