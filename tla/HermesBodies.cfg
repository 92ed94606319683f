SPECIFICATION FrontendSpec
CONSTANTS
    Cap = 2
    MaxMessages = 3
    Chunk = 3
INVARIANTS BodiesWhole
CHECK_DEADLOCK FALSE
