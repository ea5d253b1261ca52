CONSTANTS
    Lang = "c"
    FixAllocChunk = 6
    LinkSize = 2
    Sizes = {1, 3, 4, 6, 7}
    Gaps = {0, 2}
    Memory = 14
SPECIFICATION Spec
INVARIANT ObjectsInChunks
CHECK_DEADLOCK FALSE
