SPECIFICATION MemorySpec
CONSTANTS
    RamFrames = 6
    FirstFree = 1
    FtPages = 1
    PtPages = 1
    MaxPages = 2
    HeapFrame = {f1, f2, f3, f4}
    Thread = {t1, t2}
    None = None
    BlockType = {1, 2}
    PerPage <- TwoPerPage
    NRoots = 2
    NRefs = 2
    MaxLarge = 1
INVARIANTS FreeListSound NoDoubleUse HeapExact
PROPERTY RefinesPageAllocator
SYMMETRY Symm
CHECK_DEADLOCK FALSE
