\* Machines of 4 to 80 pages, so up to 10 page tables of 8 entries; the heap
\* holds the shadow map of the largest.
CONSTANTS
    Machines = {4, 6, 8, 9, 15, 16, 17, 24, 33, 40, 41, 63, 64, 80}
    TableSize = 8
    DirPage = 2
    EntryBytes = 3
    BlockBytes = 16
    HeapBlocks = 15
    LowBlocks = 30
    ByteMod = 30
SPECIFICATION TablesSpec
INVARIANTS KernelIdentity FramesOrdered FramesLost
\* paging_init ends.
CHECK_DEADLOCK FALSE
