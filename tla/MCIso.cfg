\* Two CD drives; a heap that runs full after some reads.
SPECIFICATION FairSpec
CONSTANTS
    Cds = {0, 1}
    Volumes <- MCVolumes
    Paths <- MCPaths
    PerSector = 5
    PerListing = 2
    Stale <- MCStale
    Heap = 16
    Pages = 2
INVARIANTS TypeOK RightFile Live
PROPERTY Ends
CHECK_DEADLOCK FALSE
