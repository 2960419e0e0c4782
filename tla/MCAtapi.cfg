\* Two CD drives that may do anything wrong and a hard disk, reads of 0 to 3 sectors.
CONSTANTS
    Drives = {d1, d2}
    HardDisks = {h1}
    Sectors = {0, 1, 2, 3}
    Faults = {"reject", "medium", "hang"}
SPECIFICATION FairSpec
INVARIANTS TypeOK NothingStale BufferFilled
PROPERTIES EveryReadReturns
\* The driver waits for ever for a drive that hangs or refuses the command.
CHECK_DEADLOCK FALSE
