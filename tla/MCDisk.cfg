\* Disks of three sectors, of which the registers name two; a call site keeps at
\* most MaxHeld packets.
SPECIFICATION FairSpec
CONSTANTS
    Kind <- Kinds
    Strict <- StrictDisks
    Size = 3
    AddressMod = 2
    Values = {"a"}
    Counts = {0, 1, 2}
    MaxHeld = 3
INVARIANTS TypeOK ReadExact HeldIsOwed
PROPERTIES WritesInPlace CallReturns
CHECK_DEADLOCK FALSE
