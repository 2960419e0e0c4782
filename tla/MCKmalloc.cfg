\* A heap of 7 blocks shared by 4 call sites that ask for 1 to 4 blocks.
CONSTANTS
    TableLen = 7
    Base = 3
    ByteMod = 14
    Owners = {o1, o2, o3, o4}
    Requests = {1, 2, 3, 4}
    OobWords = {0}
SPECIFICATION Spec
SYMMETRY OwnerSymmetry
INVARIANTS NoBlockLost ScanIsFirstFit
PROPERTIES HeapSpec
