\* Callers that also ask for 0 blocks, or for more than a uint8_t counts.
CONSTANTS
    TableLen = 5
    Base = 3
    ByteMod = 10
    Owners = {o1, o2, o3}
    Requests = {0, 1, 2, 3, 5, 11}
    OobWords = {0, 5}
SPECIFICATION Spec
SYMMETRY OwnerSymmetry
INVARIANTS TableWellFormed
