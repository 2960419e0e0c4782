SPECIFICATION Spec
CONSTANTS
    Last = 6
    Sub = 3
    Names = {a, b}
    Dotted = {}
    Values = {v, w}
    Lengths = {1}
    Volumes <- FreshVolume
    Buffers = {1}
    DirSize = 2
INVARIANT ChosenIsFree
SYMMETRY Symmetry
CHECK_DEADLOCK FALSE
