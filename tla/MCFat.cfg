\* Volumes of clusters 2 to 5 with two names, one of them with a dot, and a
\* directory of two entries.  Past "astray" nothing is modelled.
SPECIFICATION Spec
CONSTANTS
    Last = 5
    Sub = 3
    Names = {a, b}
    Dotted = {b}
    Values = {v, w}
    Lengths = {0, 1}
    Volumes <- MixedVolumes
    Buffers = {1}
    DirSize = 2
INVARIANTS TypeOK  NoClusterLost OthersIntact
SYMMETRY Symmetry
CHECK_DEADLOCK FALSE
