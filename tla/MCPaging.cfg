\* 8 pages in two tables of 4, 2 of them the kernel's: pages 3 and 4 have one
\* frame.  Two programs at most, the stack requests with pid 0 or 3.
CONSTANTS
    NumPages = 8
    KernelPages = 2
    PagesPerTable = 4
    ResvPid = 4
    StackPids = {0, 3}
    ShortMod = 9
    PidBound = 1
    Owners = {o1, o2, o3}
    Requests = {0, 1, 2, 9}
SPECIFICATION Spec
SYMMETRY OwnerSymmetry
INVARIANTS ShadowExact NothingLeftBehind ContentsKept
PROPERTIES HeapSpec
\* A failed assertion stops the kernel.
CHECK_DEADLOCK FALSE
