\* Up to four functions and every way to attach four drives; the lists are short enough
\* to be overrun.
SPECIFICATION Spec
CONSTANTS
    Machines <- AllMachines
    ListLen = 4
    SearchLen = 6
    DriverLen = 2
    Blocks = 7
    ShadowBlocks = 2
INVARIANTS ControllerDriven Boots CdsKnown TablesFound PacketInShadowMap
CHECK_DEADLOCK FALSE
