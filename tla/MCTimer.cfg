\* A clock of 16 values, and sleeps that begin at each of them.
CONSTANTS
    Mod = 16
    Times = {0, 1, 2, 5, 9, 15}
SPECIFICATION FairClockSpec
INVARIANTS NoLongSleep ExactAwayFromReset
PROPERTIES SleepEnds
