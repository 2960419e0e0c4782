------------------------------- MODULE MCDisk -------------------------------
EXTENDS Disk

\* A CD drive and a hard disk on the first channel, another disk on the second.
Kinds == [d \in Slots |-> <<"CD", "HD", "HD", "none">>[d + 1]]
StrictDisks == {2}
=============================================================================
