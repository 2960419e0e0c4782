------------------------------ MODULE MCConsole ------------------------------
EXTENDS Console

\* The corner of the screen, and the first columns and rows behind it.
DrawnAt == {[x |-> 0, y |-> 1], [x |-> Width, y |-> Height - 1], [x |-> Width, y |-> 0],
            [x |-> 0, y |-> Height]}
==============================================================================
