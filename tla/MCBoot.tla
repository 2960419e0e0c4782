-------------------------------- MODULE MCBoot --------------------------------
EXTENDS Boot

Fn(b, s, c, u) == [bus |-> b, slot |-> s, class |-> c, sub |-> u, refused |-> FALSE]
Ich4 == [Fn(0, 9, 1, 1) EXCEPT !.refused = TRUE]
Host == Fn(0, 0, 6, 0)
Isa == Fn(0, 8, 6, 1)
Ide == Fn(0, 9, 1, 1)
Sata == Fn(1, 8, 1, 6)  \* where the ISA bridge is on bus 0
Odd == Fn(0, 0, 0, 1)   \* its word is that of the end of the list

\* An ordinary machine, one without and one with two controllers, one with a second
\* bus, one that fills the list and one that overruns it, one whose list seems to end, and one
\* with the controller the driver refuses.
Boards == {<<Host, Isa, Ide>>, <<Host, Isa>>, <<Host, Ide, Fn(0, 10, 1, 1)>>, <<Host, Isa, Sata>>,
           <<Host, Isa, Ide, Sata>>, <<Host, Ide, Isa, Fn(0, 11, 2, 0)>>,
           <<Host, Ide, Isa, Fn(0, 11, 2, 0), Fn(0, 12, 3, 0)>>, <<Odd, Isa, Ide>>,
           <<Ide, Fn(0, 10, 1, 1), Fn(0, 11, 1, 1)>>, <<Host, Isa, Fn(0, 10, 1, 0), Fn(0, 11, 1, 1)>>,
           <<Host, Fn(0, 7, 1, 6), Ide>>, <<Host, Ich4>>, <<>>}

AllMachines == [functions : Boards, attached : [Drives -> {"PATA", "PATAPI", "none"}],
                strict : {{}, {1}}, discs : {{0, 1, 2, 3}, {1, 3}}]
===============================================================================
