-------------------------------- MODULE MCIso --------------------------------
EXTENDS Iso

Ab == <<"a", "b">>
Cd == <<"c", "d">>
Ef == <<"e", "f">>
G == <<"g">>
Hi == <<"h", "i">>
Xy == <<"x", ".", "y">>
Xyz == <<"x", ".", "y", "z">>

Dir(n, p) == [name |-> n, parent |-> p]
Root == Dir(<<>>, 0)

\* Two branches with directories of the same names, three deep, and one more in
\* the second sector of the table, as its parent is; prefixes among the files, and a
\* name of odd length, with a file beyond the first sector of its listing.
Deep == [table |-> <<Root, Dir(Ab, 1), Dir(G, 1), Dir(Cd, 2), Dir(Cd, 3), Dir(Ef, 4), Dir(Ef, 5), Dir(Hi, 6)>>,
         files |-> <<<<Xy>>, <<Xyz, Xy>>, <<Ab, G, Xy>>, <<>>, <<Xy>>, <<Xy>>, <<Xy, Xyz>>, <<Xy>>>>,
         whole |-> TRUE]

\* One directory, twice, the second time where a path of two words does not tell.
Flat == [table |-> <<Root, Dir(G, 1), Dir(Ab, 1), Dir(G, 3)>>,
         files |-> <<<<Xy, Xyz>>, <<Xyz>>, <<>>, <<Xy>>>>,
         whole |-> TRUE]

\* The first, with an entry across the end of its first sector.
MCVolumes == {Deep, Flat, [Deep EXCEPT !.whole = FALSE]}
MCPaths == {[dirs |-> d, file |-> f] :
              d \in {<<>>, <<G>>, <<Ab>>, <<Ab, Cd>>, <<Ab, G>>, <<Ab, Cd, Ef>>, <<G, Cd, Ef>>}, f \in {Xy, Xyz}}
           \cup {[dirs |-> <<Ab, Cd, Ef, Hi>>, file |-> Xy]}
MCStale == {<<>>, <<<<"q">>>>, <<<<".">>>>, <<<<"q">>, <<"r">>>>}
=============================================================================
