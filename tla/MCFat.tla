-------------------------------- MODULE MCFat --------------------------------
EXTENDS Fat, TLC

\* A volume with files whose clusters are where the driver looks for the words of
\* the two directories (8 and 12) and of cluster 5, which is in use too; a volume
\* filled up to cluster 13, on which the driver takes clusters 4 and 5 for free; and
\* the first on a strict disk.
Scattered == {2, 3, 5, 8, 12, 20}
MixedVolumes == {[used |-> Scattered, strict |-> FALSE], [used |-> 2..13, strict |-> FALSE],
                 [used |-> Scattered, strict |-> TRUE]}
\* A volume with nothing but its two directories.
FreshVolume == {[used |-> {2, 3}, strict |-> FALSE]}

Symmetry == Permutations(Names \ Dotted) \cup Permutations(Values)
==============================================================================
