--------------------------- MODULE MCMemoryStore ---------------------------
\* Small instances of MemoryStore for TLC.
EXTENDS MemoryStore, TLC

CONSTANTS m1, m2, plain, swapped, readable

\* Two stores with different embedders and one without.
MCStores == {plain, swapped, readable}
MCModel  == [s \in MCStores |->
               CASE s = plain -> m1 [] s = swapped -> m2 [] s = readable -> None]

Symmetry == Permutations(Callers) \cup Permutations(Paths) \cup Permutations(Texts)
=============================================================================
